---------------------------- MODULE Preferences ----------------------------
(***************************************************************************)
(* What a user sets: the notification switches of                          *)
(* components/NotificationPreferences.tsx ("switches"), which show a new   *)
(* value before the backend has it and take it back when the request       *)
(* fails, and the theme of components/ThemeProvider.tsx ("theme"), which   *)
(* every tab keeps for itself and localStorage for the next page.          *)
(*                                                                         *)
(* The endpoint of the switches is not in the backend: that it applies a   *)
(* change and answers with all of them is what the component expects.      *)
(***************************************************************************)
EXTENDS Integers

CONSTANTS
  Switches,   \* the keys of TOGGLES
  Saves,      \* bound: PATCH requests in flight
  Displays,   \* the tabs of the browser
  Unset       \* no such value

Chosen == [Switches -> BOOLEAN]

\* prev: what the switches showed; answer: all the switches of the backend, once
\* it has applied the change; alone: no other request was in flight beside it.
Patch == [key : Switches, value : BOOLEAN, prev : Chosen,
          answer : Chosen \cup {Unset}, alone : BOOLEAN]

ASSUME PreferencesAssumption ==
  Unset \notin BOOLEAN /\ Unset \notin Chosen /\ Unset \notin Patch

VARIABLES
  pane,        \* "switches" or "theme"
  settings,    \* what the switches show; Unset: the skeleton
  kept,        \* what the backend has
  patch,       \* PATCH -> what it carries
  doubt,       \* history: toggles overlapped, or an answer was lost
  system,      \* the operating system prefers dark
  stored,      \* localStorage: theme; TRUE is dark
  display      \* tab -> its theme, and that of its document, which are set together;
               \* TRUE is dark

preferenceVars == <<pane, settings, kept, patch, doubt, system, stored, display>>

PreferencesTypeOK ==
  /\ pane \in {"switches", "theme"}
  /\ settings \in Chosen \cup {Unset} /\ kept \in Chosen
  /\ patch \in [Saves -> Patch \cup {Unset}]
  /\ doubt \in BOOLEAN /\ system \in BOOLEAN /\ stored \in BOOLEAN \cup {Unset}
  /\ display \in [Displays -> BOOLEAN \cup {Unset}]

PreferencesInit ==
  /\ pane \in {"switches", "theme"}
  /\ settings = Unset
  /\ kept \in IF pane = "switches" THEN Chosen ELSE {[k \in Switches |-> TRUE]}
  /\ patch = [i \in Saves |-> Unset]
  /\ doubt = FALSE
  /\ system \in BOOLEAN /\ (pane = "theme" \/ ~system)
  /\ stored = Unset
  /\ display = [d \in Displays |-> Unset]

-----------------------------------------------------------------------------
(* The switches.                                                           *)

SwitchInFlight == {i \in Saves : patch[i] # Unset}

\* The GET of the settings; when it fails the defaults stay.
SettingsLoaded ==
  /\ pane = "switches" /\ settings = Unset
  /\ settings' = kept
  /\ UNCHANGED <<kept, patch, doubt>>

SettingsFail ==
  /\ pane = "switches" /\ settings = Unset
  /\ settings' = [k \in Switches |-> TRUE]
  /\ doubt' = TRUE
  /\ UNCHANGED <<kept, patch>>

ToggleSwitch(i, k) ==
  /\ settings # Unset /\ patch[i] = Unset
  /\ settings' = [settings EXCEPT ![k] = ~@]
  /\ patch' = [j \in Saves |->
       CASE j = i -> [key |-> k, value |-> ~settings[k], prev |-> settings,
                      answer |-> Unset, alone |-> SwitchInFlight = {}]
         [] j \in SwitchInFlight -> [patch[j] EXCEPT !.alone = FALSE]
         [] OTHER -> Unset]
  /\ doubt' = (doubt \/ SwitchInFlight # {})
  /\ UNCHANGED kept

\* The backend applies the change.
PatchApplied(i) ==
  /\ patch[i] # Unset /\ patch[i].answer = Unset
  /\ kept' = [kept EXCEPT ![patch[i].key] = patch[i].value]
  /\ patch' = [patch EXCEPT ![i].answer = kept']
  /\ UNCHANGED <<settings, doubt>>

PatchAnswered(i) ==
  /\ patch[i] # Unset /\ patch[i].answer # Unset
  /\ settings' = patch[i].answer
  /\ patch' = [patch EXCEPT ![i] = Unset]
  /\ doubt' = (doubt /\ ~patch[i].alone)
  /\ UNCHANGED kept

\* Mutant: what the user set is left on the screen.
RolledBackNever(i) == settings

\* What the switches showed when this one was toggled.
RolledBack(i) == patch[i].prev

\* The request is refused, or its answer is lost.
PatchFails(i) ==
  /\ patch[i] # Unset
  /\ settings' = RolledBack(i)
  /\ patch' = [patch EXCEPT ![i] = Unset]
  /\ doubt' = (doubt \/ patch[i].answer # Unset)
  /\ UNCHANGED kept

-----------------------------------------------------------------------------
(* The theme.                                                              *)

\* ThemeScript sets the class before the page is shown, the effect of
\* ThemeProvider reads it.
Preferred == IF stored # Unset THEN stored ELSE system

LoadTheme(d) ==
  /\ pane = "theme"
  /\ display' = [display EXCEPT ![d] = Preferred]
  /\ UNCHANGED <<system, stored>>

\* The button takes the theme of its tab as the one to leave.
ToggleTheme(d) ==
  /\ display[d] # Unset
  /\ display' = [display EXCEPT ![d] = ~@]
  /\ stored' = display'[d]
  /\ UNCHANGED system

\* handleChange of every tab, unless the user has chosen in one of them.
SystemChanges ==
  /\ pane = "theme"
  /\ system' = ~system
  /\ display' = [d \in Displays |->
       IF display[d] = Unset \/ stored # Unset THEN display[d] ELSE ~system]
  /\ UNCHANGED stored

PreferencesNext ==
  /\ \/ \/ SettingsLoaded \/ SettingsFail
        \/ \E i \in Saves :
             \/ \E k \in Switches : ToggleSwitch(i, k)
             \/ PatchApplied(i) \/ PatchAnswered(i) \/ PatchFails(i)
        /\ UNCHANGED <<system, stored, display>>
     \/ \/ \E d \in Displays : LoadTheme(d) \/ ToggleTheme(d)
        \/ SystemChanges
        /\ UNCHANGED <<settings, kept, patch, doubt>>
  /\ UNCHANGED pane

PreferencesSpec == PreferencesInit /\ [][PreferencesNext]_preferenceVars

-----------------------------------------------------------------------------
(* Properties.                                                             *)

\* With no request under way the switches show what the backend has, unless
\* toggles overlapped or an answer was lost, and no request has succeeded
\* alone since.  (Toggles that overlap may roll back to a value the other has
\* changed, or show the older of two answers.)
SwitchesShowSaved ==
  settings # Unset /\ SwitchInFlight = {} /\ ~doubt => settings = kept
=============================================================================
