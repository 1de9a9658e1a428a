----------------------------- MODULE ConfigStore -----------------------------
(***************************************************************************)
(* config.json and those who read and write it: getConfig and setConfig    *)
(* (main/config.ts), the start of an Application and its listener of       *)
(* 'locale-change' (main/application.ts), the ipc handlers of the settings *)
(* (main/ipc_messages.ts) and Localization.setLang (main/l10n.ts).         *)
(*                                                                         *)
(* Within a process a read and the write that follows it are one callback. *)
(* But a second launch runs beforeStart() before it finds that it does not *)
(* hold the single instance lock, and is not ended by that at once, so two *)
(* processes can be at the file: an action is what one process does up to  *)
(* its next access to it.                                                  *)
(***************************************************************************)
EXTENDS Naturals, FiniteSets

CONSTANTS
  Processes,
  Settings,      \* logging, telemetry, theme, urgency, sounds, start-up, host
  Values, Default,
  Locales, DefaultLocale,
  Absent, Torn,  \* a file that is not there, and one that does not parse
  NoConfig,
  Starts,        \* pairs of a file, "absent", "old" or "complete", and of the
                 \* processes that the user launches
  MaxLaunches,   \* bound: launches of the program
  MaxChanges     \* bound: changes of a setting or of the language

ASSUME ConfigAssumption ==
  /\ Default \in Values
  /\ DefaultLocale \in Locales
  /\ Starts \subseteq {"absent", "old", "complete"} \X SUBSET Processes
  /\ MaxLaunches \in Nat \ {0} /\ MaxChanges \in Nat

VARIABLES
  file,      \* config.json: Absent, Torn or a configuration
  active,    \* the processes that the user launches
  phase,     \* how far each process is
  uuid,      \* the user id in its default configuration
  own,       \* Application.config of each process
  writing,   \* the configuration in a setConfig under way, or NoConfig
  open,      \* its file has been opened, and thereby truncated
  lang,      \* l10n.lang of the process that runs
  chosen,    \* what the user chose last for each setting
  hubUser,   \* the user id that the hub was first told, or NoUser
  raced,     \* history: a start found no user in the file beside another launch
  launches, changes

processVars == <<phase, uuid, own, writing, open>>
vars == <<file, active, processVars, lang, chosen, hubUser, raced, launches, changes>>

NoUser == 0     \* the n-th launch makes the default user id n

\* complete: it has the keys of the default configuration.
Configs == [userId : 0 .. MaxLaunches, locale : Locales, settings : [Settings -> Values],
            providers : BOOLEAN, complete : BOOLEAN]

ASSUME FilesAssumption == Absent # Torn /\ {Absent, Torn, NoConfig} \cap Configs = {}

Parses(f) == f \notin {Absent, Torn}

DefaultConfig(id) ==
  [userId |-> id, locale |-> DefaultLocale, settings |-> [s \in Settings |-> Default],
   providers |-> FALSE, complete |-> TRUE]

Running(p) == phase[p] = "running"
Idle(p) == writing[p] = NoConfig

TypeOK ==
  /\ file \in Configs \cup {Absent, Torn}
  /\ active \in SUBSET Processes
  /\ phase \in [Processes -> {"off", "launched", "imported", "constructed", "begun", "locked",
                               "refused", "running", "quitting"}]
  /\ uuid \in [Processes -> 0 .. MaxLaunches]
  /\ own \in [Processes -> Configs \cup {NoConfig}]
  /\ writing \in [Processes -> Configs \cup {NoConfig}]
  /\ open \in [Processes -> BOOLEAN]
  /\ \A p \in Processes : phase[p] \in {"off", "launched", "imported"} <=> own[p] = NoConfig
  /\ lang \in Locales \cup {NoConfig}
  /\ chosen \in [Settings -> Values]
  /\ hubUser \in 0 .. MaxLaunches
  /\ raced \in BOOLEAN
  /\ launches \in 0 .. MaxLaunches
  /\ changes \in 0 .. MaxChanges

\* Before the first launch, after an upgrade from a version whose file has
\* other keys and no user id, or with a user that an earlier launch (1) made.
Init ==
  /\ \E start \in Starts :
       /\ active = start[2]
       /\ \/ start[1] = "absent" /\ file = Absent /\ launches = 0
          \/ start[1] = "old" /\ launches = 0
             /\ file = [DefaultConfig(NoUser) EXCEPT !.complete = FALSE]
          \/ start[1] = "complete" /\ file = DefaultConfig(1) /\ launches = 1
  /\ phase = [p \in Processes |-> "off"]
  /\ uuid = [p \in Processes |-> NoUser]
  /\ own = [p \in Processes |-> NoConfig]
  /\ writing = [p \in Processes |-> NoConfig]
  /\ open = [p \in Processes |-> FALSE]
  /\ lang = NoConfig
  /\ chosen = [s \in Settings |-> Default]
  /\ hubUser = NoUser
  /\ raced = FALSE
  /\ changes = 0

-----------------------------------------------------------------------------
(* getConfig and setConfig *)

\* setConfig(c), up to its first access to the file.
SetConfig(p, c) == writing' = [writing EXCEPT ![p] = c] /\ UNCHANGED open

\* writeFileSync truncates the file when it opens it ...
OpenFile(p) ==
  /\ ~Idle(p) /\ ~open[p]
  /\ file' = Torn
  /\ open' = [open EXCEPT ![p] = TRUE]
  /\ UNCHANGED <<phase, uuid, own, writing, lang, chosen, hubUser, raced, launches, changes>>

\* ... and then writes it.  What another process has written in the meantime
\* may be longer, and its tail then stays.
WriteFile(p) ==
  /\ ~Idle(p) /\ open[p]
  /\ file' \in {writing[p]} \cup (IF Parses(file) THEN {Torn} ELSE {})
  /\ writing' = [writing EXCEPT ![p] = NoConfig]
  /\ open' = [open EXCEPT ![p] = FALSE]
  /\ UNCHANGED <<phase, uuid, own, lang, chosen, hubUser, raced, launches, changes>>

\* Mutant: the defaults replace the user id that is there.
GotConfigReset(p) ==
  IF file = Absent THEN DefaultConfig(uuid[p])
                     ELSE [file EXCEPT !.complete = TRUE, !.userId = uuid[p]]

\* What getConfig returns: missing keys are filled in from the defaults.
GotConfig(p) ==
  IF file = Absent THEN DefaultConfig(uuid[p])
  ELSE IF file.complete THEN file
  ELSE [file EXCEPT !.complete = TRUE, !.userId = IF @ = NoUser THEN uuid[p] ELSE @]

\* getConfig saves what it had to fill in.
SaveFilled(p) ==
  IF GotConfig(p) = file THEN UNCHANGED <<writing, open>> ELSE SetConfig(p, GotConfig(p))

-----------------------------------------------------------------------------
(* an application starts *)

Launch(p) ==
  /\ phase[p] = "off"
  /\ launches < MaxLaunches
  /\ launches' = launches + 1
  /\ uuid' = [uuid EXCEPT ![p] = launches + 1]
  /\ phase' = [phase EXCEPT ![p] = "launched"]
  /\ UNCHANGED <<file, own, writing, open, lang, chosen, hubUser, raced, changes>>

\* The file has no user id yet.
Userless == file = Absent \/ (Parses(file) /\ file.userId = NoUser)

\* getConfig at the import of the logger, and then for the application itself.
\* A file that does not parse makes JSON.parse throw, which ends the start.
ReadConfig(p, to) ==
  /\ raced' = (raced \/ (Userless /\ \E q \in Processes \ {p} : phase[q] # "off"))
  /\ IF file = Torn
     THEN /\ phase' = [phase EXCEPT ![p] = "off"]
          /\ UNCHANGED <<writing, open>>
     ELSE /\ phase' = [phase EXCEPT ![p] = to]
          /\ SaveFilled(p)

Import(p) ==
  /\ phase[p] = "launched"
  /\ ReadConfig(p, "imported")
  /\ UNCHANGED <<file, uuid, own, lang, chosen, hubUser, launches, changes>>

Construct(p) ==
  /\ phase[p] = "imported" /\ Idle(p)
  /\ ReadConfig(p, "constructed")
  /\ own' = [own EXCEPT ![p] = IF file = Torn THEN NoConfig ELSE GotConfig(p)]
  /\ UNCHANGED <<file, uuid, lang, chosen, hubUser, launches, changes>>

\* beforeStart: Firefox's providers are added to a list that is empty, and the
\* whole configuration is saved, unless looking for them fails.
BeforeStart(p) ==
  /\ phase[p] = "constructed" /\ Idle(p)
  /\ phase' = [phase EXCEPT ![p] = "begun"]
  /\ \/ /\ ~own[p].providers
        /\ \E found \in BOOLEAN :
             LET c == [own[p] EXCEPT !.providers = found]
             IN  own' = [own EXCEPT ![p] = c] /\ SetConfig(p, c)
     \/ UNCHANGED <<own, writing, open>>
  /\ UNCHANGED <<file, uuid, lang, chosen, hubUser, raced, launches, changes>>

\* start: a launch that does not get the lock asks to quit, which takes effect
\* later (End), and meanwhile goes on as one that gets it.
Lock(p) ==
  /\ phase[p] = "begun" /\ Idle(p)
  /\ phase' = [phase EXCEPT ![p] = IF \E q \in Processes : phase[q] \in {"locked", "running"}
                                  THEN "refused" ELSE "locked"]
  /\ UNCHANGED <<file, uuid, own, writing, open, lang, chosen, hubUser, raced, launches, changes>>

\* Mutant: the language is announced but not set in the configuration.
SaveLocaleUnset(p, l) ==
  /\ SetConfig(p, own[p])
  /\ UNCHANGED own

\* The listener of 'locale-change': the configuration that was read when the
\* application was constructed is saved with the new locale.
SaveLocale(p, l) ==
  /\ own' = [own EXCEPT ![p].locale = l]
  /\ SetConfig(p, [own[p] EXCEPT !.locale = l])

\* onReady, up to the hub connection, which takes the user id from the file:
\* setLang announces the locale, and the listener saves it.
Ready(p) ==
  /\ phase[p] = "locked" /\ Idle(p)
  /\ phase' = [phase EXCEPT ![p] = "running"]
  /\ lang' = own[p].locale
  /\ SaveLocale(p, own[p].locale)
  /\ UNCHANGED <<file, uuid, chosen, hubUser, raced, launches, changes>>

\* The same in a launch that was refused the lock and has not quit yet.
RefusedReady(p) ==
  /\ phase[p] = "refused" /\ Idle(p)
  /\ phase' = [phase EXCEPT ![p] = "quitting"]
  /\ SaveLocale(p, own[p].locale)
  /\ UNCHANGED <<file, uuid, lang, chosen, hubUser, raced, launches, changes>>

\* syncSessions sends the user id that is in the file.
TellHub(p) ==
  /\ phase[p] \in {"running", "quitting"} /\ Idle(p)
  /\ Parses(file)
  /\ hubUser = NoUser
  /\ hubUser' = file.userId
  /\ UNCHANGED <<file, processVars, lang, chosen, raced, launches, changes>>

-----------------------------------------------------------------------------
(* an application runs *)

\* Mutant: the handler starts from the default configuration.
SaveSettingOverDefaults(p, s, v) ==
  /\ SetConfig(p, [DefaultConfig(uuid[p]) EXCEPT !.locale = lang, !.settings[s] = v])
  /\ UNCHANGED own

SaveSetting(p, s, v) ==
  /\ SetConfig(p, [file EXCEPT !.settings[s] = v])
  /\ UNCHANGED own

\* An ipc handler sets or toggles a setting in the file as it is now.
SetSetting(p, s, v) ==
  /\ Running(p) /\ Idle(p)
  /\ changes < MaxChanges
  /\ changes' = changes + 1
  /\ Parses(file)
  /\ file.settings[s] # v
  /\ SaveSetting(p, s, v)
  /\ chosen' = [chosen EXCEPT ![s] = v]
  /\ UNCHANGED <<file, phase, uuid, lang, hubUser, raced, launches>>

\* 'ipc-language-set'
SetLanguage(p, l) ==
  /\ Running(p) /\ Idle(p)
  /\ changes < MaxChanges
  /\ changes' = changes + 1
  /\ lang' = l
  /\ SaveLocale(p, l)
  /\ UNCHANGED <<file, phase, uuid, chosen, hubUser, raced, launches>>

\* The process ends, at any time.
End(p) ==
  /\ phase[p] # "off"
  /\ phase' = [phase EXCEPT ![p] = "off"]
  /\ own' = [own EXCEPT ![p] = NoConfig]
  /\ writing' = [writing EXCEPT ![p] = NoConfig]
  /\ open' = [open EXCEPT ![p] = FALSE]
  /\ UNCHANGED uuid
  /\ lang' = IF Running(p) THEN NoConfig ELSE lang
  /\ UNCHANGED <<file, uuid, chosen, hubUser, raced, launches, changes>>

Steps(p) ==
  \/ OpenFile(p) \/ WriteFile(p)
  \/ Launch(p) \/ Import(p) \/ Construct(p) \/ BeforeStart(p)
  \/ Lock(p) \/ Ready(p) \/ RefusedReady(p) \/ TellHub(p)
  \/ \E s \in Settings, v \in Values : SetSetting(p, s, v)
  \/ \E l \in Locales : SetLanguage(p, l)
  \/ End(p)

Next == \E p \in active : Steps(p) /\ UNCHANGED active

Spec == Init /\ [][Next]_vars

-----------------------------------------------------------------------------
(* properties *)

\* The hub knows the user by one id for ever: no restart, no crash, no second
\* launch and no stale copy that it writes back brings another id into the file,
\* unless a launch found no user there while another was under way (each then
\* makes an id).
OneUser == ~raced /\ hubUser # NoUser /\ Parses(file) => file.userId = hubUser

\* p runs, nothing is being saved, and no second launch ever meddles.
AtRest(p) == active = {p} /\ Running(p) /\ Idle(p) /\ Parses(file)

\* A running application that has no second launch beside it shows the language
\* that it will start with next time.
LocaleSaved == \A p \in Processes : AtRest(p) => file.locale = lang

\* A setting is what the user chose last, or else what it was at start-up: a
\* change of the language may bring that back, but no value from in between.
StaleAtWorst ==
  \A p \in Processes : AtRest(p) =>
    \A s \in Settings : file.settings[s] \in {chosen[s], own[p].settings[s]}

\* "Save locale to config." (main/application.ts:143): saving the locale leaves
\* the user's settings as they were chosen.
SettingsKept ==
  \A p \in Processes : AtRest(p) /\ file.locale = lang =>
    \A s \in Settings : file.settings[s] = chosen[s]
=============================================================================
