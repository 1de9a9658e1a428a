----------------------------- MODULE Preferences -----------------------------
(***************************************************************************)
(* The preferences window (renderer/containers/preferences: Root with its  *)
(* Container and Settings) and the main process behind it: the handlers of *)
(* main/ipc_messages.ts, Localization (l10n.ts) with the application's     *)
(* listener of its event, the tray's request for a tab, and the texts of   *)
(* every window (components/intl/intl_provider.tsx).                       *)
(*                                                                         *)
(* A window and the main process exchange messages, in order in each       *)
(* direction; sendSync is a read of the main process's state.  The main    *)
(* process never stops here: ConfigStore is about its starts and crashes.  *)
(***************************************************************************)
EXTENDS Integers, Sequences, FiniteSets

CONSTANTS
  Switches,      \* logging, telemetry, sounds, start-up: changed by toggling
  Selects,       \* priority: changed by choosing a value
  Theme, Host,   \* the theme is read from Electron, the host typed by the key
  Langs,         \* supportedLangs
  Windows,       \* the windows, all of which have texts
  Prefs,         \* the one that shows the preferences
  MaxInputs,     \* bound: what the user does
  MaxOpens       \* bound: windows opened and tabs asked for in the tray

ASSUME PreferencesAssumption ==
  /\ Prefs \in Windows
  /\ Host \notin Switches \cup Selects \cup {Theme}
  /\ {MaxInputs, MaxOpens} \subseteq Nat

VARIABLES
  saved,         \* config.json
  start,         \* Application.config, read when the program started
  theme,         \* nativeTheme.themeSource
  lang,          \* l10n.lang
  phase,         \* each window: "none", "loading" or "up"
  params,        \* the tab in the window's params
  tab, shown,    \* activeTab and the settings in Root's state
  text,          \* the language of each window's texts
  toMain,        \* messages from the preferences window
  toWindow,      \* messages to each window
  wish,          \* what the user has chosen for each setting
  clicked,       \* the user has chosen a tab since the tray's last request came
  touched,       \* the language has been changed
  inputs, opens

mainVars == <<saved, start, theme, lang>>
rootVars == <<params, tab, shown>>
queues   == <<toMain, toWindow>>
ghosts   == <<wish, clicked, touched>>
bounds   == <<inputs, opens>>
vars == <<mainVars, phase, rootVars, text, queues, ghosts, bounds>>

\* A value is one of two, but the host's is the number of its characters.
Settings == Switches \cup Selects \cup {Theme, Host}
Values(s) == IF s = Host THEN 0 .. MaxInputs ELSE 0 .. 1
Configs == {c \in [Settings -> 0 .. MaxInputs + 1] : \A s \in Settings : c[s] \in Values(s)}
Tabs == {"requests", "settings", "about"}

Messages == [what : {"toggle", "set"}, key : Settings, value : 0 .. MaxInputs]
              \cup [what : {"language"}, key : Langs, value : {0}]
Replies == [what : {"changed"}, key : Settings, value : 0 .. MaxInputs]
              \cup [what : {"language"}, key : Langs, value : {0}]
              \cup [what : {"params"}, key : Tabs, value : {0}]

Message(what, key, value) == [what |-> what, key |-> key, value |-> value]

TypeOK ==
  /\ saved \in Configs /\ start \in Configs /\ theme \in 0 .. 1 /\ lang \in Langs
  /\ phase \in [Windows -> {"none", "loading", "up"}]
  /\ params \in Tabs /\ tab \in Tabs /\ shown \in Configs
  /\ text \in [Windows -> Langs]
  /\ toMain \in Seq(Messages)
  /\ toWindow \in [Windows -> Seq(Replies)]
  /\ wish \in Configs /\ clicked \in BOOLEAN /\ touched \in BOOLEAN
  /\ inputs \in 0 .. MaxInputs /\ opens \in 0 .. MaxOpens

Init ==
  /\ saved = [s \in Settings |-> 0] /\ start = saved /\ theme = 0
  /\ lang \in Langs
  /\ phase = [w \in Windows |-> "none"]
  /\ params = "about" /\ tab = "about" /\ shown = saved
  /\ text = [w \in Windows |-> lang]
  /\ toMain = <<>> /\ toWindow = [w \in Windows |-> <<>>]
  /\ wish = saved /\ clicked = FALSE /\ touched = FALSE
  /\ inputs = 0 /\ opens = 0

-----------------------------------------------------------------------------
(* windows come and go *)

Opens == opens < MaxOpens /\ opens' = opens + 1

\* webContents.send: a page that is still loading hears nothing.
Send(w, m) == IF phase[w] = "up" THEN Append(toWindow[w], m) ELSE toWindow[w]

\* showPreferencesWindow with a tab: the window that is there is told.
ShowPreferences(t) ==
  /\ Opens
  /\ params' = t
  /\ IF phase[Prefs] = "none"
     THEN phase' = [phase EXCEPT ![Prefs] = "loading"] /\ UNCHANGED toWindow
     ELSE /\ toWindow' = [toWindow EXCEPT ![Prefs] = Send(Prefs, Message("params", t, 0))]
          /\ UNCHANGED phase
  /\ UNCHANGED <<mainVars, tab, shown, text, toMain, ghosts, inputs>>

OpenOther(w) ==
  /\ w # Prefs /\ phase[w] = "none"
  /\ Opens
  /\ phase' = [phase EXCEPT ![w] = "loading"]
  /\ UNCHANGED <<mainVars, rootVars, text, queues, ghosts, inputs>>

\* What Root reads when it mounts: the theme is Electron's, the rest is saved.
Mounted == [saved EXCEPT ![Theme] = theme]

\* Mutants: the tab is a constant of the page; the theme is read like the rest.
MountRootDefault == tab' = "requests" /\ shown' = Mounted /\ clicked' = FALSE
MountRootSaved == tab' = params /\ shown' = saved /\ clicked' = FALSE

\* Root's constructor and componentWillMount, one after the other in the page.
MountRoot == tab' = params /\ shown' = Mounted /\ clicked' = FALSE

\* IntlProvider's componentWillMount.
MountTexts(w) == text' = [text EXCEPT ![w] = lang]

\* Mutant: a page is rendered only if it has parameters.
MountPrefs(w) ==
  /\ phase[w] = "loading" /\ w = Prefs
  /\ phase' = [phase EXCEPT ![w] = "up"]
  /\ MountTexts(w) /\ MountRoot
  /\ UNCHANGED <<mainVars, params, queues, wish, touched, bounds>>

\* A page has loaded and is rendered.
Mount(w) ==
  /\ phase[w] = "loading"
  /\ phase' = [phase EXCEPT ![w] = "up"]
  /\ MountTexts(w)
  /\ IF w = Prefs THEN MountRoot ELSE UNCHANGED <<tab, shown, clicked>>
  /\ UNCHANGED <<mainVars, params, queues, wish, touched, bounds>>

\* A window is closed with the messages to and from it: what it had asked for
\* and was not done yet is never done.
Close(w) ==
  /\ phase[w] # "none"
  /\ phase' = [phase EXCEPT ![w] = "none"]
  /\ toWindow' = [toWindow EXCEPT ![w] = <<>>]
  /\ IF w = Prefs THEN toMain' = <<>> /\ wish' = saved ELSE UNCHANGED <<toMain, wish>>
  /\ UNCHANGED <<mainVars, rootVars, text, clicked, touched, bounds>>

-----------------------------------------------------------------------------
(* the user in the preferences window *)

Input == phase[Prefs] = "up" /\ inputs < MaxInputs /\ inputs' = inputs + 1

\* handleChangeTab
ClickTab(t) ==
  /\ Input
  /\ tab' = t /\ clicked' = TRUE
  /\ UNCHANGED <<mainVars, phase, params, shown, text, queues, wish, touched, opens>>

Ask(m) ==
  /\ Input
  /\ tab = "settings"
  /\ toMain' = Append(toMain, m)
  /\ UNCHANGED <<mainVars, phase, rootVars, text, toWindow, clicked, touched, opens>>

\* A switch sends no value: the main process is to change what it has.
Toggle(s) == Ask(Message("toggle", s, 0)) /\ wish' = [wish EXCEPT ![s] = 1 - @]

Choose(s, v) == Ask(Message("set", s, v)) /\ wish' = [wish EXCEPT ![s] = v]

\* A key in the host's field, or backspace: the field has the value that is
\* shown, so a key pressed before the last one came back replaces it.
TypeHost ==
  \E v \in {shown[Host] + 1, shown[Host] - 1} \cap Nat :
    Ask(Message("set", Host, v)) /\ wish' = [wish EXCEPT ![Host] = v]

ChooseLanguage(l) == Ask(Message("language", l, 0)) /\ UNCHANGED wish

-----------------------------------------------------------------------------
(* the main process *)

\* Mutant: a switch inverts what it was at the start.
NewValueOfStart(m) == IF m.what = "toggle" THEN 1 - start[m.key] ELSE m.value

NewValue(m) == IF m.what = "toggle" THEN 1 - saved[m.key] ELSE m.value

\* setConfig over getConfig(), and the reply to the sender.
Save(m, v) ==
  /\ saved' = [saved EXCEPT ![m.key] = v]
  /\ toWindow' = [toWindow EXCEPT ![Prefs] = Send(Prefs, Message("changed", m.key, v))]

\* The handlers of 'ipc-...-change' and 'ipc-...-set'; the theme is applied.
ChangeSetting(m) ==
  /\ m.what \in {"toggle", "set"}
  /\ Save(m, NewValue(m))
  /\ theme' = IF m.key = Theme THEN NewValue(m) ELSE theme
  /\ UNCHANGED <<start, lang, touched>>

\* Mutant: only the window that asked is told.
SendToSender(m) == toWindow' = [toWindow EXCEPT ![Prefs] = Send(Prefs, m)]

\* sendToRenderers
SendToRenderers(m) == toWindow' = [w \in Windows |-> Send(w, m)]

\* 'ipc-language-set': setLang, whose listener saves the configuration of the
\* start, and then every window is told.
ChangeLanguage(m) ==
  /\ m.what = "language"
  /\ lang' = m.key
  /\ saved' = start /\ touched' = TRUE
  /\ SendToRenderers(m)
  /\ UNCHANGED <<start, theme>>

MainHandles ==
  /\ toMain # <<>>
  /\ toMain' = Tail(toMain)
  /\ ChangeSetting(Head(toMain)) \/ ChangeLanguage(Head(toMain))
  /\ UNCHANGED <<phase, rootVars, text, wish, clicked, bounds>>

-----------------------------------------------------------------------------
(* the windows' listeners *)

\* on...ChangedListener
OnChanged(m) ==
  /\ m.what = "changed"
  /\ shown' = [shown EXCEPT ![m.key] = m.value]
  /\ UNCHANGED <<tab, clicked, text>>

\* onWindowParamsChangeListener
OnWindowParamsChange(m) ==
  /\ m.what = "params"
  /\ tab' = m.key /\ clicked' = FALSE
  /\ UNCHANGED <<shown, text>>

\* onLanguageListener asks for the language of now, whatever the message said.
OnLanguage(w, m) ==
  /\ m.what = "language"
  /\ text' = [text EXCEPT ![w] = lang]
  /\ UNCHANGED <<tab, shown, clicked>>

WindowHandles(w) ==
  /\ phase[w] = "up"
  /\ toWindow[w] # <<>>
  /\ toWindow' = [toWindow EXCEPT ![w] = Tail(@)]
  /\ LET m == Head(toWindow[w]) IN
     OnChanged(m) \/ OnWindowParamsChange(m) \/ OnLanguage(w, m)
  /\ UNCHANGED <<mainVars, phase, params, toMain, wish, touched, bounds>>

Next ==
  \/ \E t \in Tabs : ShowPreferences(t) \/ ClickTab(t)
  \/ \E w \in Windows : OpenOther(w) \/ Mount(w) \/ Close(w) \/ WindowHandles(w)
  \/ \E s \in Switches : Toggle(s)
  \/ \E s \in Selects \cup {Theme}, v \in 0 .. 1 : Choose(s, v)
  \/ TypeHost
  \/ \E l \in Langs : ChooseLanguage(l)
  \/ MainHandles

\* Electron delivers messages and loads pages.
Fairness ==
  /\ WF_vars(MainHandles)
  /\ \A w \in Windows : WF_vars(WindowHandles(w)) /\ WF_vars(Mount(w))

Spec == Init /\ [][Next]_vars /\ Fairness

-----------------------------------------------------------------------------
(* properties *)

Pending(w, what) == \E i \in DOMAIN toWindow[w] : toWindow[w][i].what = what
Rest == phase[Prefs] = "up" /\ toMain = <<>> /\ ~Pending(Prefs, "changed")

\* With nothing on its way the window shows what is saved, but for the choices
\* that a change of the language has taken back, and the theme that is in use,
\* whatever the language did to the file.
ShownIsSaved ==
  Rest => /\ \A s \in Settings \ {Theme} :
               shown[s] = saved[s] \/ (touched /\ saved[s] = start[s])
          /\ shown[Theme] = theme

\* Until the language is changed, what is saved is what the user's clicks come
\* to, in their order: a switch clicked twice before the first click was
\* answered is where it was.
SavedAsWished == toMain = <<>> /\ ~touched => saved = wish

\* No window keeps the texts of another language, even if the language changes
\* while its page loads, or twice before it hears of the first change.
OneLanguage ==
  \A w \in Windows : phase[w] = "up" /\ ~Pending(w, "language") => text[w] = lang

\* The tab is the one that the tray asked for last, also when it asked while the
\* page was loading, unless the user has clicked on another since.
TabFollows ==
  phase[Prefs] = "up" /\ ~Pending(Prefs, "params") /\ ~clicked => tab = params

\* Every message is dealt with and every page is loaded.
Settles ==
  []<>(toMain = <<>> /\ \A w \in Windows : toWindow[w] = <<>> /\ phase[w] # "loading")
=============================================================================
