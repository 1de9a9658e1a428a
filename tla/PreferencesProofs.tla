-------------------------- MODULE PreferencesProofs --------------------------
(***************************************************************************)
(* Theorems about Preferences, for any settings, languages and windows and *)
(* whatever the user does: types, what the window shows, what is saved of  *)
(* the user's choices, the languages of texts and the tab of the tray.     *)
(***************************************************************************)
EXTENDS Preferences, TLAPS

-----------------------------------------------------------------------------
(* queues *)

LEMMA Appended ==
  ASSUME NEW S, NEW q \in Seq(S), NEW m \in S
  PROVE  /\ Append(q, m) \in Seq(S) /\ Len(q) \in Nat
         /\ DOMAIN q = 1 .. Len(q) /\ DOMAIN Append(q, m) = 1 .. Len(q) + 1
         /\ Append(q, m)[Len(q) + 1] = m
         /\ \A i \in DOMAIN q : Append(q, m)[i] = q[i]
  OBVIOUS

LEMMA Dropped ==
  ASSUME NEW S, NEW q \in Seq(S), q # <<>>
  PROVE  /\ Tail(q) \in Seq(S) /\ Len(q) \in Nat \ {0} /\ Head(q) = q[1] /\ Head(q) \in S
         /\ DOMAIN q = 1 .. Len(q) /\ DOMAIN Tail(q) = 1 .. Len(q) - 1
         /\ \A i \in DOMAIN Tail(q) : i + 1 \in DOMAIN q /\ Tail(q)[i] = q[i + 1]
  OBVIOUS

\* What follows of x once the messages of q for a setting are heard.
Comes(q, s, x, v) ==
  \/ \E i \in DOMAIN q :
       /\ q[i].what = "changed" /\ q[i].key = s /\ q[i].value = v
       /\ \A j \in DOMAIN q : j > i /\ q[j].what = "changed" => q[j].key # s
  \/ x = v /\ \A j \in DOMAIN q : q[j].what = "changed" => q[j].key # s

LEMMA ComesAppended ==
  ASSUME NEW q \in Seq(Replies), NEW m \in Replies, NEW s, NEW x, NEW v
  PROVE  /\ m.what = "changed" /\ m.key = s /\ m.value = v => Comes(Append(q, m), s, x, v)
         /\ ~(m.what = "changed" /\ m.key = s) /\ Comes(q, s, x, v) => Comes(Append(q, m), s, x, v)
<1> DEFINE n == Len(q)  a == Append(q, m)
<1>1. /\ n \in Nat /\ DOMAIN q = 1 .. n /\ DOMAIN a = 1 .. n + 1 /\ a[n + 1] = m
      /\ \A i \in 1 .. n : a[i] = q[i]
  BY Appended
<1> HIDE DEF n, a
<1>2. n + 1 \in DOMAIN a /\ \A j \in DOMAIN a : j \in 1 .. n \/ j = n + 1
  BY <1>1
<1>3. ASSUME m.what = "changed", m.key = s, m.value = v
      PROVE  Comes(a, s, x, v)
  <2>1. \A j \in DOMAIN a : ~(j > n + 1)
    BY <1>1
  <2> QED BY <1>1, <1>2, <1>3, <2>1 DEF Comes
<1>4. ASSUME ~(m.what = "changed" /\ m.key = s), Comes(q, s, x, v)
      PROVE  Comes(a, s, x, v)
  <2>1. \A j \in 1 .. n : j \in DOMAIN a
    BY <1>1
  <2>2. CASE x = v /\ \A j \in DOMAIN q : q[j].what = "changed" => q[j].key # s
    BY <1>1, <1>2, <1>4, <2>2 DEF Comes
  <2>3. ASSUME NEW i \in DOMAIN q,
               q[i].what = "changed", q[i].key = s, q[i].value = v,
               \A j \in DOMAIN q : j > i /\ q[j].what = "changed" => q[j].key # s
        PROVE  Comes(a, s, x, v)
    BY <1>1, <1>2, <1>4, <2>1, <2>3 DEF Comes
  <2> QED BY <1>4, <2>2, <2>3 DEF Comes
<1> QED BY <1>3, <1>4 DEF a

LEMMA ComesDropped ==
  ASSUME NEW q \in Seq(Replies), q # <<>>, NEW s, NEW x, NEW v, Comes(q, s, x, v)
  PROVE  /\ Head(q).what = "changed" /\ Head(q).key = s => Comes(Tail(q), s, Head(q).value, v)
         /\ ~(Head(q).what = "changed" /\ Head(q).key = s) => Comes(Tail(q), s, x, v)
<1> DEFINE n == Len(q)  b == Tail(q)
<1>1. /\ n \in Nat \ {0} /\ Head(q) = q[1] /\ DOMAIN q = 1 .. n /\ DOMAIN b = 1 .. n - 1
      /\ \A i \in 1 .. n - 1 : b[i] = q[i + 1]
  BY Dropped
<1> HIDE DEF n, b
<1>2. \A i \in DOMAIN b : i + 1 \in DOMAIN q /\ b[i] = q[i + 1]
  BY <1>1
<1>3. CASE x = v /\ \A j \in DOMAIN q : q[j].what = "changed" => q[j].key # s
  BY <1>1, <1>2, <1>3 DEF Comes, b
<1>4. ASSUME NEW i \in DOMAIN q,
             q[i].what = "changed", q[i].key = s, q[i].value = v,
             \A j \in DOMAIN q : j > i /\ q[j].what = "changed" => q[j].key # s
      PROVE  /\ Head(q).what = "changed" /\ Head(q).key = s => Comes(b, s, Head(q).value, v)
             /\ ~(Head(q).what = "changed" /\ Head(q).key = s) => Comes(b, s, x, v)
  <2>1. CASE i = 1
    <3>1. \A j \in DOMAIN b : b[j].what = "changed" => b[j].key # s
      BY <1>1, <1>2, <1>4, <2>1
    <3> QED BY <1>1, <1>4, <2>1, <3>1 DEF Comes
  <2>2. CASE i # 1
    <3>1. i - 1 \in DOMAIN b /\ b[i - 1] = q[i]
      BY <1>1, <2>2
    <3>2. \A j \in DOMAIN b : j > i - 1 /\ b[j].what = "changed" => b[j].key # s
      BY <1>1, <1>2, <1>4
    <3> QED BY <1>4, <3>1, <3>2 DEF Comes
  <2> QED BY <2>1, <2>2
<1> QED BY <1>3, <1>4 DEF Comes, b
-----------------------------------------------------------------------------
(* types *)

\* A value that a setting can have by now: of the host, one character for every
\* key that was pressed.
Fits(n, s, v) == v \in IF s = Host THEN 0 .. n ELSE 0 .. 1

FitInv ==
  /\ \A s \in Settings : /\ Fits(inputs, s, saved[s]) /\ Fits(inputs, s, start[s])
                         /\ Fits(inputs, s, shown[s]) /\ Fits(inputs, s, wish[s])
  /\ \A i \in DOMAIN toMain :
       /\ toMain[i].what = "toggle" => toMain[i].key # Host
       /\ toMain[i].what = "set" => Fits(inputs, toMain[i].key, toMain[i].value)
  /\ \A i \in DOMAIN toWindow[Prefs] :
       toWindow[Prefs][i].what = "changed" =>
         Fits(inputs, toWindow[Prefs][i].key, toWindow[Prefs][i].value)
  /\ toMain # <<>> => inputs > 0

\* A window that is not up has no messages, and only the preferences window is
\* told of anything but the language.
QueueInv ==
  /\ \A w \in Windows : phase[w] # "up" => toWindow[w] = <<>>
  /\ \A w \in Windows \ {Prefs} : \A i \in DOMAIN toWindow[w] : toWindow[w][i].what = "language"

TypeInv == TypeOK /\ FitInv /\ QueueInv

With(c, s, v) == [c EXCEPT ![s] = v]

LEMMA Changed ==
  ASSUME NEW c \in Configs, NEW s \in Settings, NEW v \in Values(s)
  PROVE  /\ With(c, s, v) \in Configs /\ With(c, s, v)[s] = v
         /\ \A x \in Settings \ {s} : With(c, s, v)[x] = c[x]
<1> DEFINE d == With(c, s, v)
<1>1. c \in [Settings -> 0 .. MaxInputs + 1] /\ \A x \in Settings : c[x] \in Values(x)
  BY DEF Configs
<1>2. v \in 0 .. MaxInputs + 1
  BY PreferencesAssumption DEF Values
<1>3. /\ d \in [Settings -> 0 .. MaxInputs + 1]
      /\ \A x \in Settings : d[x] = IF x = s THEN v ELSE c[x]
  BY <1>1, <1>2 DEF With
<1> HIDE DEF d
<1>4. d \in Configs /\ d[s] = v /\ \A x \in Settings \ {s} : d[x] = c[x]
  BY <1>1, <1>3 DEF Configs
<1> QED BY <1>4 DEF d

LEMMA ConfigFacts ==
  ASSUME TypeInv, NEW s \in Settings, NEW v, Fits(inputs, s, v)
  PROVE  /\ v \in Values(s) /\ v \in 0 .. MaxInputs + 1 /\ v \in Int
         /\ s # Host => 1 - v \in 0 .. 1 /\ Fits(inputs, s, 1 - v) /\ 1 - v \in Values(s)
  BY PreferencesAssumption DEF TypeInv, TypeOK, Fits, Values

\* What is sent arrives where the page is up, after the rest.
LEMMA Sent ==
  ASSUME TypeInv, NEW w \in Windows, NEW m \in Replies
  PROVE  /\ Send(w, m) \in Seq(Replies) /\ toWindow[w] \in Seq(Replies)
         /\ phase[w] = "up" => Send(w, m) = Append(toWindow[w], m)
         /\ phase[w] # "up" => Send(w, m) = <<>>
         /\ \A i \in DOMAIN Send(w, m) : Send(w, m)[i] = m \/ \E j \in DOMAIN toWindow[w] :
                                           Send(w, m)[i] = toWindow[w][j]
<1>1. toWindow[w] \in Seq(Replies) /\ (phase[w] # "up" => toWindow[w] = <<>>)
  BY DEF TypeInv, TypeOK, QueueInv
<1>2. CASE phase[w] = "up"
  <2>1. Send(w, m) = Append(toWindow[w], m)
    BY <1>2 DEF Send
  <2>2. Len(toWindow[w]) \in Nat /\ \A i \in DOMAIN Append(toWindow[w], m) :
          i \in DOMAIN toWindow[w] \/ i = Len(toWindow[w]) + 1
    BY <1>1, Appended
  <2> QED BY <1>1, <1>2, <2>1, <2>2, Appended
<1>3. CASE phase[w] # "up"
  BY <1>1, <1>3 DEF Send
<1> QED BY <1>2, <1>3

\* The user's inputs only give the settings more room.
LEMMA FitsLater ==
  ASSUME TypeInv, inputs' \in {inputs, inputs + 1}, NEW s, NEW v, Fits(inputs, s, v)
  PROVE  Fits(inputs', s, v)
  BY DEF TypeInv, TypeOK, Fits

LEMMA InitType == Init => TypeInv
<1> SUFFICES ASSUME Init
             PROVE  TypeInv
  OBVIOUS
<1>1. MaxInputs \in Nat /\ MaxOpens \in Nat /\ Prefs \in Windows
  BY PreferencesAssumption
<1>2. saved \in Configs
  BY <1>1 DEF Init, Configs, Values
<1>3. /\ toMain = <<>> /\ <<>> \in Seq(Messages)
      /\ toWindow = [w \in Windows |-> <<>>] /\ toWindow \in [Windows -> Seq(Replies)]
  <2>1. <<>> \in Seq(Replies) /\ <<>> \in Seq(Messages)
    OBVIOUS
  <2> QED BY <2>1 DEF Init
<1>6. /\ theme \in 0 .. 1 /\ inputs \in 0 .. MaxInputs /\ opens \in 0 .. MaxOpens
      /\ start \in Configs /\ shown \in Configs /\ wish \in Configs
  BY <1>1, <1>2 DEF Init
<1>7. /\ lang \in Langs /\ text \in [Windows -> Langs]
      /\ phase \in [Windows -> {"none", "loading", "up"}]
      /\ params \in Tabs /\ tab \in Tabs /\ clicked \in BOOLEAN /\ touched \in BOOLEAN
  BY DEF Init, Tabs
<1>8. TypeOK
  BY <1>2, <1>3, <1>6, <1>7 DEF TypeOK
<1>4. FitInv
  <2>1. \A s \in Settings : Fits(inputs, s, 0)
    BY <1>1 DEF Fits, Init
  <2> QED BY <1>1, <2>1 DEF Init, FitInv
<1>5. QueueInv
  BY DEF Init, QueueInv
<1> QED BY <1>4, <1>5, <1>8 DEF TypeInv

LEMMA ShowPreferencesType ==
  ASSUME TypeInv, NEW t \in Tabs, ShowPreferences(t)
  PROVE  TypeInv'
<1>1. /\ Opens /\ params' = t
      /\ UNCHANGED <<saved, start, theme, lang, tab, shown, text, toMain>>
      /\ UNCHANGED <<wish, clicked, touched, inputs>>
  BY DEF ShowPreferences, mainVars, ghosts
<1>2. opens' \in 0 .. MaxOpens
  BY <1>1, PreferencesAssumption DEF Opens, TypeInv, TypeOK
<1> DEFINE m == Message("params", t, 0)
<1>4. m \in Replies /\ m.what = "params"
  BY DEF Message, Replies
<1> HIDE DEF m
<1>5. CASE /\ phase[Prefs] = "none" /\ phase' = [phase EXCEPT ![Prefs] = "loading"]
           /\ UNCHANGED toWindow
  BY <1>1, <1>2, <1>5, PreferencesAssumption DEF TypeInv, TypeOK, FitInv, QueueInv
<1>6. CASE toWindow' = [toWindow EXCEPT ![Prefs] = Send(Prefs, m)] /\ UNCHANGED phase
  <2>1. /\ toWindow' \in [Windows -> Seq(Replies)]
        /\ toWindow'[Prefs] = Send(Prefs, m)
        /\ \A w \in Windows \ {Prefs} : toWindow'[w] = toWindow[w]
    BY <1>4, <1>6, Sent, PreferencesAssumption DEF TypeInv, TypeOK
  <2>2. TypeOK'
    BY <1>1, <1>2, <1>6, <2>1 DEF TypeInv, TypeOK
  <2>3. FitInv'
    <3>1. ASSUME NEW i \in DOMAIN toWindow'[Prefs], toWindow'[Prefs][i].what = "changed"
          PROVE  Fits(inputs, toWindow'[Prefs][i].key, toWindow'[Prefs][i].value)
      <4>1. \A k \in DOMAIN Send(Prefs, m) :
              Send(Prefs, m)[k] = m \/ \E j \in DOMAIN toWindow[Prefs] :
                                       Send(Prefs, m)[k] = toWindow[Prefs][j]
        BY <1>4, Sent, PreferencesAssumption
      <4>2. PICK j \in DOMAIN toWindow[Prefs] : toWindow'[Prefs][i] = toWindow[Prefs][j]
        BY <1>4, <2>1, <3>1, <4>1
      <4> QED BY <3>1, <4>2 DEF TypeInv, FitInv
    <3> QED BY <1>1, <3>1 DEF TypeInv, FitInv
  <2>4. QueueInv'
    BY <1>4, <1>6, <2>1, Sent, PreferencesAssumption DEF TypeInv, QueueInv
  <2> QED BY <2>2, <2>3, <2>4 DEF TypeInv
<1> QED BY <1>5, <1>6 DEF ShowPreferences, m

LEMMA OpenOtherType ==
  ASSUME TypeInv, NEW w \in Windows, OpenOther(w)
  PROVE  TypeInv'
<1>1. /\ Opens /\ phase[w] = "none" /\ phase' = [phase EXCEPT ![w] = "loading"]
      /\ UNCHANGED <<saved, start, theme, lang, rootVars, text, queues, ghosts, inputs>>
  BY DEF OpenOther, mainVars
<1>2. opens' \in 0 .. MaxOpens
  BY <1>1, PreferencesAssumption DEF Opens, TypeInv, TypeOK
<1> QED BY <1>1, <1>2 DEF TypeInv, TypeOK, FitInv, QueueInv, Fits, rootVars, queues, ghosts

LEMMA MountType ==
  ASSUME TypeInv, NEW w \in Windows, Mount(w)
  PROVE  TypeInv'
<1>1. /\ phase[w] = "loading" /\ phase' = [phase EXCEPT ![w] = "up"]
      /\ text' = [text EXCEPT ![w] = lang]
      /\ UNCHANGED <<saved, start, theme, lang, params, toMain, toWindow>>
      /\ UNCHANGED <<wish, touched, inputs, opens>>
      /\ \/ tab' = params /\ shown' = Mounted /\ clicked' = FALSE
         \/ UNCHANGED <<tab, shown, clicked>>
  BY DEF Mount, MountTexts, MountRoot, mainVars, queues, bounds
<1>2. Fits(inputs, Theme, theme) /\ Theme \in Settings /\ saved \in Configs
  BY PreferencesAssumption DEF TypeInv, TypeOK, Fits, Settings
<1>3. Mounted \in Configs /\ \A s \in Settings : Fits(inputs, s, Mounted[s])
  <2>1. theme \in Values(Theme)
    BY <1>2, ConfigFacts
  <2>2. \A s \in Settings : Fits(inputs, s, saved[s])
    BY DEF TypeInv, FitInv
  <2>3. /\ Mounted \in Configs /\ Mounted[Theme] = theme
        /\ \A s \in Settings \ {Theme} : Mounted[s] = saved[s]
    <3>1. Mounted = With(saved, Theme, theme)
      BY DEF Mounted, With
    <3> QED BY <1>2, <2>1, <3>1, Changed
  <2> QED BY <1>2, <2>2, <2>3
<1>4. TypeOK'
  BY <1>1, <1>3 DEF TypeInv, TypeOK
<1>5. FitInv'
  BY <1>1, <1>3 DEF TypeInv, FitInv
<1>6. QueueInv'
  BY <1>1 DEF TypeInv, TypeOK, QueueInv
<1> QED BY <1>4, <1>5, <1>6 DEF TypeInv

LEMMA CloseType ==
  ASSUME TypeInv, NEW w \in Windows, Close(w)
  PROVE  TypeInv'
<1>1. /\ phase' = [phase EXCEPT ![w] = "none"] /\ toWindow' = [toWindow EXCEPT ![w] = <<>>]
      /\ UNCHANGED <<saved, start, theme, lang, rootVars, text, clicked, touched, inputs, opens>>
      /\ (toMain' = <<>> /\ wish' = saved) \/ UNCHANGED <<toMain, wish>>
  BY DEF Close, mainVars, bounds
<1>2. /\ toWindow' \in [Windows -> Seq(Replies)]
      /\ \A x \in Windows : toWindow'[x] = IF x = w THEN <<>> ELSE toWindow[x]
      /\ toMain' \in Seq(Messages) /\ (toMain' = toMain \/ toMain' = <<>>)
  <2>1. <<>> \in Seq(Messages) /\ <<>> \in Seq(Replies) /\ toMain \in Seq(Messages)
        /\ toWindow \in [Windows -> Seq(Replies)]
    BY DEF TypeInv, TypeOK
  <2> QED BY <1>1, <2>1
<1>3. TypeOK'
  BY <1>1, <1>2 DEF TypeInv, TypeOK, rootVars
<1>4. FitInv'
  <2>2. \A i \in DOMAIN toMain' : i \in DOMAIN toMain /\ toMain'[i] = toMain[i]
    BY <1>2
  <2>3. \A i \in DOMAIN toWindow'[Prefs] : i \in DOMAIN toWindow[Prefs]
                                           /\ toWindow'[Prefs][i] = toWindow[Prefs][i]
    BY <1>2, PreferencesAssumption
  <2> QED BY <1>1, <2>2, <2>3 DEF TypeInv, FitInv, rootVars
<1>5. QueueInv'
  BY <1>1, <1>2 DEF TypeInv, TypeOK, QueueInv
<1> QED BY <1>3, <1>4, <1>5 DEF TypeInv

LEMMA ClickTabType ==
  ASSUME TypeInv, NEW t \in Tabs, ClickTab(t)
  PROVE  TypeInv'
<1>1. /\ inputs < MaxInputs /\ inputs' = inputs + 1
      /\ tab' = t /\ clicked' = TRUE
      /\ UNCHANGED <<saved, start, theme, lang, phase, params, shown, text, toMain, toWindow,
                     wish, touched, opens>>
  BY DEF ClickTab, Input, mainVars, queues
<1>2. inputs' \in 0 .. MaxInputs
  BY <1>1, PreferencesAssumption DEF TypeInv, TypeOK
<1>3. TypeOK' /\ QueueInv'
  BY <1>1, <1>2 DEF TypeInv, TypeOK, QueueInv
<1>4. FitInv'
  <2>1. toMain # <<>> => inputs' > 0
    BY <1>1 DEF TypeInv, TypeOK
  <2> QED BY <1>1, <2>1, FitsLater DEF TypeInv, FitInv
<1> QED BY <1>3, <1>4 DEF TypeInv

\* The user asks for something that fits.
LEMMA AskType ==
  ASSUME TypeInv, NEW m \in Messages, Ask(m), wish' \in Configs,
         \A s \in Settings : Fits(inputs', s, wish'[s]),
         m.what = "toggle" => m.key # Host,
         m.what = "set" => Fits(inputs', m.key, m.value)
  PROVE  TypeInv'
<1>1. /\ inputs < MaxInputs /\ inputs' = inputs + 1 /\ toMain' = Append(toMain, m)
      /\ UNCHANGED <<saved, start, theme, lang, phase, params, tab, shown, text, toWindow,
                     clicked, touched, opens>>
  BY DEF Ask, Input, mainVars, rootVars
<1>2. inputs' \in 0 .. MaxInputs
  BY <1>1, PreferencesAssumption DEF TypeInv, TypeOK
<1>3. /\ toMain' \in Seq(Messages) /\ DOMAIN toMain' = 1 .. Len(toMain) + 1 /\ Len(toMain) \in Nat
      /\ DOMAIN toMain = 1 .. Len(toMain)
      /\ toMain'[Len(toMain) + 1] = m /\ \A i \in DOMAIN toMain : toMain'[i] = toMain[i]
  BY <1>1, Appended DEF TypeInv, TypeOK
<1>4. TypeOK' /\ QueueInv'
  BY <1>1, <1>2, <1>3 DEF TypeInv, TypeOK, QueueInv
<1>5. FitInv'
  <2>1. ASSUME NEW i \in DOMAIN toMain'
        PROVE  /\ toMain'[i].what = "toggle" => toMain'[i].key # Host
               /\ toMain'[i].what = "set" => Fits(inputs', toMain'[i].key, toMain'[i].value)
    <3>1. CASE i \in DOMAIN toMain
      BY <1>1, <1>3, <3>1, FitsLater DEF TypeInv, FitInv
    <3>2. CASE i = Len(toMain) + 1
      BY <1>3, <3>2
    <3> QED BY <1>3, <3>1, <3>2
  <2>2. \A s \in Settings : /\ Fits(inputs', s, saved'[s]) /\ Fits(inputs', s, start'[s])
                            /\ Fits(inputs', s, shown'[s])
    BY <1>1, FitsLater DEF TypeInv, FitInv
  <2>3. \A i \in DOMAIN toWindow'[Prefs] : toWindow'[Prefs][i].what = "changed" =>
          Fits(inputs', toWindow'[Prefs][i].key, toWindow'[Prefs][i].value)
    BY <1>1, FitsLater DEF TypeInv, FitInv
  <2>4. inputs' > 0
    BY <1>1 DEF TypeInv, TypeOK
  <2> QED BY <2>1, <2>2, <2>3, <2>4 DEF FitInv
<1> QED BY <1>4, <1>5 DEF TypeInv

\* The user asks for a setting: v is what it is to become.
LEMMA AskSettingType ==
  ASSUME TypeInv, NEW s \in Settings, NEW v, NEW m \in Messages, Ask(m),
         m.what \in {"toggle", "set"}, m.key = s, m.what = "toggle" => s # Host,
         m.what = "set" => m.value = v, Fits(inputs', s, v), wish' = With(wish, s, v)
  PROVE  TypeInv'
<1>1. inputs < MaxInputs /\ inputs' = inputs + 1 /\ inputs' \in 0 .. MaxInputs
  BY PreferencesAssumption DEF Ask, Input, TypeInv, TypeOK
<1>2. v \in Values(s) /\ wish \in Configs
  BY <1>1, PreferencesAssumption DEF TypeInv, TypeOK, Fits, Values
<1>3. wish' \in Configs /\ wish'[s] = v /\ \A x \in Settings \ {s} : wish'[x] = wish[x]
  BY <1>2, Changed
<1>4. \A x \in Settings : Fits(inputs', x, wish'[x])
  BY <1>1, <1>3, FitsLater DEF TypeInv, FitInv
<1> QED BY <1>3, <1>4, AskType

LEMMA UserType ==
  ASSUME TypeInv,
         \/ \E s \in Switches : Toggle(s)
         \/ \E s \in Selects \cup {Theme}, v \in 0 .. 1 : Choose(s, v)
         \/ TypeHost \/ \E l \in Langs : ChooseLanguage(l)
  PROVE  TypeInv'
<1>1. MaxInputs \in Nat /\ inputs \in Nat
  BY PreferencesAssumption DEF TypeInv, TypeOK
<1>2. ASSUME NEW s \in Switches, Toggle(s)
      PROVE  TypeInv'
  <2>1. s \in Settings /\ s # Host /\ Fits(inputs, s, wish[s])
    BY PreferencesAssumption DEF Settings, TypeInv, FitInv
  <2>2. Message("toggle", s, 0) \in Messages
    BY <1>1, <2>1 DEF Message, Messages
  <2>3. Fits(inputs', s, 1 - wish[s])
    BY <2>1 DEF Fits
  <2>4. wish' = With(wish, s, 1 - wish[s]) /\ Ask(Message("toggle", s, 0))
    BY <1>2 DEF Toggle, With
  <2>5. Message("toggle", s, 0).what = "toggle" /\ Message("toggle", s, 0).key = s
    BY DEF Message
  <2> QED BY <2>1, <2>2, <2>3, <2>4, <2>5, AskSettingType
<1>3. ASSUME NEW s \in Selects \cup {Theme}, NEW v \in 0 .. 1, Choose(s, v)
      PROVE  TypeInv'
  <2> DEFINE m == Message("set", s, v)
  <2>1. Ask(m) /\ wish' = With(wish, s, v) /\ inputs < MaxInputs
    BY <1>3 DEF Choose, Ask, Input, With
  <2>2. s \in Settings /\ s # Host
    BY PreferencesAssumption DEF Settings
  <2>3. m \in Messages /\ m.what = "set" /\ m.key = s /\ m.value = v
    BY <1>1, <2>1, <2>2 DEF Message, Messages
  <2>4. Fits(inputs', s, v)
    BY <2>2 DEF Fits
  <2> HIDE DEF m
  <2> QED BY <2>1, <2>2, <2>3, <2>4, AskSettingType
<1>4. ASSUME NEW v \in {shown[Host] + 1, shown[Host] - 1} \cap Nat,
             Ask(Message("set", Host, v)), wish' = With(wish, Host, v)
      PROVE  TypeInv'
  <2> DEFINE m == Message("set", Host, v)
  <2>1. /\ Host \in Settings /\ Fits(inputs, Host, shown[Host])
        /\ inputs < MaxInputs /\ inputs' = inputs + 1
    BY <1>4 DEF Settings, TypeInv, FitInv, Ask, Input
  <2>2. v \in 0 .. inputs' /\ v \in 0 .. MaxInputs
    BY <1>1, <2>1 DEF Fits
  <2>3. m \in Messages /\ m.what = "set" /\ m.key = Host /\ m.value = v
    BY <2>1, <2>2 DEF Message, Messages
  <2>4. Fits(inputs', Host, v) /\ Ask(m)
    BY <1>4, <2>2 DEF Fits
  <2> HIDE DEF m
  <2> QED BY <1>4, <2>1, <2>3, <2>4, AskSettingType
<1>5. ASSUME NEW l \in Langs, ChooseLanguage(l)
      PROVE  TypeInv'
  <2> DEFINE m == Message("language", l, 0)
  <2>1. m \in Messages /\ m.what = "language"
    BY DEF Message, Messages
  <2>2. Ask(m) /\ wish' = wish /\ inputs' = inputs + 1
    BY <1>5 DEF ChooseLanguage, Ask, Input
  <2>3. wish' \in Configs /\ \A s \in Settings : Fits(inputs', s, wish'[s])
    BY <2>2, FitsLater DEF TypeInv, TypeOK, FitInv
  <2> HIDE DEF m
  <2> QED BY <2>1, <2>2, <2>3, AskType
<1> QED BY <1>2, <1>3, <1>4, <1>5 DEF TypeHost, With

\* A setting changes: the reply tells what is saved.
LEMMA ChangeSettingType ==
  ASSUME TypeInv, MainHandles, ChangeSetting(Head(toMain))
  PROVE  LET m == Head(toMain)  v == NewValue(m)  r == Message("changed", m.key, v) IN
         /\ m.key \in Settings /\ v \in Values(m.key) /\ Fits(inputs, m.key, v)
         /\ r \in Replies
         /\ saved' = [saved EXCEPT ![m.key] = v] /\ saved' \in Configs /\ saved'[m.key] = v
         /\ \A s \in Settings \ {m.key} : saved'[s] = saved[s]
         /\ theme' = (IF m.key = Theme THEN v ELSE theme) /\ theme' \in 0 .. 1
         /\ toWindow' \in [Windows -> Seq(Replies)] /\ toWindow'[Prefs] = Send(Prefs, r)
         /\ \A w \in Windows \ {Prefs} : toWindow'[w] = toWindow[w]
<1> DEFINE m == Head(toMain)  v == NewValue(m)  r == Message("changed", m.key, v)
<1>1. m \in Messages /\ 1 \in DOMAIN toMain /\ m = toMain[1]
  BY Dropped DEF MainHandles, TypeInv, TypeOK
<1>2. /\ m.what \in {"toggle", "set"} /\ Save(m, v)
      /\ theme' = IF m.key = Theme THEN v ELSE theme
  BY DEF ChangeSetting
<1>3. m.key \in Settings
  BY <1>1, <1>2 DEF Messages
<1>4. Fits(inputs, m.key, v)
  <2>1. CASE m.what = "toggle"
    <3>1. v = 1 - saved[m.key] /\ m.key # Host /\ Fits(inputs, m.key, saved[m.key])
      BY <1>1, <1>3, <2>1 DEF NewValue, TypeInv, FitInv
    <3> QED BY <1>3, <3>1, ConfigFacts
  <2>2. CASE m.what = "set"
    BY <1>1, <2>2 DEF NewValue, TypeInv, FitInv
  <2> QED BY <1>2, <2>1, <2>2
<1>5. v \in Values(m.key) /\ v \in 0 .. MaxInputs
  <2>1. inputs <= MaxInputs /\ inputs \in Nat /\ MaxInputs \in Nat /\ inputs > 0
    BY PreferencesAssumption DEF TypeInv, TypeOK, FitInv, MainHandles
  <2> QED BY <1>3, <1>4, <2>1, ConfigFacts DEF Fits
<1>6. r \in Replies
  BY <1>3, <1>5 DEF Message, Replies
<1>7. saved' = [saved EXCEPT ![m.key] = v] /\ saved \in Configs
  BY <1>2 DEF Save, TypeInv, TypeOK
<1>8. theme' \in 0 .. 1
  BY <1>2, <1>4, PreferencesAssumption DEF Fits, TypeInv, TypeOK
<1>9. toWindow' = [toWindow EXCEPT ![Prefs] = Send(Prefs, r)] /\ Prefs \in Windows
      /\ toWindow \in [Windows -> Seq(Replies)]
  BY <1>2, PreferencesAssumption DEF Save, TypeInv, TypeOK
<1>10. Send(Prefs, r) \in Seq(Replies)
  BY <1>6, <1>9, Sent
<1>11. saved' \in Configs /\ saved'[m.key] = v /\ \A s \in Settings \ {m.key} : saved'[s] = saved[s]
  <2>1. saved' = With(saved, m.key, v)
    BY <1>7 DEF With
  <2>2. saved \in Configs
    BY <1>7
  <2> QED BY <1>3, <1>5, <2>1, <2>2, Changed
<1> HIDE DEF m, v, r
<1>12. /\ toWindow' \in [Windows -> Seq(Replies)] /\ toWindow'[Prefs] = Send(Prefs, r)
       /\ \A w \in Windows \ {Prefs} : toWindow'[w] = toWindow[w]
  BY <1>9, <1>10
<1> QED BY <1>2, <1>3, <1>4, <1>5, <1>6, <1>7, <1>8, <1>11, <1>12 DEF m, v, r

\* The language changes: every page that is up is told.
LEMMA ChangeLanguageType ==
  ASSUME TypeInv, MainHandles, ChangeLanguage(Head(toMain))
  PROVE  LET m == Head(toMain) IN
         /\ m \in Replies /\ m.what = "language" /\ lang' \in Langs
         /\ toWindow' \in [Windows -> Seq(Replies)]
         /\ \A w \in Windows : toWindow'[w] = Send(w, m)
<1> DEFINE m == Head(toMain)
<1>1. m \in Messages /\ m.what = "language" /\ lang' = m.key
  BY Dropped DEF MainHandles, TypeInv, TypeOK, ChangeLanguage
<1>2. m \in Replies /\ m.key \in Langs
  BY <1>1 DEF Messages, Replies
<1>3. toWindow' = [w \in Windows |-> Send(w, m)]
  BY DEF ChangeLanguage, SendToRenderers
<1> HIDE DEF m
<1>4. \A w \in Windows : Send(w, m) \in Seq(Replies)
  BY <1>2, Sent
<1> QED BY <1>1, <1>2, <1>3, <1>4 DEF m

LEMMA MainHandlesType ==
  ASSUME TypeInv, MainHandles
  PROVE  TypeInv'
<1>1. /\ toMain # <<>> /\ toMain' = Tail(toMain)
      /\ UNCHANGED <<phase, params, tab, shown, text, wish, clicked, inputs, opens>>
      /\ ChangeSetting(Head(toMain)) \/ ChangeLanguage(Head(toMain))
  BY DEF MainHandles, rootVars, bounds
<1>2. /\ toMain' \in Seq(Messages)
      /\ \A i \in DOMAIN toMain' : i + 1 \in DOMAIN toMain /\ toMain'[i] = toMain[i + 1]
  BY <1>1, Dropped DEF TypeInv, TypeOK
<1>3. \A i \in DOMAIN toMain' :
        /\ toMain'[i].what = "toggle" => toMain'[i].key # Host
        /\ toMain'[i].what = "set" => Fits(inputs, toMain'[i].key, toMain'[i].value)
  BY <1>2 DEF TypeInv, FitInv
<1>4. CASE ChangeSetting(Head(toMain))
  <2> DEFINE m == Head(toMain)  v == NewValue(m)  r == Message("changed", m.key, v)
  <2>1. /\ m.key \in Settings /\ Fits(inputs, m.key, v) /\ r \in Replies
        /\ saved' \in Configs /\ saved'[m.key] = v
        /\ \A s \in Settings \ {m.key} : saved'[s] = saved[s]
        /\ theme' \in 0 .. 1
        /\ toWindow' \in [Windows -> Seq(Replies)] /\ toWindow'[Prefs] = Send(Prefs, r)
        /\ \A w \in Windows \ {Prefs} : toWindow'[w] = toWindow[w]
    BY <1>4, ChangeSettingType
  <2>2. r.key = m.key /\ r.value = v
    BY DEF Message
  <2>3. UNCHANGED <<start, lang, touched>>
    BY <1>4 DEF ChangeSetting
  <2> HIDE DEF m, v, r
  <2>4. TypeOK'
    BY <1>1, <1>2, <2>1, <2>3 DEF TypeInv, TypeOK
  <2>5. ASSUME NEW i \in DOMAIN toWindow'[Prefs], toWindow'[Prefs][i].what = "changed"
        PROVE  Fits(inputs, toWindow'[Prefs][i].key, toWindow'[Prefs][i].value)
    <3>1. \A k \in DOMAIN Send(Prefs, r) :
            Send(Prefs, r)[k] = r \/ \E j \in DOMAIN toWindow[Prefs] :
                                     Send(Prefs, r)[k] = toWindow[Prefs][j]
      BY <2>1, Sent, PreferencesAssumption
    <3>2. CASE toWindow'[Prefs][i] = r
      BY <2>1, <2>2, <3>2
    <3>3. CASE \E j \in DOMAIN toWindow[Prefs] : toWindow'[Prefs][i] = toWindow[Prefs][j]
      BY <2>5, <3>3 DEF TypeInv, FitInv
    <3> QED BY <2>1, <3>1, <3>2, <3>3
  <2>6. \A s \in Settings : Fits(inputs, s, saved'[s])
    BY <2>1 DEF TypeInv, FitInv
  <2>7. FitInv'
    BY <1>1, <1>3, <2>3, <2>5, <2>6 DEF TypeInv, FitInv
  <2>8. QueueInv'
    <3>1. phase[Prefs] # "up" => toWindow'[Prefs] = <<>>
      BY <2>1, Sent, PreferencesAssumption
    <3> QED BY <1>1, <2>1, <3>1 DEF TypeInv, QueueInv
  <2> QED BY <2>4, <2>7, <2>8 DEF TypeInv
<1>5. CASE ChangeLanguage(Head(toMain))
  <2> DEFINE m == Head(toMain)
  <2>1. /\ m \in Replies /\ m.what = "language" /\ lang' \in Langs
        /\ toWindow' \in [Windows -> Seq(Replies)]
        /\ \A w \in Windows : toWindow'[w] = Send(w, m)
    BY <1>5, ChangeLanguageType
  <2>2. saved' = start /\ touched' = TRUE /\ UNCHANGED <<start, theme>>
    BY <1>5 DEF ChangeLanguage
  <2> HIDE DEF m
  <2>3. TypeOK'
    BY <1>1, <1>2, <2>1, <2>2 DEF TypeInv, TypeOK
  <2>4. ASSUME NEW w \in Windows, NEW i \in DOMAIN toWindow'[w]
        PROVE  toWindow'[w][i] = m \/ \E j \in DOMAIN toWindow[w] :
                                        toWindow'[w][i] = toWindow[w][j]
    BY <2>1, Sent
  <2>5. FitInv'
    <3>1. ASSUME NEW i \in DOMAIN toWindow'[Prefs], toWindow'[Prefs][i].what = "changed"
          PROVE  Fits(inputs, toWindow'[Prefs][i].key, toWindow'[Prefs][i].value)
      <4>1. PICK j \in DOMAIN toWindow[Prefs] : toWindow'[Prefs][i] = toWindow[Prefs][j]
        BY <2>1, <2>4, <3>1, PreferencesAssumption
      <4> QED BY <3>1, <4>1 DEF TypeInv, FitInv
    <3> QED BY <1>1, <1>3, <2>2, <3>1 DEF TypeInv, FitInv
  <2>6. QueueInv'
    <3>1. \A w \in Windows : phase[w] # "up" => toWindow'[w] = <<>>
      BY <2>1, Sent
    <3>2. \A w \in Windows \ {Prefs} : \A i \in DOMAIN toWindow'[w] :
            toWindow'[w][i].what = "language"
      BY <2>1, <2>4 DEF TypeInv, QueueInv
    <3> QED BY <1>1, <3>1, <3>2 DEF QueueInv
  <2> QED BY <2>3, <2>5, <2>6 DEF TypeInv
<1> QED BY <1>1, <1>4, <1>5

\* A window hears the first of its messages; all but the preferences window hear
\* of the language only.
LEMMA WindowHandlesType ==
  ASSUME TypeInv, NEW w \in Windows, WindowHandles(w)
  PROVE  LET m == Head(toWindow[w]) IN
         /\ TypeInv'
         /\ m \in Replies /\ toWindow[w] \in Seq(Replies) /\ toWindow[w] # <<>>
         /\ toWindow'[w] = Tail(toWindow[w])
         /\ \A x \in Windows \ {w} : toWindow'[x] = toWindow[x]
         /\ m.what # "language" => w = Prefs
<1> DEFINE m == Head(toWindow[w])
<1>1. /\ phase[w] = "up" /\ toWindow[w] # <<>>
      /\ toWindow' = [toWindow EXCEPT ![w] = Tail(toWindow[w])]
      /\ UNCHANGED <<saved, start, theme, lang, phase, params, toMain, wish, touched>>
      /\ UNCHANGED <<inputs, opens>>
      /\ OnChanged(m) \/ OnWindowParamsChange(m) \/ OnLanguage(w, m)
  BY DEF WindowHandles, mainVars, bounds
<1>2. /\ toWindow \in [Windows -> Seq(Replies)] /\ toWindow[w] \in Seq(Replies)
  BY DEF TypeInv, TypeOK
<1>3. /\ m \in Replies /\ m = toWindow[w][1] /\ 1 \in DOMAIN toWindow[w]
      /\ Tail(toWindow[w]) \in Seq(Replies)
      /\ \A i \in DOMAIN Tail(toWindow[w]) :
           i + 1 \in DOMAIN toWindow[w] /\ Tail(toWindow[w])[i] = toWindow[w][i + 1]
  BY <1>1, <1>2, Dropped
<1> HIDE DEF m
<1>4. /\ toWindow' \in [Windows -> Seq(Replies)] /\ toWindow'[w] = Tail(toWindow[w])
      /\ \A x \in Windows \ {w} : toWindow'[x] = toWindow[x]
  BY <1>1, <1>2, <1>3
<1>5. m.what # "language" => w = Prefs
  BY <1>3 DEF TypeInv, QueueInv
<1>6. QueueInv'
  BY <1>1, <1>3, <1>4 DEF TypeInv, QueueInv
<1>7. \A i \in DOMAIN toWindow'[Prefs] : toWindow'[Prefs][i].what = "changed" =>
        Fits(inputs, toWindow'[Prefs][i].key, toWindow'[Prefs][i].value)
  <2>1. CASE w = Prefs
    <3>1. ASSUME NEW i \in DOMAIN toWindow'[Prefs]
          PROVE  i + 1 \in DOMAIN toWindow[Prefs] /\ toWindow'[Prefs][i] = toWindow[Prefs][i + 1]
      BY <1>3, <1>4, <2>1
    <3> QED BY <3>1 DEF TypeInv, FitInv
  <2>2. CASE w # Prefs
    BY <1>4, <2>2, PreferencesAssumption DEF TypeInv, FitInv
  <2> QED BY <2>1, <2>2
<1>8. CASE OnChanged(m)
  <2>1. /\ m.what = "changed" /\ shown' = With(shown, m.key, m.value)
        /\ UNCHANGED <<tab, clicked, text>>
    BY <1>8 DEF OnChanged, With
  <2>2. m.key \in Settings /\ Fits(inputs, m.key, m.value)
    BY <1>3, <1>5, <2>1, PreferencesAssumption DEF TypeInv, FitInv, Replies
  <2>3. m.value \in Values(m.key) /\ shown \in Configs
    BY <2>2, ConfigFacts DEF TypeInv, TypeOK
  <2>4. /\ shown' \in Configs /\ shown'[m.key] = m.value
        /\ \A s \in Settings \ {m.key} : shown'[s] = shown[s]
    BY <2>1, <2>2, <2>3, Changed
  <2>5. TypeOK'
    BY <1>1, <1>4, <2>1, <2>4 DEF TypeInv, TypeOK
  <2>6. FitInv'
    BY <1>1, <1>7, <2>2, <2>4 DEF TypeInv, FitInv
  <2> QED BY <1>1, <1>2, <1>3, <1>4, <1>5, <1>6, <2>5, <2>6 DEF TypeInv, m
<1>9. CASE OnWindowParamsChange(m) \/ OnLanguage(w, m)
  <2>1. /\ tab' \in Tabs /\ clicked' \in BOOLEAN /\ text' \in [Windows -> Langs] /\ shown' = shown
    BY <1>3, <1>9 DEF OnWindowParamsChange, OnLanguage, Replies, TypeInv, TypeOK
  <2>2. TypeOK'
    BY <1>1, <1>4, <2>1 DEF TypeInv, TypeOK
  <2>3. FitInv'
    BY <1>1, <1>7, <2>1 DEF TypeInv, FitInv
  <2> QED BY <1>1, <1>2, <1>3, <1>4, <1>5, <1>6, <2>2, <2>3 DEF TypeInv, m
<1> QED BY <1>1, <1>8, <1>9

LEMMA NextType == TypeInv /\ [Next]_vars => TypeInv'
<1> SUFFICES ASSUME TypeInv, [Next]_vars
             PROVE  TypeInv'
  OBVIOUS
<1>1. CASE UNCHANGED vars
  BY <1>1 DEF vars, mainVars, rootVars, queues, ghosts, bounds, TypeInv, TypeOK, FitInv, QueueInv
<1>2. ASSUME NEW w \in Windows, WindowHandles(w)
      PROVE  TypeInv'
  BY <1>2, WindowHandlesType
<1>3. CASE Next
  BY <1>2, <1>3, Zenon, ShowPreferencesType, ClickTabType, OpenOtherType, MountType, CloseType,
     UserType, MainHandlesType DEF Next
<1> QED BY <1>1, <1>3

\* Every variable has its type: the user's choices, what is saved and what is shown
\* are values of their settings, however messages and windows come and go.
THEOREM TypeCorrect == Spec => []TypeInv
<1> QED BY InitType, NextType, PTL DEF Spec

-----------------------------------------------------------------------------
(* what the window shows *)

\* Once the messages on their way are heard, the window shows what is saved, but
\* for what a change of the language took back, and the theme that is in use.
Becomes(s, v) == Comes(toWindow[Prefs], s, shown[s], v)

ShownInv ==
  phase[Prefs] = "up" =>
    /\ \A s \in Settings \ {Theme} :
         Becomes(s, saved[s]) \/ (touched /\ saved[s] = start[s])
    /\ Becomes(Theme, theme)

\* A message that is not about s leaves what becomes of s.
LEMMA SentBecomes ==
  ASSUME TypeInv, phase[Prefs] = "up", UNCHANGED shown, NEW m \in Replies,
         toWindow'[Prefs] = Send(Prefs, m), NEW s, NEW v
  PROVE  /\ ~(m.what = "changed" /\ m.key = s) /\ Becomes(s, v) => Becomes(s, v)'
         /\ m.what = "changed" /\ m.key = s /\ m.value = v => Becomes(s, v)'
<1>1. Send(Prefs, m) = Append(toWindow[Prefs], m) /\ toWindow[Prefs] \in Seq(Replies)
  BY Sent, PreferencesAssumption
<1> QED BY <1>1, ComesAppended DEF Becomes

LEMMA NextShown == TypeInv /\ ShownInv /\ [Next]_vars => ShownInv'
<1> SUFFICES ASSUME TypeInv, ShownInv, [Next]_vars
             PROVE  ShownInv'
  OBVIOUS
<1>0. /\ Prefs \in Windows /\ Theme \in Settings
      /\ toWindow[Prefs] \in Seq(Replies) /\ toWindow \in [Windows -> Seq(Replies)]
      /\ phase \in [Windows -> {"none", "loading", "up"}]
  BY PreferencesAssumption DEF TypeInv, TypeOK, Settings
<1>1. ASSUME UNCHANGED <<saved, start, theme, touched, shown>>, phase'[Prefs] = phase[Prefs],
             toWindow'[Prefs] = toWindow[Prefs]
      PROVE  ShownInv'
  BY <1>1 DEF ShownInv, Becomes
<1>2. ASSUME NEW t \in Tabs, ShowPreferences(t)
      PROVE  ShownInv'
  <2> DEFINE m == Message("params", t, 0)
  <2>1. UNCHANGED <<saved, start, theme, touched, shown>>
    BY <1>2 DEF ShowPreferences, mainVars, ghosts
  <2>2. m \in Replies /\ m.what = "params"
    BY DEF Message, Replies
  <2>3. CASE phase[Prefs] = "none" /\ phase' = [phase EXCEPT ![Prefs] = "loading"]
    BY <1>0, <2>3 DEF ShownInv
  <2>4. CASE toWindow' = [toWindow EXCEPT ![Prefs] = Send(Prefs, m)] /\ UNCHANGED phase
    <3>1. toWindow'[Prefs] = Send(Prefs, m)
      BY <1>0, <2>4
    <3> HIDE DEF m
    <3>2. ASSUME phase[Prefs] = "up", NEW s, NEW v, Becomes(s, v)
          PROVE  Becomes(s, v)'
      BY <2>1, <2>2, <3>1, <3>2, SentBecomes
    <3> QED BY <2>1, <2>4, <3>2 DEF ShownInv
  <2> QED BY <1>2, <2>3, <2>4 DEF ShowPreferences
<1>3. ASSUME NEW w \in Windows, Mount(w)
      PROVE  ShownInv'
  <2>1. phase[w] = "loading" /\ phase' = [phase EXCEPT ![w] = "up"]
        /\ UNCHANGED <<saved, start, theme, touched, toWindow>>
    BY <1>3 DEF Mount, mainVars, queues
  <2>2. CASE w # Prefs
    <3>1. UNCHANGED shown /\ phase'[Prefs] = phase[Prefs]
      BY <1>0, <1>3, <2>1, <2>2 DEF Mount
    <3> QED BY <1>1, <2>1, <3>1
  <2>3. CASE w = Prefs
    <3>1. shown' = Mounted /\ toWindow'[Prefs] = <<>>
      BY <1>3, <2>1, <2>3 DEF Mount, MountRoot, TypeInv, QueueInv
    <3>2. Mounted[Theme] = theme /\ \A s \in Settings \ {Theme} : Mounted[s] = saved[s]
      BY <1>0 DEF Mounted, TypeInv, TypeOK, Configs
    <3>3. \A s, v : shown'[s] = v => Becomes(s, v)'
      BY <3>1 DEF Becomes, Comes
    <3> QED BY <1>0, <2>1, <3>1, <3>2, <3>3 DEF ShownInv
  <2> QED BY <2>2, <2>3
<1>4. ASSUME NEW w \in Windows, Close(w)
      PROVE  ShownInv'
  <2>1. /\ phase' = [phase EXCEPT ![w] = "none"] /\ toWindow' = [toWindow EXCEPT ![w] = <<>>]
        /\ UNCHANGED <<saved, start, theme, touched, shown>>
    BY <1>4 DEF Close, mainVars, rootVars
  <2>2. CASE w = Prefs
    BY <1>0, <2>1, <2>2 DEF ShownInv
  <2>3. CASE w # Prefs
    BY <1>0, <1>1, <2>1, <2>3
  <2> QED BY <2>2, <2>3
<1>5. ASSUME MainHandles
      PROVE  ShownInv'
  <2>1. UNCHANGED <<phase, shown>>
    BY <1>5 DEF MainHandles, rootVars
  <2>2. CASE ChangeSetting(Head(toMain))
    <3> DEFINE m == Head(toMain)  v == NewValue(m)  r == Message("changed", m.key, v)
    <3>1. /\ m.key \in Settings /\ r \in Replies /\ saved'[m.key] = v
          /\ \A s \in Settings \ {m.key} : saved'[s] = saved[s]
          /\ theme' = (IF m.key = Theme THEN v ELSE theme)
          /\ toWindow'[Prefs] = Send(Prefs, r)
      BY <1>5, <2>2, ChangeSettingType
    <3>2. r.what = "changed" /\ r.key = m.key /\ r.value = v
      BY DEF Message
    <3>3. UNCHANGED <<start, touched>>
      BY <2>2 DEF ChangeSetting
    <3> HIDE DEF m, v, r
    <3> SUFFICES ASSUME phase[Prefs] = "up"
                 PROVE  /\ \A s \in Settings \ {Theme} :
                             Becomes(s, saved[s])' \/ (touched' /\ saved'[s] = start'[s])
                        /\ Becomes(Theme, theme)'
      BY <2>1 DEF ShownInv
    <3>4. Comes(toWindow'[Prefs], m.key, shown'[m.key], v)
      BY <2>1, <3>1, <3>2, SentBecomes DEF Becomes
    <3>5. ASSUME NEW s \in Settings \ {m.key}, NEW x, Becomes(s, x)
          PROVE  Comes(toWindow'[Prefs], s, shown'[s], x)
      BY <2>1, <3>1, <3>2, <3>5, SentBecomes DEF Becomes
    <3>6. ASSUME NEW s \in Settings \ {Theme}
          PROVE  Becomes(s, saved[s])' \/ (touched' /\ saved'[s] = start'[s])
      <4>1. CASE s = m.key
        BY <3>1, <3>4, <4>1 DEF Becomes
      <4>2. CASE s # m.key
        BY <3>1, <3>3, <3>5, <4>2 DEF ShownInv, Becomes
      <4> QED BY <4>1, <4>2
    <3>7. Becomes(Theme, theme)'
      BY <1>0, <3>1, <3>4, <3>5 DEF ShownInv, Becomes
    <3> QED BY <3>6, <3>7
  <2>3. CASE ChangeLanguage(Head(toMain))
    <3> DEFINE m == Head(toMain)
    <3>1. m \in Replies /\ m.what = "language" /\ toWindow'[Prefs] = Send(Prefs, m)
      BY <1>0, <1>5, <2>3, ChangeLanguageType
    <3>2. saved' = start /\ touched' = TRUE /\ UNCHANGED <<start, theme>>
      BY <2>3 DEF ChangeLanguage
    <3> HIDE DEF m
    <3>3. phase[Prefs] = "up" => Becomes(Theme, theme)'
      BY <2>1, <3>1, <3>2, SentBecomes DEF ShownInv, Becomes
    <3> QED BY <2>1, <3>2, <3>3 DEF ShownInv
  <2> QED BY <1>5, <2>2, <2>3 DEF MainHandles
<1>6. ASSUME NEW w \in Windows, WindowHandles(w)
      PROVE  ShownInv'
  <2> DEFINE m == Head(toWindow[w])
  <2>1. /\ m \in Replies /\ toWindow[w] \in Seq(Replies) /\ toWindow[w] # <<>>
        /\ toWindow'[w] = Tail(toWindow[w])
        /\ \A x \in Windows \ {w} : toWindow'[x] = toWindow[x]
        /\ m.what # "language" => w = Prefs
    BY <1>6, WindowHandlesType
  <2>2. /\ UNCHANGED <<saved, start, theme, phase, touched>>
        /\ OnChanged(m) \/ OnWindowParamsChange(m) \/ OnLanguage(w, m)
    BY <1>6 DEF WindowHandles, mainVars
  <2>3. CASE w # Prefs
    <3>1. OnLanguage(w, m)
      BY <2>1, <2>2, <2>3 DEF OnChanged, OnWindowParamsChange
    <3> QED BY <1>0, <1>1, <2>1, <2>2, <2>3, <3>1 DEF OnLanguage
  <2>4. CASE w = Prefs
    <3>1. ASSUME NEW s \in Settings, NEW v, Becomes(s, v)
          PROVE  Comes(toWindow'[Prefs], s, shown'[s], v)
      <4>1. /\ m.what = "changed" /\ m.key = s => Comes(Tail(toWindow[w]), s, m.value, v)
            /\ ~(m.what = "changed" /\ m.key = s) => Comes(Tail(toWindow[w]), s, shown[s], v)
        BY <2>1, <2>4, <3>1, ComesDropped DEF Becomes
      <4>2. /\ m.what = "changed" /\ m.key = s => shown'[s] = m.value
            /\ ~(m.what = "changed" /\ m.key = s) => shown'[s] = shown[s]
        <5>1. shown \in [Settings -> 0 .. MaxInputs + 1]
          BY DEF TypeInv, TypeOK, Configs
        <5> QED BY <2>2, <5>1 DEF OnChanged, OnWindowParamsChange, OnLanguage
      <4> QED BY <2>1, <2>4, <4>1, <4>2 DEF Becomes
    <3> HIDE DEF m
    <3>2. ASSUME phase[Prefs] = "up", NEW s \in Settings \ {Theme}
          PROVE  Becomes(s, saved[s])' \/ (touched' /\ saved'[s] = start'[s])
      <4>1. Becomes(s, saved[s]) => Becomes(s, saved[s])'
        BY <2>2, <3>1 DEF Becomes
      <4> QED BY <2>2, <3>2, <4>1 DEF ShownInv
    <3>3. phase[Prefs] = "up" => Becomes(Theme, theme)'
      BY <1>0, <2>2, <3>1 DEF ShownInv, Becomes
    <3> QED BY <2>2, <3>2, <3>3 DEF ShownInv
  <2> QED BY <2>3, <2>4
<1>7. ASSUME NEW w \in Windows, OpenOther(w)
      PROVE  ShownInv'
  BY <1>0, <1>1, <1>7 DEF OpenOther, mainVars, rootVars, queues, ghosts
<1>8. ASSUME NEW m, Ask(m)
      PROVE  ShownInv'
  BY <1>1, <1>8 DEF Ask, mainVars, rootVars
<1>9. CASE \/ \E s \in Switches : Toggle(s)
           \/ \E s \in Selects \cup {Theme}, v \in 0 .. 1 : Choose(s, v)
           \/ TypeHost \/ \E l \in Langs : ChooseLanguage(l)
  BY <1>8, <1>9 DEF Toggle, Choose, TypeHost, ChooseLanguage
<1>10. CASE UNCHANGED vars \/ \E t \in Tabs : ClickTab(t)
  BY <1>1, <1>10 DEF vars, ClickTab, mainVars, rootVars, queues, ghosts
<1> QED BY <1>2, <1>3, <1>4, <1>5, <1>6, <1>7, <1>9, <1>10, Zenon DEF Next

\* With nothing on its way the window shows what is saved, but for the choices that
\* a change of the language has taken back, and the theme that is in use.
THEOREM WindowShowsSaved == Spec => []ShownIsSaved
<1>1. Init => ShownInv
  BY PreferencesAssumption DEF Init, ShownInv
<1>2. TypeInv /\ ShownInv => ShownIsSaved
  <2> SUFFICES ASSUME TypeInv, ShownInv, Rest
               PROVE  /\ \A s \in Settings \ {Theme} :
                           shown[s] = saved[s] \/ (touched /\ saved[s] = start[s])
                      /\ shown[Theme] = theme
    BY DEF ShownIsSaved
  <2>1. \A s, v : Becomes(s, v) => shown[s] = v
    BY DEF Rest, Pending, Becomes, Comes
  <2> QED BY <2>1 DEF ShownInv, Rest
<1> QED BY <1>1, <1>2, NextShown, TypeCorrect, PTL DEF Spec

-----------------------------------------------------------------------------
(* the language of the texts *)

LEMMA SentPending ==
  ASSUME TypeInv, NEW w \in Windows, phase[w] = "up", NEW m \in Replies,
         toWindow'[w] = Send(w, m), NEW what
  PROVE  /\ Pending(w, what) => Pending(w, what)'
         /\ m.what = what => Pending(w, what)'
<1>1. Send(w, m) = Append(toWindow[w], m) /\ toWindow[w] \in Seq(Replies)
  BY Sent
<1>2. /\ Len(toWindow[w]) + 1 \in DOMAIN Append(toWindow[w], m)
      /\ Append(toWindow[w], m)[Len(toWindow[w]) + 1] = m
      /\ \A i \in DOMAIN toWindow[w] : /\ i \in DOMAIN Append(toWindow[w], m)
                                       /\ Append(toWindow[w], m)[i] = toWindow[w][i]
  BY <1>1, Appended
<1> QED BY <1>1, <1>2 DEF Pending

LEMMA HeardPending ==
  ASSUME TypeInv, NEW w \in Windows, toWindow[w] # <<>>, toWindow'[w] = Tail(toWindow[w]),
         NEW what, Head(toWindow[w]).what # what, Pending(w, what)
  PROVE  Pending(w, what)'
<1>1. toWindow[w] \in Seq(Replies)
  BY DEF TypeInv, TypeOK
<1>2. PICK i \in DOMAIN toWindow[w] : toWindow[w][i].what = what
  BY DEF Pending
<1>3. i # 1
  BY <1>1, <1>2, Dropped
<1>4. i - 1 \in DOMAIN Tail(toWindow[w]) /\ Tail(toWindow[w])[i - 1] = toWindow[w][i]
  BY <1>1, <1>3
<1> QED BY <1>2, <1>4 DEF Pending

LEMMA NextLanguage == TypeInv /\ OneLanguage /\ [Next]_vars => OneLanguage'
<1> SUFFICES ASSUME TypeInv, OneLanguage, [Next]_vars, NEW w \in Windows, phase'[w] = "up",
                    ~Pending(w, "language")'
             PROVE  text'[w] = lang'
  BY DEF OneLanguage
<1>0. /\ toWindow \in [Windows -> Seq(Replies)] /\ text \in [Windows -> Langs]
      /\ phase \in [Windows -> {"none", "loading", "up"}] /\ Prefs \in Windows
  BY PreferencesAssumption DEF TypeInv, TypeOK
<1>1. ASSUME text'[w] = text[w], lang' = lang, phase[w] = "up", toWindow'[w] = toWindow[w]
      PROVE  text'[w] = lang'
  BY <1>1 DEF OneLanguage, Pending
<1>2. ASSUME text'[w] = text[w], lang' = lang, phase[w] = "up", NEW m \in Replies,
             toWindow'[w] = Send(w, m)
      PROVE  text'[w] = lang'
  BY <1>2, SentPending DEF OneLanguage
<1>3. ASSUME NEW t \in Tabs, ShowPreferences(t)
      PROVE  text'[w] = lang'
  <2> DEFINE m == Message("params", t, 0)
  <2>1. UNCHANGED <<text, lang>>
    BY <1>3 DEF ShowPreferences, mainVars
  <2>2. m \in Replies
    BY DEF Message, Replies
  <2>3. CASE phase' = [phase EXCEPT ![Prefs] = "loading"] /\ UNCHANGED toWindow
    <3>1. w # Prefs /\ phase[w] = "up"
      BY <1>0, <2>3
    <3> QED BY <1>1, <2>1, <2>3, <3>1
  <2>4. CASE toWindow' = [toWindow EXCEPT ![Prefs] = Send(Prefs, m)] /\ UNCHANGED phase
    <3> HIDE DEF m
    <3>1. CASE w = Prefs
      <4>1. toWindow'[w] = Send(w, m)
        BY <1>0, <2>4, <3>1
      <4> QED BY <1>2, <2>1, <2>2, <2>4, <4>1
    <3>2. CASE w # Prefs
      BY <1>0, <1>1, <2>1, <2>4, <3>2
    <3> QED BY <3>1, <3>2
  <2> QED BY <1>3, <2>3, <2>4 DEF ShowPreferences
<1>4. ASSUME NEW x \in Windows, OpenOther(x)
      PROVE  text'[w] = lang'
  BY <1>0, <1>1, <1>4 DEF OpenOther, mainVars, queues
<1>5. ASSUME NEW x \in Windows, Mount(x)
      PROVE  text'[w] = lang'
  <2>1. /\ phase' = [phase EXCEPT ![x] = "up"] /\ text' = [text EXCEPT ![x] = lang]
        /\ UNCHANGED <<lang, toWindow>>
    BY <1>5 DEF Mount, MountTexts, mainVars, queues
  <2>2. CASE w = x
    BY <1>0, <2>1, <2>2
  <2>3. CASE w # x
    BY <1>0, <1>1, <2>1, <2>3
  <2> QED BY <2>2, <2>3
<1>6. ASSUME NEW x \in Windows, Close(x)
      PROVE  text'[w] = lang'
  BY <1>0, <1>1, <1>6 DEF Close, mainVars
\* a page that is up hears of a change after it; one that loads asks when it is up
<1>7. ASSUME MainHandles
      PROVE  text'[w] = lang'
  <2>1. UNCHANGED <<phase, text>>
    BY <1>7 DEF MainHandles
  <2>2. CASE ChangeSetting(Head(toMain))
    <3> DEFINE m == Head(toMain)  r == Message("changed", m.key, NewValue(m))
    <3>1. /\ r \in Replies /\ toWindow'[Prefs] = Send(Prefs, r)
          /\ \A x \in Windows \ {Prefs} : toWindow'[x] = toWindow[x]
      BY <1>7, <2>2, ChangeSettingType
    <3>2. lang' = lang
      BY <2>2 DEF ChangeSetting
    <3> HIDE DEF m, r
    <3> QED BY <1>0, <1>1, <1>2, <2>1, <3>1, <3>2
  <2>3. CASE ChangeLanguage(Head(toMain))
    <3> DEFINE m == Head(toMain)
    <3>1. m \in Replies /\ m.what = "language" /\ toWindow'[w] = Send(w, m)
      BY <1>7, <2>3, ChangeLanguageType
    <3> HIDE DEF m
    <3> QED BY <2>1, <3>1, SentPending
  <2> QED BY <1>7, <2>2, <2>3 DEF MainHandles
<1>8. ASSUME NEW x \in Windows, WindowHandles(x)
      PROVE  text'[w] = lang'
  <2> DEFINE m == Head(toWindow[x])
  <2>1. /\ toWindow[x] # <<>> /\ toWindow'[x] = Tail(toWindow[x])
        /\ \A y \in Windows \ {x} : toWindow'[y] = toWindow[y]
    BY <1>8, WindowHandlesType
  <2>2. /\ UNCHANGED <<lang, phase>>
        /\ \/ m.what # "language" /\ UNCHANGED text
           \/ text' = [text EXCEPT ![x] = lang]
    BY <1>8 DEF WindowHandles, OnChanged, OnWindowParamsChange, OnLanguage, mainVars
  <2>3. CASE w # x
    BY <1>0, <1>1, <2>1, <2>2, <2>3
  <2>4. CASE w = x
    <3>1. CASE text' = [text EXCEPT ![x] = lang]
      BY <1>0, <2>2, <2>4, <3>1
    <3>2. CASE m.what # "language" /\ UNCHANGED text
      BY <2>1, <2>2, <2>4, <3>2, HeardPending DEF OneLanguage
    <3> QED BY <2>2, <3>1, <3>2
  <2> QED BY <2>3, <2>4
<1>9. ASSUME NEW m, Ask(m)
      PROVE  text'[w] = lang'
  BY <1>1, <1>9 DEF Ask, mainVars
<1>10. CASE \/ \E s \in Switches : Toggle(s)
            \/ \E s \in Selects \cup {Theme}, v \in 0 .. 1 : Choose(s, v)
            \/ TypeHost \/ \E l \in Langs : ChooseLanguage(l)
  BY <1>9, <1>10 DEF Toggle, Choose, TypeHost, ChooseLanguage
<1>11. CASE UNCHANGED vars \/ \E t \in Tabs : ClickTab(t)
  BY <1>1, <1>11 DEF vars, ClickTab, mainVars, rootVars, queues
<1> QED BY <1>3, <1>4, <1>5, <1>6, <1>7, <1>8, <1>10, <1>11, Zenon DEF Next

\* No window keeps the texts of another language, even if the language changes while
\* its page loads, or twice before it hears of the first change.
THEOREM TextsFollow == Spec => []OneLanguage
<1>1. Init => OneLanguage
  BY DEF Init, OneLanguage
<1> QED BY <1>1, NextLanguage, TypeCorrect, PTL DEF Spec

-----------------------------------------------------------------------------
(* the tab *)

\* The last request for a tab on its way is the tray's last; with none on its way
\* it was heard.
TabInv ==
  phase[Prefs] = "up" =>
    \/ \E i \in DOMAIN toWindow[Prefs] :
         /\ toWindow[Prefs][i].what = "params" /\ toWindow[Prefs][i].key = params
         /\ \A j \in DOMAIN toWindow[Prefs] : j > i => toWindow[Prefs][j].what # "params"
    \/ /\ ~Pending(Prefs, "params")
       /\ clicked \/ tab = params

\* What is sent to the preferences window is the tray's request, or no request.
LEMMA SentTab ==
  ASSUME TypeInv, TabInv, phase[Prefs] = "up", NEW m \in Replies,
         toWindow'[Prefs] = Send(Prefs, m),
         \/ m.what = "params" /\ m.key = params'
         \/ m.what # "params" /\ UNCHANGED <<params, tab, clicked>>
  PROVE  TabInv'
<1> DEFINE q == toWindow[Prefs]  n == Len(q)  a == toWindow'[Prefs]
<1>1. a = Append(q, m) /\ q \in Seq(Replies)
  BY Sent, PreferencesAssumption
<1>2. /\ n \in Nat /\ DOMAIN q = 1 .. n /\ DOMAIN a = 1 .. n + 1 /\ a[n + 1] = m
      /\ \A i \in DOMAIN q : a[i] = q[i]
  BY <1>1, Appended
<1> HIDE DEF q, n, a
<1>3. /\ n + 1 \in DOMAIN a
      /\ \A j \in DOMAIN a : ~(j > n + 1) /\ (j \in DOMAIN q \/ j = n + 1)
      /\ \A j \in DOMAIN q : j \in DOMAIN a
  BY <1>2
<1>4. CASE m.what = "params" /\ m.key = params'
  BY <1>2, <1>3, <1>4 DEF TabInv, a
<1>5. CASE m.what # "params" /\ UNCHANGED <<params, tab, clicked>>
  <2>1. CASE ~Pending(Prefs, "params") /\ (clicked \/ tab = params)
    <3>1. ~Pending(Prefs, "params")'
      BY <1>2, <1>3, <1>5, <2>1 DEF Pending, q, a
    <3> QED BY <1>5, <2>1, <3>1 DEF TabInv
  <2>2. ASSUME NEW i \in DOMAIN q, q[i].what = "params", q[i].key = params,
               \A j \in DOMAIN q : j > i => q[j].what # "params"
        PROVE  TabInv'
    <3>1. i \in DOMAIN a /\ a[i].what = "params" /\ a[i].key = params'
      BY <1>2, <1>3, <1>5, <2>2
    <3>2. \A j \in DOMAIN a : j > i => a[j].what # "params"
      BY <1>2, <1>3, <1>5, <2>2
    <3> QED BY <3>1, <3>2 DEF TabInv, a
  <2> QED BY <2>1, <2>2 DEF TabInv, q
<1> QED BY <1>4, <1>5

\* The page hears the first message of its queue.
LEMMA HeardTab ==
  ASSUME TypeInv, TabInv, phase[Prefs] = "up", toWindow[Prefs] # <<>>, UNCHANGED params,
         toWindow'[Prefs] = Tail(toWindow[Prefs]),
         \/ Head(toWindow[Prefs]).what = "params" /\ tab' = Head(toWindow[Prefs]).key
         \/ Head(toWindow[Prefs]).what # "params" /\ UNCHANGED <<tab, clicked>>
  PROVE  TabInv'
<1> DEFINE q == toWindow[Prefs]  n == Len(q)  b == toWindow'[Prefs]  m == Head(q)
<1>1. q \in Seq(Replies) /\ q # <<>> /\ b = Tail(q)
  BY PreferencesAssumption DEF TypeInv, TypeOK
<1>2. /\ n \in Nat \ {0} /\ m = q[1] /\ DOMAIN q = 1 .. n /\ DOMAIN b = 1 .. n - 1
      /\ \A i \in 1 .. n - 1 : b[i] = q[i + 1]
  BY <1>1, Dropped
<1>3. \/ m.what = "params" /\ tab' = m.key
      \/ m.what # "params" /\ UNCHANGED <<tab, clicked>>
  OBVIOUS
<1> HIDE DEF q, n, b, m
<1>4. \A i \in DOMAIN b : i + 1 \in DOMAIN q /\ i + 1 > 1 /\ b[i] = q[i + 1]
  BY <1>2
<1>5. CASE ~Pending(Prefs, "params") /\ (clicked \/ tab = params)
  <2>1. \A i \in DOMAIN q : q[i].what # "params"
    BY <1>5 DEF Pending, q
  <2>2. 1 \in DOMAIN q
    BY <1>2
  <2>3. ~Pending(Prefs, "params")'
    BY <1>4, <2>1 DEF Pending, b
  <2> QED BY <1>2, <1>3, <1>5, <2>1, <2>2, <2>3 DEF TabInv
<1>6. ASSUME NEW i \in DOMAIN q, q[i].what = "params", q[i].key = params,
             \A j \in DOMAIN q : j > i => q[j].what # "params"
      PROVE  TabInv'
  <2>1. CASE i = 1
    <3>1. \A j \in DOMAIN b : b[j].what # "params"
      BY <1>4, <1>6, <2>1
    <3>2. ~Pending(Prefs, "params")' /\ tab' = params'
      BY <1>2, <1>3, <1>6, <2>1, <3>1 DEF Pending, b
    <3> QED BY <3>2 DEF TabInv
  <2>2. CASE i # 1
    <3>1. i - 1 \in DOMAIN b /\ b[i - 1] = q[i]
      BY <1>2, <2>2
    <3>2. \A j \in DOMAIN b : j > i - 1 => b[j].what # "params"
      BY <1>2, <1>4, <1>6
    <3> QED BY <1>6, <3>1, <3>2 DEF TabInv, b
  <2> QED BY <2>1, <2>2
<1> QED BY <1>5, <1>6 DEF TabInv, q

LEMMA NextTab == TypeInv /\ TabInv /\ [Next]_vars => TabInv'
<1> SUFFICES ASSUME TypeInv, TabInv, [Next]_vars
             PROVE  TabInv'
  OBVIOUS
<1>0. /\ toWindow \in [Windows -> Seq(Replies)]
      /\ phase \in [Windows -> {"none", "loading", "up"}] /\ Prefs \in Windows
  BY PreferencesAssumption DEF TypeInv, TypeOK
<1>1. ASSUME UNCHANGED <<params, tab, clicked>>, phase'[Prefs] = phase[Prefs],
             toWindow'[Prefs] = toWindow[Prefs]
      PROVE  TabInv'
  BY <1>1 DEF TabInv, Pending
<1>2. ASSUME NEW t \in Tabs, ShowPreferences(t)
      PROVE  TabInv'
  <2> DEFINE m == Message("params", t, 0)
  <2>1. params' = t
    BY <1>2 DEF ShowPreferences
  <2>2. m \in Replies /\ m.what = "params" /\ m.key = t
    BY DEF Message, Replies
  <2>3. CASE phase' = [phase EXCEPT ![Prefs] = "loading"]
    BY <1>0, <2>3 DEF TabInv
  <2>4. CASE toWindow' = [toWindow EXCEPT ![Prefs] = Send(Prefs, m)] /\ UNCHANGED phase
    <3>1. toWindow'[Prefs] = Send(Prefs, m)
      BY <1>0, <2>4
    <3> HIDE DEF m
    <3>2. CASE phase[Prefs] = "up"
      BY <2>1, <2>2, <3>1, <3>2, SentTab
    <3>3. CASE phase[Prefs] # "up"
      BY <2>4, <3>3 DEF TabInv
    <3> QED BY <3>2, <3>3
  <2> QED BY <1>2, <2>3, <2>4 DEF ShowPreferences
<1>3. ASSUME NEW w \in Windows, Mount(w)
      PROVE  TabInv'
  <2>1. /\ phase[w] = "loading" /\ phase' = [phase EXCEPT ![w] = "up"]
        /\ UNCHANGED <<params, toWindow>>
    BY <1>3 DEF Mount, queues
  <2>2. CASE w # Prefs
    <3>1. UNCHANGED <<tab, clicked>> /\ phase'[Prefs] = phase[Prefs]
      BY <1>0, <1>3, <2>1, <2>2 DEF Mount
    <3> QED BY <1>1, <2>1, <3>1
  <2>3. CASE w = Prefs
    <3>1. tab' = params /\ toWindow'[Prefs] = <<>>
      BY <1>3, <2>1, <2>3 DEF Mount, MountRoot, TypeInv, QueueInv
    <3> QED BY <2>1, <3>1 DEF TabInv, Pending
  <2> QED BY <2>2, <2>3
<1>4. ASSUME NEW w \in Windows, Close(w)
      PROVE  TabInv'
  <2>1. /\ phase' = [phase EXCEPT ![w] = "none"] /\ toWindow' = [toWindow EXCEPT ![w] = <<>>]
        /\ UNCHANGED <<params, tab, clicked>>
    BY <1>4 DEF Close, rootVars
  <2>2. CASE w = Prefs
    BY <1>0, <2>1, <2>2 DEF TabInv
  <2>3. CASE w # Prefs
    BY <1>0, <1>1, <2>1, <2>3
  <2> QED BY <2>2, <2>3
<1>5. ASSUME MainHandles
      PROVE  TabInv'
  <2>1. UNCHANGED <<phase, params, tab, clicked>>
    BY <1>5 DEF MainHandles, rootVars
  <2>2. ASSUME NEW m \in Replies, m.what # "params", toWindow'[Prefs] = Send(Prefs, m)
        PROVE  TabInv'
    BY <2>1, <2>2, SentTab DEF TabInv
  <2>3. CASE ChangeSetting(Head(toMain))
    <3> DEFINE m == Head(toMain)  r == Message("changed", m.key, NewValue(m))
    <3>1. r \in Replies /\ toWindow'[Prefs] = Send(Prefs, r)
      BY <1>5, <2>3, ChangeSettingType
    <3>2. r.what # "params"
      BY DEF Message
    <3> HIDE DEF m, r
    <3> QED BY <2>2, <3>1, <3>2
  <2>4. CASE ChangeLanguage(Head(toMain))
    <3> DEFINE m == Head(toMain)
    <3>1. m \in Replies /\ m.what = "language" /\ toWindow'[Prefs] = Send(Prefs, m)
      BY <1>0, <1>5, <2>4, ChangeLanguageType
    <3> HIDE DEF m
    <3> QED BY <2>2, <3>1
  <2> QED BY <1>5, <2>3, <2>4 DEF MainHandles
<1>6. ASSUME NEW w \in Windows, WindowHandles(w)
      PROVE  TabInv'
  <2> DEFINE m == Head(toWindow[w])
  <2>1. /\ toWindow[w] # <<>> /\ toWindow'[w] = Tail(toWindow[w])
        /\ \A x \in Windows \ {w} : toWindow'[x] = toWindow[x]
        /\ m.what # "language" => w = Prefs
    BY <1>6, WindowHandlesType
  <2>2. /\ phase[w] = "up" /\ UNCHANGED <<phase, params>>
        /\ \/ m.what = "params" /\ tab' = m.key
           \/ m.what \in {"changed", "language"} /\ UNCHANGED <<tab, clicked>>
    BY <1>6 DEF WindowHandles, OnChanged, OnWindowParamsChange, OnLanguage
  <2> HIDE DEF m
  <2>3. CASE w # Prefs
    BY <1>0, <1>1, <2>1, <2>2, <2>3
  <2>4. CASE w = Prefs
    BY <2>1, <2>2, <2>4, HeardTab DEF m
  <2> QED BY <2>3, <2>4
<1>7. ASSUME NEW w \in Windows, OpenOther(w)
      PROVE  TabInv'
  BY <1>0, <1>1, <1>7 DEF OpenOther, rootVars, queues, ghosts
<1>8. ASSUME NEW m, Ask(m)
      PROVE  TabInv'
  BY <1>1, <1>8 DEF Ask, rootVars
<1>9. CASE \/ \E s \in Switches : Toggle(s)
           \/ \E s \in Selects \cup {Theme}, v \in 0 .. 1 : Choose(s, v)
           \/ TypeHost \/ \E l \in Langs : ChooseLanguage(l)
  BY <1>8, <1>9 DEF Toggle, Choose, TypeHost, ChooseLanguage
\* the user's click is the later one, unless a request is still on its way
<1>10. ASSUME NEW t \in Tabs, ClickTab(t)
       PROVE  TabInv'
  BY <1>10 DEF ClickTab, queues, TabInv, Pending
<1>11. CASE UNCHANGED vars
  BY <1>1, <1>11 DEF vars, rootVars, queues, ghosts
<1> QED BY <1>2, <1>3, <1>4, <1>5, <1>6, <1>7, <1>9, <1>10, <1>11, Zenon DEF Next

\* The tab is the one that the tray asked for last, also when it asked while the
\* page was loading, unless the user has clicked on another since.
THEOREM TabFollowsTray == Spec => []TabFollows
<1>1. Init => TabInv
  BY PreferencesAssumption DEF Init, TabInv
<1>2. TabInv => TabFollows
  BY DEF TabInv, TabFollows, Pending
<1> QED BY <1>1, <1>2, NextTab, TypeCorrect, PTL DEF Spec

-----------------------------------------------------------------------------
(* what is saved *)

\* A configuration once a request of the user is done.
Applied(m, c) == With(c, m.key, IF m.what = "toggle" THEN 1 - c[m.key] ELSE m.value)

\* The requests on their way lead, one after the other, from what is saved to what
\* the user has chosen, until one of them changes the language.
Leads(h) ==
  /\ h[0] = saved /\ h[Len(toMain)] = wish
  /\ \A i \in 1 .. Len(toMain) : h[i] = Applied(toMain[i], h[i - 1])

WishInv ==
  \/ touched \/ \E i \in DOMAIN toMain : toMain[i].what = "language"
  \/ \E h \in [0 .. Len(toMain) -> Configs] : Leads(h)

\* The user asks for one thing more.
LEMMA AskWish ==
  ASSUME TypeInv, TypeInv', WishInv, NEW m \in Messages, Ask(m),
         m.what = "language" \/ wish' = Applied(m, wish)
  PROVE  WishInv'
<1> DEFINE n == Len(toMain)
<1>1. /\ n \in Nat /\ DOMAIN toMain = 1 .. n /\ DOMAIN toMain' = 1 .. n + 1
      /\ toMain' \in Seq(Messages) /\ Len(toMain') = n + 1
      /\ toMain'[n + 1] = m /\ \A i \in 1 .. n : toMain'[i] = toMain[i]
      /\ UNCHANGED <<saved, touched>>
  BY Appended DEF Ask, mainVars, TypeInv, TypeOK
<1> HIDE DEF n
<1>2. n + 1 \in DOMAIN toMain' /\ \A i \in DOMAIN toMain : i \in DOMAIN toMain'
  BY <1>1
<1>3. CASE touched \/ m.what = "language" \/ \E i \in DOMAIN toMain : toMain[i].what = "language"
  BY <1>1, <1>2, <1>3 DEF WishInv
<1>4. ASSUME NEW h \in [0 .. n -> Configs], Leads(h), wish' = Applied(m, wish)
      PROVE  WishInv'
  <2> DEFINE g == [i \in 0 .. n + 1 |-> IF i \in 0 .. n THEN h[i] ELSE wish']
  <2>1. wish' \in Configs
    BY DEF TypeInv, TypeOK
  <2>2. g \in [0 .. n + 1 -> Configs] /\ g[n + 1] = wish' /\ \A i \in 0 .. n : g[i] = h[i]
    BY <1>1, <2>1
  <2> HIDE DEF g
  <2>3. /\ h[0] = saved /\ h[n] = wish
        /\ \A i \in 1 .. n : h[i] = Applied(toMain[i], h[i - 1])
    BY <1>4 DEF Leads, n
  <2>4. ASSUME NEW i \in 1 .. n + 1
        PROVE  g[i] = Applied(toMain'[i], g[i - 1])
    <3>1. CASE i = n + 1
      <4>1. i - 1 = n /\ n \in 0 .. n
        BY <1>1, <3>1
      <4> QED BY <1>1, <1>4, <2>2, <2>3, <3>1, <4>1
    <3>2. CASE i # n + 1
      <4>1. i \in 1 .. n /\ i \in 0 .. n /\ i - 1 \in 0 .. n
        BY <1>1, <3>2
      <4> QED BY <1>1, <2>2, <2>3, <4>1
    <3> QED BY <3>1, <3>2
  <2>5. g[0] = saved'
    BY <1>1, <2>2, <2>3
  <2> QED BY <1>1, <2>2, <2>4, <2>5 DEF WishInv, Leads
<1> QED BY <1>3, <1>4 DEF WishInv, n

\* The first of the requests is done.
LEMMA HandleWish ==
  ASSUME TypeInv, TypeInv', WishInv, MainHandles
  PROVE  WishInv'
<1> DEFINE n == Len(toMain)  m == Head(toMain)
<1>1. /\ n \in Nat \ {0} /\ m = toMain[1] /\ m \in Messages
      /\ DOMAIN toMain = 1 .. n /\ DOMAIN toMain' = 1 .. n - 1
      /\ \A i \in 1 .. n - 1 : toMain'[i] = toMain[i + 1]
  BY Dropped DEF MainHandles, TypeInv, TypeOK
<1>2. Len(toMain') = n - 1
  BY DEF MainHandles, TypeInv, TypeOK
<1>3. CASE ChangeLanguage(m)
  BY <1>3 DEF ChangeLanguage, WishInv
<1>4. CASE ChangeSetting(m)
  <2>1. /\ m.what # "language" /\ UNCHANGED <<wish, touched>>
        /\ saved' = Applied(m, saved)
    BY <1>4 DEF MainHandles, ChangeSetting, Save, NewValue, Applied, With
  <2> HIDE DEF n, m
  <2>2. CASE touched
    BY <2>1, <2>2 DEF WishInv
  <2>3. ASSUME NEW i \in DOMAIN toMain, toMain[i].what = "language"
        PROVE  WishInv'
    <3>1. i # 1
      BY <1>1, <2>1, <2>3
    <3>2. i - 1 \in DOMAIN toMain' /\ toMain'[i - 1] = toMain[i]
      BY <1>1, <3>1
    <3> QED BY <2>3, <3>2 DEF WishInv
  <2>4. ASSUME NEW h \in [0 .. n -> Configs], Leads(h)
        PROVE  WishInv'
    <3> DEFINE g == [i \in 0 .. n - 1 |-> h[i + 1]]
    <3>1. g \in [0 .. n - 1 -> Configs] /\ \A i \in 0 .. n - 1 : g[i] = h[i + 1]
      BY <1>1
    <3> HIDE DEF g
    <3>2. /\ h[0] = saved /\ h[n] = wish
          /\ \A i \in 1 .. n : h[i] = Applied(toMain[i], h[i - 1])
      BY <2>4 DEF Leads, n
    <3>3. g[0] = saved'
      <4>1. 0 \in 0 .. n - 1 /\ 1 \in 1 .. n
        BY <1>1
      <4> QED BY <1>1, <2>1, <3>1, <3>2, <4>1
    <3>4. g[n - 1] = wish'
      <4>1. n - 1 \in 0 .. n - 1 /\ n - 1 + 1 = n
        BY <1>1
      <4> QED BY <2>1, <3>1, <3>2, <4>1
    <3>5. ASSUME NEW i \in 1 .. n - 1
          PROVE  g[i] = Applied(toMain'[i], g[i - 1])
      <4>1. /\ i \in 0 .. n - 1 /\ i - 1 \in 0 .. n - 1 /\ i + 1 \in 1 .. n
            /\ i - 1 + 1 = i /\ i + 1 - 1 = i
        BY <1>1
      <4> QED BY <1>1, <3>1, <3>2, <4>1
    <3> QED BY <1>2, <3>1, <3>3, <3>4, <3>5 DEF WishInv, Leads
  <2> QED BY <2>2, <2>3, <2>4 DEF WishInv, n
<1> QED BY <1>3, <1>4 DEF MainHandles

LEMMA NextWish == TypeInv /\ WishInv /\ [Next]_vars => WishInv'
<1> SUFFICES ASSUME TypeInv, WishInv, [Next]_vars
             PROVE  WishInv'
  OBVIOUS
<1>0. TypeInv' /\ MaxInputs \in Nat
  BY NextType, PreferencesAssumption
<1>1. ASSUME UNCHANGED <<saved, touched, toMain, wish>>
      PROVE  WishInv'
  BY <1>1 DEF WishInv, Leads
<1>2. ASSUME NEW w \in Windows, Close(w)
      PROVE  WishInv'
  <2>1. CASE toMain' = <<>> /\ wish' = saved
    <3> DEFINE h == [i \in 0 .. 0 |-> saved]
    <3>1. h \in [0 .. 0 -> Configs] /\ h[0] = saved
      BY DEF TypeInv, TypeOK
    <3>2. saved' = saved /\ Len(toMain') = 0 /\ 1 .. 0 = {}
      BY <1>2, <2>1 DEF Close, mainVars
    <3> HIDE DEF h
    <3> QED BY <2>1, <3>1, <3>2 DEF WishInv, Leads
  <2>2. CASE UNCHANGED <<toMain, wish>>
    BY <1>1, <1>2, <2>2 DEF Close, mainVars
  <2> QED BY <1>2, <2>1, <2>2 DEF Close
<1>3. ASSUME NEW s \in Switches, Toggle(s)
      PROVE  WishInv'
  <2> DEFINE m == Message("toggle", s, 0)
  <2>1. m \in Messages /\ m.what = "toggle" /\ m.key = s
    BY <1>0 DEF Message, Messages, Settings
  <2>2. Ask(m) /\ wish' = Applied(m, wish)
    BY <1>3, <2>1 DEF Toggle, Applied, With
  <2> HIDE DEF m
  <2> QED BY <1>0, <2>1, <2>2, AskWish
<1>4. ASSUME NEW s \in Settings, NEW v \in Nat, Ask(Message("set", s, v)),
             wish' = [wish EXCEPT ![s] = v], v <= MaxInputs
      PROVE  WishInv'
  <2> DEFINE m == Message("set", s, v)
  <2>1. m \in Messages /\ m.what = "set" /\ m.key = s /\ m.value = v
    BY <1>0, <1>4 DEF Message, Messages
  <2>2. Ask(m) /\ wish' = Applied(m, wish)
    BY <1>4, <2>1 DEF Applied, With
  <2> HIDE DEF m
  <2> QED BY <1>0, <2>1, <2>2, AskWish
<1>5. ASSUME NEW s \in Selects \cup {Theme}, NEW v \in 0 .. 1, Choose(s, v)
      PROVE  WishInv'
  <2>1. s \in Settings /\ v \in Nat /\ v <= MaxInputs
    BY <1>0, <1>5 DEF Settings, Choose, Ask, Input, TypeInv, TypeOK
  <2> QED BY <1>4, <1>5, <2>1 DEF Choose
<1>6. ASSUME TypeHost
      PROVE  WishInv'
  <2>1. PICK v \in {shown[Host] + 1, shown[Host] - 1} \cap Nat :
          Ask(Message("set", Host, v)) /\ wish' = [wish EXCEPT ![Host] = v]
    BY <1>6 DEF TypeHost
  <2>2. Host \in Settings /\ shown[Host] \in 0 .. inputs /\ inputs < MaxInputs /\ inputs \in Nat
    BY <2>1 DEF Settings, TypeInv, TypeOK, FitInv, Fits, Ask, Input
  <2>3. v <= MaxInputs
    BY <1>0, <2>2
  <2> QED BY <1>4, <2>1, <2>2, <2>3
<1>7. ASSUME NEW l \in Langs, ChooseLanguage(l)
      PROVE  WishInv'
  <2> DEFINE m == Message("language", l, 0)
  <2>1. m \in Messages /\ m.what = "language"
    BY DEF Message, Messages
  <2>2. Ask(m)
    BY <1>7 DEF ChooseLanguage
  <2> HIDE DEF m
  <2> QED BY <1>0, <2>1, <2>2, AskWish
<1>8. CASE \E t \in Tabs : ShowPreferences(t) \/ ClickTab(t)
  BY <1>1, <1>8 DEF ShowPreferences, ClickTab, mainVars, queues, ghosts
<1>9. CASE \E w \in Windows : OpenOther(w) \/ Mount(w) \/ WindowHandles(w)
  BY <1>1, <1>9 DEF OpenOther, Mount, WindowHandles, mainVars, queues, ghosts
<1>10. CASE UNCHANGED vars
  BY <1>1, <1>10 DEF vars, mainVars, queues, ghosts
<1>11. CASE MainHandles
  BY <1>0, <1>11, HandleWish
<1> QED BY <1>2, <1>3, <1>5, <1>6, <1>7, <1>8, <1>9, <1>10, <1>11, Zenon DEF Next

\* Until the language is changed, what is saved is what the user's clicks come to in
\* their order, however many of them are on their way together.
THEOREM ChoicesAreSaved == Spec => []SavedAsWished
<1>1. Init => WishInv
  <2> SUFFICES ASSUME Init
               PROVE  WishInv
    OBVIOUS
  <2> DEFINE h == [i \in 0 .. 0 |-> saved]
  <2>1. saved \in Configs
    BY InitType DEF TypeInv, TypeOK
  <2>2. h \in [0 .. 0 -> Configs] /\ h[0] = saved
    BY <2>1
  <2>3. wish = saved /\ toMain = <<>> /\ Len(toMain) = 0 /\ 1 .. 0 = {}
    BY DEF Init
  <2> HIDE DEF h
  <2> QED BY <2>2, <2>3 DEF WishInv, Leads
<1>2. WishInv => SavedAsWished
  BY DEF WishInv, Leads, SavedAsWished
<1> QED BY <1>1, <1>2, NextWish, TypeCorrect, PTL DEF Spec
=============================================================================
