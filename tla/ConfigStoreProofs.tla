-------------------------- MODULE ConfigStoreProofs --------------------------
(***************************************************************************)
(* Theorems about ConfigStore, for any processes, settings, values and     *)
(* languages and any bounds: one user id, whatever crashes and second      *)
(* launches there are, unless two launches raced to make the first one;    *)
(* and for a process that has no other beside it, what the file says of    *)
(* the language and the settings.                                          *)
(***************************************************************************)
EXTENDS ConfigStore, TLAPS

\* Configurations are told apart from everything else that is in their places.
LEMMA ConfigsAre ==
  /\ Absent \notin Configs /\ Torn \notin Configs /\ NoConfig \notin Configs /\ Absent # Torn
  /\ \A f \in Configs : Parses(f)
  BY FilesAssumption DEF Parses

LEMMA DefaultFacts ==
  ASSUME NEW id \in 0 .. MaxLaunches
  PROVE  /\ DefaultConfig(id) \in Configs /\ DefaultConfig(id).complete
         /\ DefaultConfig(id).userId = id
  BY ConfigAssumption DEF DefaultConfig, Configs

\* getConfig returns a complete configuration, which is the file if that is complete.
LEMMA GotFacts ==
  ASSUME TypeOK, NEW p \in Processes, file # Torn
  PROVE  /\ GotConfig(p) \in Configs /\ GotConfig(p).complete
         /\ Parses(file) /\ file.complete => GotConfig(p) = file
<1>1. uuid[p] \in 0 .. MaxLaunches
  BY DEF TypeOK
<1>2. CASE file = Absent
  BY <1>1, <1>2, DefaultFacts DEF GotConfig, Parses
<1>3. CASE file # Absent /\ file.complete
  BY <1>3 DEF GotConfig, TypeOK
<1>4. CASE file # Absent /\ ~file.complete
  <2>1. file \in Configs
    BY <1>4 DEF TypeOK
  <2>2. GotConfig(p) = [file EXCEPT !.complete = TRUE,
                                    !.userId = IF file.userId = NoUser THEN uuid[p]
                                                                       ELSE file.userId]
    BY <1>4 DEF GotConfig
  <2>3. (IF file.userId = NoUser THEN uuid[p] ELSE file.userId) \in 0 .. MaxLaunches
    BY <1>1, <2>1 DEF Configs
  <2> QED BY <1>4, <2>1, <2>2, <2>3 DEF Configs
<1> QED BY <1>2, <1>3, <1>4

-----------------------------------------------------------------------------
(* types *)

LEMMA InitType == Init => TypeOK
<1> SUFFICES ASSUME Init PROVE TypeOK
  OBVIOUS
<1>1. PICK start \in Starts :
        /\ active = start[2]
        /\ \/ start[1] = "absent" /\ file = Absent /\ launches = 0
           \/ start[1] = "old" /\ launches = 0
              /\ file = [DefaultConfig(NoUser) EXCEPT !.complete = FALSE]
           \/ start[1] = "complete" /\ file = DefaultConfig(1) /\ launches = 1
  BY DEF Init
<1>2. active \in SUBSET Processes
  BY <1>1, ConfigAssumption
<1>3. 0 \in 0 .. MaxLaunches /\ 1 \in 0 .. MaxLaunches /\ 0 \in 0 .. MaxChanges
  BY ConfigAssumption
<1>4. DefaultConfig(1) \in Configs /\ [DefaultConfig(NoUser) EXCEPT !.complete = FALSE] \in Configs
  BY <1>3, DefaultFacts DEF NoUser, Configs
<1>5. file \in Configs \cup {Absent, Torn} /\ launches \in 0 .. MaxLaunches
  BY <1>1, <1>3, <1>4
<1> QED BY <1>2, <1>3, <1>5, ConfigAssumption DEF Init, TypeOK, NoUser

\* A configuration with a field set is a configuration.
LEMMA FieldFacts ==
  ASSUME NEW c \in Configs
  PROVE  /\ \A l \in Locales : LET d == [c EXCEPT !.locale = l] IN
              /\ d \in Configs /\ d.locale = l /\ d.settings = c.settings
              /\ d.userId = c.userId /\ d.complete = c.complete
         /\ \A b \in BOOLEAN : LET d == [c EXCEPT !.providers = b] IN
              d \in Configs /\ d.userId = c.userId /\ d.complete = c.complete
         /\ \A s \in Settings, v \in Values : LET d == [c EXCEPT !.settings[s] = v] IN
              /\ d \in Configs /\ d.userId = c.userId /\ d.complete = c.complete
              /\ d.locale = c.locale /\ d.settings[s] = v
              /\ \A t \in Settings \ {s} : d.settings[t] = c.settings[t]
  BY DEF Configs

\* What a start reads, and what becomes of it if the file does not parse.
LEMMA ReadFacts ==
  ASSUME TypeOK, NEW p \in Processes, NEW to, ReadConfig(p, to)
  PROVE  /\ raced' = (raced \/ (Userless /\ \E q \in Processes \ {p} : phase[q] # "off"))
         /\ raced' \in BOOLEAN
         /\ file = Torn => phase' = [phase EXCEPT ![p] = "off"] /\ UNCHANGED <<writing, open>>
         /\ file # Torn => /\ phase' = [phase EXCEPT ![p] = to] /\ open' = open
                          /\ \/ GotConfig(p) = file /\ writing' = writing
                             \/ writing' = [writing EXCEPT ![p] = GotConfig(p)]
<1>1. raced \in BOOLEAN
  BY DEF TypeOK
<1> QED BY <1>1, Zenon DEF ReadConfig, SaveFilled, SetConfig

LEMMA NextType == TypeOK /\ [Next]_vars => TypeOK'
<1> SUFFICES ASSUME TypeOK, [Next]_vars PROVE TypeOK'
  OBVIOUS
<1>0. CASE UNCHANGED vars
  BY <1>0 DEF vars, processVars, TypeOK
<1>n. CASE Next
  <2>0. PICK p \in active : Steps(p) /\ UNCHANGED active
    BY <1>n DEF Next
  <2> p \in Processes
    BY DEF TypeOK
  <2> UNCHANGED active
    BY <2>0
  <2>1. CASE OpenFile(p)
    BY <2>1 DEF OpenFile, TypeOK
  <2>2. CASE WriteFile(p)
    BY <2>2 DEF WriteFile, Idle, TypeOK
  <2>3. CASE Launch(p)
    <3>1. launches + 1 \in 0 .. MaxLaunches
      BY <2>3, ConfigAssumption DEF Launch, TypeOK
    <3> QED BY <2>3, <3>1 DEF Launch, TypeOK
  <2>4. CASE Import(p)
    <3>1. ReadConfig(p, "imported")
      BY <2>4 DEF Import
    <3>2. CASE file = Torn
      BY <2>4, <3>1, <3>2, ReadFacts DEF Import, TypeOK
    <3>3. CASE file # Torn
      BY <2>4, <3>1, <3>3, ReadFacts, GotFacts DEF Import, TypeOK
    <3> QED BY <3>2, <3>3
  <2>5. CASE Construct(p)
    <3>1. ReadConfig(p, "constructed")
      BY <2>5 DEF Construct
    <3>2. CASE file = Torn
      BY <2>5, <3>1, <3>2, ReadFacts DEF Construct, TypeOK
    <3>3. CASE file # Torn
      BY <2>5, <3>1, <3>3, ReadFacts, GotFacts, ConfigsAre DEF Construct, TypeOK
    <3> QED BY <3>2, <3>3
  <2>6. CASE BeforeStart(p)
    <3>1. own[p] \in Configs /\ phase[p] = "constructed"
      BY <2>6 DEF BeforeStart, TypeOK
    <3>2. CASE UNCHANGED <<own, writing, open>>
      BY <2>6, <3>1, <3>2, ConfigsAre DEF BeforeStart, TypeOK
    <3>3. ASSUME NEW found \in BOOLEAN,
                 own' = [own EXCEPT ![p] = [own[p] EXCEPT !.providers = found]],
                 SetConfig(p, [own[p] EXCEPT !.providers = found])
          PROVE  TypeOK'
      <4>1. [own[p] EXCEPT !.providers = found] \in Configs
        BY <3>1, FieldFacts
      <4> QED BY <2>6, <3>1, <3>3, <4>1, ConfigsAre DEF BeforeStart, SetConfig, TypeOK
    <3> QED BY <2>6, <3>2, <3>3 DEF BeforeStart
  <2>7. CASE Lock(p)
    BY <2>7, ConfigsAre DEF Lock, TypeOK
  <2>8. ASSUME NEW l \in Locales, SaveLocale(p, l), own[p] \in Configs
        PROVE  /\ own' \in [Processes -> Configs \cup {NoConfig}]
               /\ writing' \in [Processes -> Configs \cup {NoConfig}]
               /\ open' \in [Processes -> BOOLEAN]
               /\ \A q \in Processes : own'[q] = NoConfig <=> own[q] = NoConfig
    <3>1. [own[p] EXCEPT !.locale = l] \in Configs
      BY <2>8, FieldFacts
    <3> QED BY <2>8, <3>1, ConfigsAre DEF SaveLocale, SetConfig, TypeOK
  <2>9. CASE Ready(p) \/ RefusedReady(p)
    <3>1. own[p] \in Configs /\ phase[p] \in {"locked", "refused"}
      BY <2>9 DEF Ready, RefusedReady, TypeOK
    <3>2. own[p].locale \in Locales
      BY <3>1 DEF Configs
    <3>3. SaveLocale(p, own[p].locale)
      BY <2>9 DEF Ready, RefusedReady
    <3> QED BY <2>8, <2>9, <3>1, <3>2, <3>3 DEF Ready, RefusedReady, TypeOK
  <2>10. CASE TellHub(p)
    BY <2>10, ConfigsAre DEF TellHub, TypeOK, Parses, Configs, processVars
  <2>11. ASSUME NEW s \in Settings, NEW v \in Values, SetSetting(p, s, v)
         PROVE  TypeOK'
    <3>1. file \in Configs
      BY <2>11 DEF SetSetting, Parses, TypeOK
    <3>2. [file EXCEPT !.settings[s] = v] \in Configs
      BY <3>1, FieldFacts
    <3>3. changes' \in 0 .. MaxChanges
      BY <2>11, ConfigAssumption DEF SetSetting, TypeOK
    <3> QED BY <2>11, <3>2, <3>3 DEF SetSetting, SaveSetting, SetConfig, TypeOK
  <2>12. ASSUME NEW l \in Locales, SetLanguage(p, l)
         PROVE  TypeOK'
    <3>1. own[p] \in Configs
      BY <2>12 DEF SetLanguage, Running, TypeOK
    <3>2. changes' \in 0 .. MaxChanges
      BY <2>12, ConfigAssumption DEF SetLanguage, TypeOK
    <3> QED BY <2>8, <2>12, <3>1, <3>2 DEF SetLanguage, TypeOK
  <2>13. CASE End(p)
    BY <2>13 DEF End, TypeOK
  <2> QED BY <2>0, <2>1, <2>2, <2>3, <2>4, <2>5, <2>6, <2>7, <2>9, <2>10, <2>11, <2>12, <2>13
          DEF Steps
<1> QED BY <1>0, <1>n

-----------------------------------------------------------------------------
(* one user *)

\* u is the only user id that is in the file, in memory or on its way to the file.
Known(u) ==
  /\ file # Absent
  /\ Parses(file) => file.complete /\ file.userId = u
  /\ \A p \in Processes : own[p] # NoConfig => own[p].complete /\ own[p].userId = u
  /\ \A p \in Processes : writing[p] # NoConfig => writing[p].complete /\ writing[p].userId = u

\* Once it is, it is for ever: for any number of processes, whatever they do.
LEMMA NextKnown ==
  ASSUME TypeOK, [Next]_vars, NEW u, Known(u)
  PROVE  Known(u)'
<1>0. CASE UNCHANGED vars
  BY <1>0 DEF vars, processVars, Known, Parses
<1>n. CASE Next
  <2>0. PICK p \in active : Steps(p)
    BY <1>n DEF Next
  <2> p \in Processes
    BY DEF TypeOK
  <2>1. CASE OpenFile(p)
    BY <2>1, ConfigsAre DEF OpenFile, Known, Parses
  <2>2. CASE WriteFile(p)
    <3>1. /\ writing[p] # NoConfig /\ file' \in {writing[p], Torn} /\ own' = own
          /\ writing' = [writing EXCEPT ![p] = NoConfig]
      BY <2>2 DEF WriteFile, Idle
    <3>2. writing[p] \in Configs /\ writing \in [Processes -> Configs \cup {NoConfig}]
      BY <3>1 DEF TypeOK
    <3> QED BY <3>1, <3>2, ConfigsAre DEF Known, Parses
  <2>3. CASE Launch(p) \/ TellHub(p)
    BY <2>3 DEF Launch, TellHub, processVars, Known, Parses
  <2>4. CASE Import(p) \/ Construct(p)
    <3>1. /\ file' = file
          /\ \/ own' = own
             \/ own' = [own EXCEPT ![p] = IF file = Torn THEN NoConfig ELSE GotConfig(p)]
      BY <2>4 DEF Import, Construct
    <3>2. \E to : ReadConfig(p, to)
      BY <2>4 DEF Import, Construct
    <3>3. file # Torn => GotConfig(p) = file /\ file.complete /\ file.userId = u
      BY GotFacts DEF Known, Parses
    <3>4. writing' = writing \/ (file # Torn /\ writing' = [writing EXCEPT ![p] = GotConfig(p)])
      BY <3>2, ReadFacts
    <3>5. /\ own \in [Processes -> Configs \cup {NoConfig}]
          /\ writing \in [Processes -> Configs \cup {NoConfig}]
      BY DEF TypeOK
    <3>6. \A q \in Processes : own'[q] # NoConfig => own'[q].complete /\ own'[q].userId = u
      BY <3>1, <3>3, <3>5 DEF Known
    <3>7. \A q \in Processes :
            writing'[q] # NoConfig => writing'[q].complete /\ writing'[q].userId = u
      BY <3>3, <3>4, <3>5 DEF Known
    <3> QED BY <3>1, <3>6, <3>7 DEF Known, Parses
  <2>5. ASSUME NEW c \in Configs, c.complete, c.userId = u, file' = file,
               writing' = [writing EXCEPT ![p] = c] \/ writing' = writing,
               own' = [own EXCEPT ![p] = c] \/ own' = own
        PROVE  Known(u)'
    BY <2>5 DEF Known, Parses, TypeOK
  <2>6. CASE BeforeStart(p)
    <3>1. own[p] \in Configs /\ own[p].complete /\ own[p].userId = u
      BY <2>6 DEF BeforeStart, TypeOK, Known
    <3>2. CASE UNCHANGED <<own, writing, open>>
      BY <2>6, <3>2 DEF BeforeStart, Known, Parses
    <3>3. ASSUME NEW found \in BOOLEAN,
                 own' = [own EXCEPT ![p] = [own[p] EXCEPT !.providers = found]],
                 SetConfig(p, [own[p] EXCEPT !.providers = found])
          PROVE  Known(u)'
      <4> DEFINE c == [own[p] EXCEPT !.providers = found]
      <4>1. c \in Configs /\ c.complete /\ c.userId = u
        BY <3>1, FieldFacts
      <4>2. own' = [own EXCEPT ![p] = c] /\ writing' = [writing EXCEPT ![p] = c] /\ file' = file
        BY <2>6, <3>3 DEF BeforeStart, SetConfig
      <4> HIDE DEF c
      <4> QED BY <2>5, <4>1, <4>2
    <3> QED BY <2>6, <3>2, <3>3 DEF BeforeStart
  <2>7. CASE Lock(p) \/ End(p)
    <3>1. /\ file' = file
          /\ own' = own \/ own' = [own EXCEPT ![p] = NoConfig]
          /\ writing' = writing \/ writing' = [writing EXCEPT ![p] = NoConfig]
      BY <2>7 DEF Lock, End
    <3> QED BY <3>1 DEF Known, Parses, TypeOK
  <2>8. ASSUME NEW l \in Locales, SaveLocale(p, l), file' = file, own[p] \in Configs
        PROVE  Known(u)'
    <3> DEFINE c == [own[p] EXCEPT !.locale = l]
    <3>1. own[p] # NoConfig
      BY <2>8, ConfigsAre
    <3>2. c \in Configs /\ c.complete /\ c.userId = u
      BY <2>8, <3>1, FieldFacts DEF Known
    <3>3. own' = [own EXCEPT ![p] = c] /\ writing' = [writing EXCEPT ![p] = c]
      BY <2>8 DEF SaveLocale, SetConfig
    <3> HIDE DEF c
    <3> QED BY <2>5, <2>8, <3>2, <3>3
  <2>9. CASE Ready(p) \/ RefusedReady(p)
    <3>1. own[p] \in Configs
      BY <2>9 DEF Ready, RefusedReady, TypeOK
    <3>2. own[p].locale \in Locales
      BY <3>1 DEF Configs
    <3> QED BY <2>8, <2>9, <3>1, <3>2 DEF Ready, RefusedReady
  <2>10. ASSUME NEW s \in Settings, NEW v \in Values, SetSetting(p, s, v)
         PROVE  Known(u)'
    <3> DEFINE c == [file EXCEPT !.settings[s] = v]
    <3>1. file \in Configs /\ Parses(file)
      BY <2>10 DEF SetSetting, Parses, TypeOK
    <3>2. c \in Configs /\ c.complete /\ c.userId = u
      BY <3>1, FieldFacts DEF Known
    <3>3. file' = file /\ own' = own /\ writing' = [writing EXCEPT ![p] = c]
      BY <2>10 DEF SetSetting, SaveSetting, SetConfig
    <3> HIDE DEF c
    <3> QED BY <2>5, <3>2, <3>3
  <2>11. ASSUME NEW l \in Locales, SetLanguage(p, l)
         PROVE  Known(u)'
    <3>1. own[p] \in Configs
      BY <2>11 DEF SetLanguage, Running, TypeOK
    <3> QED BY <2>8, <2>11, <3>1 DEF SetLanguage
  <2> QED BY <2>0, <2>1, <2>2, <2>3, <2>4, <2>6, <2>7, <2>9, <2>10, <2>11 DEF Steps
<1> QED BY <1>0, <1>n

-----------------------------------------------------------------------------
(* one process *)

\* What the file is, or will be when what p saves has been written.
Saved(p) == IF writing[p] = NoConfig THEN file ELSE writing[p]

\* p is the only process that starts.  What it has read agrees with the file in the
\* user's id; and while it runs, in the language and all settings but those chosen.
Solo(p) ==
  /\ active = {p}
  /\ \A q \in Processes \ {p} : own[q] = NoConfig /\ writing[q] = NoConfig
  /\ open[p] => file = Torn
  /\ own[p] # NoConfig =>
       /\ Saved(p) \in Configs /\ Saved(p).complete
       /\ own[p].complete /\ Saved(p).userId = own[p].userId
  /\ Running(p) =>
       /\ Saved(p).locale = lang
       /\ \A s \in Settings : Saved(p).settings[s] \in {chosen[s], own[p].settings[s]}

LEMMA NextSolo ==
  ASSUME TypeOK, [Next]_vars, NEW p \in Processes, Solo(p)
  PROVE  Solo(p)'
<1>0. CASE UNCHANGED vars
  BY <1>0 DEF vars, processVars, Solo, Saved, Running
<1>n. CASE Next
  <2>0. Steps(p) /\ active' = {p}
    BY <1>n DEF Next, Solo
  <2>t. /\ own \in [Processes -> Configs \cup {NoConfig}]
        /\ writing \in [Processes -> Configs \cup {NoConfig}]
        /\ open \in [Processes -> BOOLEAN]
        /\ phase \in [Processes -> {"off", "launched", "imported", "constructed", "begun",
                                   "locked", "refused", "running", "quitting"}]
        /\ phase[p] \in {"off", "launched", "imported"} <=> own[p] = NoConfig
        /\ chosen \in [Settings -> Values]
    BY DEF TypeOK
  <2>1. CASE OpenFile(p)
    BY <2>0, <2>1, <2>t DEF OpenFile, Idle, Solo, Saved, Running
  <2>2. CASE WriteFile(p)
    <3>1. /\ writing[p] # NoConfig /\ open[p]
          /\ file' \in {writing[p]} \cup (IF Parses(file) THEN {Torn} ELSE {})
          /\ writing' = [writing EXCEPT ![p] = NoConfig] /\ open' = [open EXCEPT ![p] = FALSE]
          /\ UNCHANGED <<own, phase, lang, chosen>>
      BY <2>2 DEF WriteFile, Idle
    <3>2. file' = writing[p]
      BY <3>1 DEF Solo, Parses
    <3>3. Saved(p)' = Saved(p)
      BY <2>t, <3>1, <3>2 DEF Saved
    <3> QED BY <2>0, <2>t, <3>1, <3>3 DEF Solo, Running
  <2>3. CASE Launch(p)
    BY <2>0, <2>3, <2>t DEF Launch, Solo, Saved, Running
  <2>4. CASE TellHub(p)
    BY <2>0, <2>4 DEF TellHub, processVars, Solo, Saved, Running
  <2>5. CASE Import(p)
    <3>1. /\ UNCHANGED <<file, own>> /\ own[p] = NoConfig /\ ReadConfig(p, "imported")
      BY <2>5, <2>t DEF Import
    <3>2. /\ open' = open /\ phase'[p] # "running"
          /\ writing' = writing \/ writing' = [writing EXCEPT ![p] = GotConfig(p)]
      BY <2>t, <3>1, ReadFacts
    <3> QED BY <2>0, <2>t, <3>1, <3>2 DEF Solo, Running
  <2>6. CASE Construct(p)
    <3>1. /\ UNCHANGED file /\ writing[p] = NoConfig /\ ReadConfig(p, "constructed")
          /\ own' = [own EXCEPT ![p] = IF file = Torn THEN NoConfig ELSE GotConfig(p)]
      BY <2>6 DEF Construct, Idle
    <3>2. open' = open /\ phase'[p] # "running"
      BY <2>t, <3>1, ReadFacts
    <3>3. CASE file = Torn
      <4>1. writing' = writing /\ own'[p] = NoConfig
        BY <2>t, <3>1, <3>3, ReadFacts
      <4> QED BY <2>0, <2>t, <3>1, <3>2, <4>1 DEF Solo, Running
    <3>4. CASE file # Torn
      <4>1. GotConfig(p) \in Configs /\ GotConfig(p).complete /\ GotConfig(p) # NoConfig
        BY <3>4, GotFacts, ConfigsAre
      <4>2. /\ own'[p] = GotConfig(p)
            /\ \/ GotConfig(p) = file /\ writing' = writing
               \/ writing' = [writing EXCEPT ![p] = GotConfig(p)]
        BY <2>t, <3>1, <3>4, ReadFacts
      <4>3. Saved(p)' = GotConfig(p)
        BY <2>t, <3>1, <4>1, <4>2 DEF Saved
      <4> QED BY <2>0, <2>t, <3>1, <3>2, <4>1, <4>2, <4>3 DEF Solo, Running
    <3> QED BY <3>3, <3>4
  <2>7. ASSUME NEW c \in Configs, c.complete, UNCHANGED file,
               UNCHANGED open, writing' = [writing EXCEPT ![p] = c]
        PROVE  Saved(p)' = c
    BY <2>7, <2>t, ConfigsAre DEF Saved
  <2>8. CASE BeforeStart(p)
    <3>1. /\ UNCHANGED file /\ phase'[p] # "running" /\ own[p] \in Configs /\ own[p] # NoConfig
          /\ own[p].complete
      BY <2>8, <2>t DEF BeforeStart, Solo
    <3>2. CASE UNCHANGED <<own, writing, open>>
      BY <2>0, <3>1, <3>2 DEF Solo, Saved, Running
    <3>3. ASSUME NEW found \in BOOLEAN,
                 own' = [own EXCEPT ![p] = [own[p] EXCEPT !.providers = found]],
                 SetConfig(p, [own[p] EXCEPT !.providers = found])
          PROVE  Solo(p)'
      <4> DEFINE c == [own[p] EXCEPT !.providers = found]
      <4>1. c \in Configs /\ c.complete
        BY <3>1, FieldFacts
      <4>2. own' = [own EXCEPT ![p] = c] /\ writing' = [writing EXCEPT ![p] = c] /\ open' = open
        BY <3>3 DEF SetConfig
      <4> HIDE DEF c
      <4>3. Saved(p)' = c
        BY <2>7, <3>1, <4>1, <4>2
      <4> QED BY <2>0, <2>t, <3>1, <4>1, <4>2, <4>3 DEF Solo, Running
    <3> QED BY <2>8, <3>2, <3>3 DEF BeforeStart
  <2>9. CASE Lock(p) \/ End(p)
    <3>1. /\ UNCHANGED file /\ phase'[p] # "running"
          /\ \/ own' = [own EXCEPT ![p] = NoConfig]
             \/ UNCHANGED <<own, writing>>
          /\ writing' = writing \/ writing' = [writing EXCEPT ![p] = NoConfig]
          /\ open' = open \/ open' = [open EXCEPT ![p] = FALSE]
      BY <2>9, <2>t DEF Lock, End
    <3> QED BY <2>0, <2>t, <3>1 DEF Solo, Saved, Running
  <2>10. ASSUME NEW l \in Locales, SaveLocale(p, l), UNCHANGED <<file, chosen>>,
                own[p] \in Configs, Running(p)' => lang' = l
         PROVE  Solo(p)'
    <3> DEFINE c == [own[p] EXCEPT !.locale = l]
    <3>1. own[p] # NoConfig
      BY <2>10, ConfigsAre
    <3>2. c \in Configs /\ c.complete /\ c.locale = l /\ c.settings = own[p].settings
      BY <2>10, <3>1, FieldFacts DEF Solo
    <3>3. /\ own' = [own EXCEPT ![p] = c] /\ writing' = [writing EXCEPT ![p] = c] /\ open' = open
      BY <2>10 DEF SaveLocale, SetConfig
    <3> HIDE DEF c
    <3>4. Saved(p)' = c
      BY <2>7, <2>10, <3>2, <3>3
    <3> QED BY <2>0, <2>t, <2>10, <3>2, <3>3, <3>4 DEF Solo, Running
  <2>11. CASE Ready(p) \/ RefusedReady(p)
    <3>1. own[p] \in Configs
      BY <2>11, <2>t DEF Ready, RefusedReady
    <3>2. own[p].locale \in Locales
      BY <3>1 DEF Configs
    <3>3. Running(p)' => lang' = own[p].locale
      BY <2>11, <2>t DEF Ready, RefusedReady, Running
    <3> QED BY <2>10, <2>11, <3>1, <3>2, <3>3 DEF Ready, RefusedReady
  <2>12. ASSUME NEW s \in Settings, NEW v \in Values, SetSetting(p, s, v)
         PROVE  Solo(p)'
    <3> DEFINE c == [file EXCEPT !.settings[s] = v]
    <3>1. /\ Running(p) /\ writing[p] = NoConfig /\ file \in Configs
          /\ own[p] # NoConfig /\ Saved(p) = file
      BY <2>12, <2>t DEF SetSetting, Parses, Running, Idle, Saved, TypeOK
    <3>2. /\ c \in Configs /\ c.complete /\ c.userId = file.userId /\ c.locale = file.locale
          /\ c.settings[s] = v /\ \A t \in Settings \ {s} : c.settings[t] = file.settings[t]
      BY <3>1, FieldFacts DEF Solo
    <3>3. /\ UNCHANGED <<file, own, open, phase, lang>> /\ writing' = [writing EXCEPT ![p] = c]
          /\ chosen' = [chosen EXCEPT ![s] = v]
      BY <2>12 DEF SetSetting, SaveSetting, SetConfig
    <3> HIDE DEF c
    <3>4. Saved(p)' = c
      BY <2>7, <3>2, <3>3
    <3>5. \A t \in Settings : c.settings[t] \in {chosen'[t], own[p].settings[t]}
      BY <2>t, <3>1, <3>2, <3>3 DEF Solo
    <3> QED BY <2>0, <2>t, <3>1, <3>2, <3>3, <3>4, <3>5 DEF Solo, Running
  <2>13. ASSUME NEW l \in Locales, SetLanguage(p, l)
         PROVE  Solo(p)'
    <3>1. own[p] \in Configs
      BY <2>13, <2>t DEF SetLanguage, Running
    <3> QED BY <2>10, <2>13, <3>1 DEF SetLanguage
  <2> QED BY <2>0, <2>1, <2>2, <2>3, <2>4, <2>5, <2>6, <2>8, <2>9, <2>11, <2>12, <2>13 DEF Steps
<1> QED BY <1>0, <1>n

-----------------------------------------------------------------------------
(* the theorems *)

\* getConfig has to fill in the file.
Unfilled == Userless /\ (Parses(file) => ~file.complete)

\* No process has a configuration yet, or saves one.
Unread ==
  /\ Unfilled \/ file = Torn
  /\ \A p \in Processes : own[p] = NoConfig /\ writing[p] = NoConfig
  /\ \A p \in Processes : phase[p] \in {"off", "launched"}

\* p has made the user's id, and is about to save it.
First(p) ==
  /\ Unfilled
  /\ phase[p] = "imported" /\ writing[p] # NoConfig /\ writing[p].complete
  /\ \A q \in Processes : own[q] = NoConfig
  /\ \A q \in Processes \ {p} : writing[q] = NoConfig /\ phase[q] \in {"off", "launched"}

\* Without a race, there is no user yet, or a first start makes one, or all know the
\* same; and the one that was told to the hub is known.
UserInv ==
  /\ hubUser = NoUser => Unread \/ (\E p \in Processes : First(p)) \/ (\E u : Known(u))
  /\ hubUser # NoUser => Known(hubUser)

ConfigInv ==
  /\ TypeOK
  /\ \A p \in Processes : active = {p} => Solo(p)
  /\ ~raced => UserInv

LEMMA InitInv == Init => ConfigInv
<1> SUFFICES ASSUME Init PROVE ConfigInv
  OBVIOUS
<1>1. TypeOK
  BY InitType
<1>2. /\ \A p \in Processes : /\ own[p] = NoConfig /\ writing[p] = NoConfig
                            /\ ~open[p] /\ phase[p] = "off"
      /\ hubUser = NoUser
  BY DEF Init
<1>3. file \in {Absent, [DefaultConfig(NoUser) EXCEPT !.complete = FALSE], DefaultConfig(1)}
  BY DEF Init
<1>4. NoUser \in 0 .. MaxLaunches /\ 1 \in 0 .. MaxLaunches
  BY ConfigAssumption DEF NoUser
<1>5. CASE file = DefaultConfig(1)
  <2>1. Known(1)
    BY <1>2, <1>4, <1>5, DefaultFacts, ConfigsAre DEF Known
  <2> QED BY <1>1, <1>2, <2>1 DEF ConfigInv, UserInv, Solo, Running
<1>6. CASE file # DefaultConfig(1)
  <2>1. DefaultConfig(NoUser) \in Configs /\ DefaultConfig(NoUser).userId = NoUser
    BY <1>4, DefaultFacts
  <2>2. [DefaultConfig(NoUser) EXCEPT !.complete = FALSE] \in Configs
    BY <2>1 DEF Configs
  <2>3. [DefaultConfig(NoUser) EXCEPT !.complete = FALSE].userId = NoUser
    BY <2>1 DEF Configs
  <2>4. [DefaultConfig(NoUser) EXCEPT !.complete = FALSE].complete = FALSE
    BY <2>1 DEF Configs
  <2>5. Unfilled
    BY <1>3, <1>6, <2>2, <2>3, <2>4, ConfigsAre DEF Unfilled, Userless, Parses
  <2>6. Unread
    BY <1>2, <2>5 DEF Unread
  <2> QED BY <1>1, <1>2, <2>6 DEF ConfigInv, UserInv, Solo, Running
<1> QED BY <1>5, <1>6

\* Who is told to the hub is whom the file names, and a race is never forgotten.
LEMMA HubSteps ==
  ASSUME TypeOK, [Next]_vars
  PROVE  /\ raced => raced'
         /\ \/ hubUser' = hubUser
            \/ /\ Parses(file) /\ hubUser' = file.userId /\ UNCHANGED file
               /\ \E p \in Processes : own[p] # NoConfig
<1>0. CASE UNCHANGED vars
  BY <1>0 DEF vars
<1>1. ASSUME NEW p \in active, Import(p) \/ Construct(p)
      PROVE  (raced => raced') /\ hubUser' = hubUser
  BY <1>1, Zenon DEF Import, Construct, ReadConfig
<1>2. ASSUME NEW p \in active, TellHub(p)
      PROVE  /\ Parses(file) /\ hubUser' = file.userId /\ UNCHANGED <<file, raced>>
             /\ \E q \in Processes : own[q] # NoConfig
  BY <1>2 DEF TellHub, TypeOK
<1>3. ASSUME NEW p \in active, Steps(p), ~Import(p), ~Construct(p), ~TellHub(p)
      PROVE  UNCHANGED <<raced, hubUser>>
  BY <1>3 DEF Steps, OpenFile, WriteFile, Launch, BeforeStart, Lock, Ready, RefusedReady,
     SetSetting, SetLanguage, End
<1> QED BY <1>0, <1>1, <1>2, <1>3 DEF Next

\* What a start reads from a file without a user: it makes one and saves it.
LEMMA FillFacts ==
  ASSUME TypeOK, NEW p \in Processes, Unfilled, ReadConfig(p, "imported")
  PROVE  /\ phase' = [phase EXCEPT ![p] = "imported"]
         /\ writing' = [writing EXCEPT ![p] = GotConfig(p)]
         /\ GotConfig(p) # NoConfig /\ GotConfig(p).complete
         /\ ~raced' => \A q \in Processes \ {p} : phase[q] = "off"
<1>1. file # Torn
  BY ConfigsAre DEF Unfilled, Userless, Parses
<1>2. GotConfig(p) \in Configs /\ GotConfig(p).complete
  BY <1>1, GotFacts
<1>3. GotConfig(p) # file
  BY <1>2, ConfigsAre DEF Unfilled, Userless
<1> QED BY <1>1, <1>2, <1>3, ReadFacts, ConfigsAre DEF Unfilled

\* Before there is a user: the first launch that reads the file makes one.
LEMMA NextUnread ==
  ASSUME TypeOK, Unread, [Next]_vars, ~raced'
  PROVE  Unread' \/ \E p \in Processes : First(p)'
<1>0. CASE UNCHANGED vars
  BY <1>0 DEF vars, processVars, Unread, Unfilled, Userless, Parses
<1>n. CASE Next
  <2>0. PICK p \in active : Steps(p)
    BY <1>n DEF Next
  <2>t. /\ p \in Processes /\ phase[p] \in {"off", "launched"} /\ own[p] = NoConfig
        /\ writing[p] = NoConfig
        /\ own \in [Processes -> Configs \cup {NoConfig}]
        /\ writing \in [Processes -> Configs \cup {NoConfig}]
        /\ phase \in [Processes -> {"off", "launched", "imported", "constructed", "begun",
                                   "locked", "refused", "running", "quitting"}]
    BY DEF Unread, TypeOK
  <2>1. CASE Launch(p)
    BY <2>1, <2>t DEF Launch, Unread, Unfilled, Userless, Parses
  <2>2. CASE End(p)
    BY <2>2, <2>t DEF End, Unread, Unfilled, Userless, Parses
  <2>3. CASE Import(p)
    <3>1. ReadConfig(p, "imported") /\ UNCHANGED <<file, own>>
      BY <2>3 DEF Import
    <3>2. CASE file = Torn
      <4>1. phase' = [phase EXCEPT ![p] = "off"] /\ writing' = writing
        BY <2>t, <3>1, <3>2, ReadFacts
      <4> QED BY <2>t, <3>1, <3>2, <4>1 DEF Unread
    <3>3. CASE Unfilled
      <4>1. /\ phase' = [phase EXCEPT ![p] = "imported"]
            /\ writing' = [writing EXCEPT ![p] = GotConfig(p)]
            /\ GotConfig(p) # NoConfig /\ GotConfig(p).complete
        BY <2>t, <3>1, <3>3, FillFacts
      <4>2. Unfilled'
        BY <3>1, <3>3 DEF Unfilled, Userless, Parses
      <4>3. First(p)'
        BY <2>t, <3>1, <4>1, <4>2 DEF First, Unread
      <4> QED BY <2>t, <4>3
    <3> QED BY <3>2, <3>3 DEF Unread
  <2> QED BY <2>0, <2>1, <2>2, <2>3, <2>t DEF Steps, OpenFile, WriteFile, Construct, BeforeStart,
          Lock, Ready, RefusedReady, TellHub, SetSetting, SetLanguage, Running, Idle
<1> QED BY <1>0, <1>n

\* Until it has saved it, another launch is a race; then all know the one that it made.
LEMMA NextFirst ==
  ASSUME TypeOK, NEW f \in Processes, First(f), [Next]_vars, ~raced'
  PROVE  Unread' \/ First(f)' \/ \E u : Known(u)'
<1>0. CASE UNCHANGED vars
  BY <1>0 DEF vars, processVars, First, Unfilled, Userless, Parses
<1>n. CASE Next
  <2>0. PICK p \in active : Steps(p)
    BY <1>n DEF Next
  <2>t. /\ p \in Processes /\ phase[p] \in {"off", "launched", "imported"} /\ own[p] = NoConfig
        /\ phase[p] = "imported" => p = f
        /\ writing[p] # NoConfig <=> p = f
        /\ own \in [Processes -> Configs \cup {NoConfig}]
        /\ writing \in [Processes -> Configs \cup {NoConfig}]
        /\ phase \in [Processes -> {"off", "launched", "imported", "constructed", "begun",
                                   "locked", "refused", "running", "quitting"}]
    BY DEF First, TypeOK
  <2>1. CASE Launch(p)
    BY <2>1, <2>t DEF Launch, First, Unfilled, Userless, Parses
  <2>2. CASE End(p)
    <3>1. CASE p = f
      BY <2>2, <2>t, <3>1 DEF End, First, Unread, Unfilled, Userless, Parses
    <3>2. CASE p # f
      BY <2>2, <2>t, <3>2 DEF End, First, Unfilled, Userless, Parses
    <3> QED BY <3>1, <3>2
  <2>3. CASE Import(p)
    <3>1. ReadConfig(p, "imported") /\ p # f /\ phase[f] = "imported" /\ Unfilled
      BY <2>3, <2>t DEF Import, First
    <3> QED BY <2>t, <3>1, FillFacts
  <2>4. CASE OpenFile(p)
    <3>1. p = f /\ file' = Torn /\ UNCHANGED <<own, writing>>
      BY <2>4, <2>t DEF OpenFile, Idle
    <3>2. Known(writing[f].userId)'
      BY <2>t, <3>1, ConfigsAre DEF Known, First, Parses
    <3> QED BY <3>2
  <2>5. CASE WriteFile(p)
    <3>1. /\ p = f /\ file' \in {writing[f], Torn} /\ UNCHANGED own
          /\ writing' = [writing EXCEPT ![p] = NoConfig]
      BY <2>5, <2>t DEF WriteFile, Idle
    <3>2. writing[f] \in Configs /\ writing[f].complete
      BY <2>t, <3>1 DEF First
    <3> DEFINE u == writing[f].userId
    <3>3. /\ file' # Absent /\ (Parses(file)' => file'.complete /\ file'.userId = u)
          /\ \A q \in Processes : own'[q] = NoConfig /\ writing'[q] = NoConfig
      BY <2>t, <3>1, <3>2, ConfigsAre DEF First, Parses
    <3> HIDE DEF u
    <3>4. \E w : Known(w)'
      BY <3>3 DEF Known
    <3> QED BY <3>4
  <2> QED BY <2>0, <2>1, <2>2, <2>3, <2>4, <2>5, <2>t DEF Steps, Construct, BeforeStart,
          Lock, Ready, RefusedReady, TellHub, SetSetting, SetLanguage, Running, Idle
<1> QED BY <1>0, <1>n

LEMMA NextUser ==
  ASSUME TypeOK, UserInv, [Next]_vars, ~raced'
  PROVE  UserInv'
<1>1. hubUser' = hubUser \/ (/\ Parses(file) /\ hubUser' = file.userId
                             /\ \E p \in Processes : own[p] # NoConfig)
  BY HubSteps
<1>2. ASSUME NEW u, Known(u), hubUser # NoUser => hubUser = u
      PROVE  UserInv'
  <2>1. Known(u)'
    BY <1>2, NextKnown
  <2>2. hubUser' # NoUser => hubUser' = u
    BY <1>1, <1>2 DEF Known
  <2> QED BY <2>1, <2>2 DEF UserInv, Known
<1>3. CASE hubUser # NoUser
  BY <1>2, <1>3 DEF UserInv
<1>4. CASE hubUser = NoUser /\ Unread
  <2>1. hubUser' = NoUser
    BY <1>1, <1>4 DEF Unread
  <2> QED BY <1>4, <2>1, NextUnread DEF UserInv
<1>5. ASSUME hubUser = NoUser, NEW f \in Processes, First(f)
      PROVE  UserInv'
  <2>1. hubUser' = NoUser
    BY <1>1, <1>5 DEF First
  <2> QED BY <1>5, <2>1, NextFirst DEF UserInv
<1>6. ASSUME hubUser = NoUser, NEW u, Known(u)
      PROVE  UserInv'
  BY <1>2, <1>6
<1> QED BY <1>3, <1>4, <1>5, <1>6 DEF UserInv

LEMMA NextInv == ConfigInv /\ [Next]_vars => ConfigInv'
<1> SUFFICES ASSUME ConfigInv, [Next]_vars PROVE ConfigInv'
  OBVIOUS
<1>1. TypeOK'
  BY NextType DEF ConfigInv
<1>2. active' = active
  BY DEF Next, vars
<1>3. \A p \in Processes : active' = {p} => Solo(p)'
  BY <1>2, NextSolo DEF ConfigInv
<1>4. ~raced' => UserInv'
  BY HubSteps, NextUser DEF ConfigInv
<1> QED BY <1>1, <1>3, <1>4 DEF ConfigInv

LEMMA InvHolds == Spec => []ConfigInv
  BY InitInv, NextInv, PTL DEF Spec

\* Configurations, copies of them and phases are what the model declares: TypeOK.
THEOREM TypeCorrect == Spec => []TypeOK
<1>1. ConfigInv => TypeOK
  BY DEF ConfigInv
<1> QED BY <1>1, InvHolds, PTL

\* However many processes read, fill in and write config.json, and wherever they end,
\* the id that the hub knows is the only one it ever holds, unless two launches looked
\* for a user while there was none: OneUser.
THEOREM UserIsOne == Spec => []OneUser
<1>1. ConfigInv => OneUser
  BY DEF ConfigInv, UserInv, Known, OneUser
<1> QED BY <1>1, InvHolds, PTL

\* With one process, the language that is shown is the one that is saved: LocaleSaved.
THEOREM LocaleIsSaved == Spec => []LocaleSaved
<1>1. ConfigInv => LocaleSaved
  BY DEF ConfigInv, Solo, Saved, AtRest, Idle, LocaleSaved
<1> QED BY <1>1, InvHolds, PTL

\* With one process, a change of the language brings back no value but that of the
\* start of the program: StaleAtWorst.
THEOREM StaleIsWorst == Spec => []StaleAtWorst
<1>1. ConfigInv => StaleAtWorst
  BY DEF ConfigInv, Solo, Saved, AtRest, Idle, StaleAtWorst
<1> QED BY <1>1, InvHolds, PTL
=============================================================================
