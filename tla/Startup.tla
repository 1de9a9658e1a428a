------------------------------- MODULE Startup -------------------------------
(***************************************************************************)
(* The start of the program after its configuration: Server.init and       *)
(* prepareCardJson (main/server.ts) and SslService.run with                *)
(* getCaCertStatus (services/ssl/index.ts), over the files that they leave *)
(* to the next start: ca.pem, cert.pem, cert.key and card.json.            *)
(*                                                                         *)
(* The program may be ended at any await, and in the middle of writing a   *)
(* file, which then is empty or is cut short.                              *)
(***************************************************************************)
EXTENDS Naturals

CONSTANTS
  Platforms,     \* "windows" and those that are handled otherwise
  MaxVersion,    \* bound: versions of card.json that are published
  MaxSets,       \* bound: sets of certificates generated
  MaxCrashes     \* bound: starts and runs that do not end well

ASSUME StartupAssumption ==
  {MaxVersion, MaxSets, MaxCrashes} \subseteq Nat \ {0}

VARIABLES
  platform,      \* os.platform()
  phase,         \* how far the start is
  ca, cert, key, \* the certificate files
  age,           \* the dates of the authority's certificate, as of now
  sets,          \* sets of certificates generated so far
  cut,           \* an enrollment was cut short after its first file was opened
  cards,         \* card.json
  published,     \* the version of card.json on the network (external)
  crashes

sslVars == <<ca, cert, key, age, sets, cut>>
vars == <<platform, phase, sslVars, cards, published, crashes>>

\* A file is missing, empty, cut short or whole, and then of a set or version.
File(state, n) == [state |-> state, of |-> n]
Missing == File("missing", 0)
Damaged == {File("empty", 0), File("partial", 0)}
Files(n) == {Missing} \cup Damaged \cup {File("whole", i) : i \in 0 .. n}

TypeOK ==
  /\ platform \in Platforms
  /\ phase \in {"off", "cards", "ssl", "asking", "exporting", "loading", "failing", "running"}
  /\ ca \in Files(MaxSets) /\ cert \in Files(MaxSets) /\ key \in Files(MaxSets)
  /\ age \in {"valid", "renew", "expired"}
  /\ sets \in 0 .. MaxSets
  /\ cut \in BOOLEAN
  /\ cards \in Files(MaxVersion)
  /\ published \in 0 .. MaxVersion
  /\ crashes \in 0 .. MaxCrashes

Init ==
  /\ platform \in Platforms
  /\ phase = "off"
  /\ ca = Missing /\ cert = Missing /\ key = Missing
  /\ age = "valid" /\ sets = 0 /\ cut = FALSE
  /\ cards = Missing /\ published = 1
  /\ crashes = 0

-----------------------------------------------------------------------------
(* card.json: version 0 comes with the program *)

\* prepareCardJson writes a file only if there is none: what is on the network,
\* or what comes with the program.  A file that does not parse is an error that
\* is logged.
PrepareCardJson ==
  IF cards = Missing
  THEN cards' \in {File("whole", published), File("whole", 0)}
  ELSE UNCHANGED cards

Begin ==
  /\ phase = "off"
  /\ phase' = "cards"
  /\ UNCHANGED <<platform, sslVars, cards, published, crashes>>

FirstPrepare ==
  /\ phase = "cards"
  /\ phase' = "ssl"
  /\ PrepareCardJson
  /\ UNCHANGED <<platform, sslVars, published, crashes>>

-----------------------------------------------------------------------------
(* the certificates *)

\* Mutant: what is empty is parsed like the rest.
CaCertStatusStrict ==
  IF Missing \in {ca, cert, key} THEN "none"
  ELSE IF ca.state # "whole" THEN "throws"
  ELSE age

\* Mutant: an authority that is about to expire is good enough.
CaCertStatusLax ==
  IF Missing \in {ca, cert, key} \/ ca.state = "empty" THEN "none"
  ELSE IF ca.state = "partial" THEN "throws"
  ELSE IF age = "renew" THEN "valid" ELSE age

\* getCaCertStatus; reading an authority that is cut short throws.
CaCertStatus ==
  IF Missing \in {ca, cert, key} \/ ca.state = "empty" THEN "none"
  ELSE IF ca.state = "partial" THEN "throws"
  ELSE age

\* SslService.run up to the user's closing of the warning, if it shows one that
\* it waits for.  On Windows what is old is shown, and used.
CheckCertificates ==
  /\ phase = "ssl"
  /\ phase' = IF CaCertStatus = "throws" THEN "failing"
              ELSE IF CaCertStatus = "valid" \/ (platform = "windows" /\ CaCertStatus # "none")
              THEN "loading"
              ELSE "asking"
  /\ UNCHANGED <<platform, sslVars, cards, published, crashes>>

\* The set is generated, its authority and certificate are written, and the key
\* is exported ...
Enroll ==
  /\ phase = "asking"
  /\ sets < MaxSets
  /\ sets' = sets + 1
  /\ ca' = File("whole", sets + 1) /\ cert' = File("whole", sets + 1)
  /\ age' = "valid"
  /\ cut' = TRUE
  /\ phase' = "exporting"
  /\ UNCHANGED <<platform, key, cards, published, crashes>>

\* Mutant: the key that is there is kept.
WriteKeyOnce ==
  /\ phase = "exporting"
  /\ key' = IF key = Missing THEN File("whole", sets) ELSE key
  /\ cut' = FALSE
  /\ phase' = "loading"
  /\ UNCHANGED <<platform, ca, cert, age, sets, cards, published, crashes>>

\* ... and written.
WriteKey ==
  /\ phase = "exporting"
  /\ key' = File("whole", sets)
  /\ cut' = FALSE
  /\ phase' = "loading"
  /\ UNCHANGED <<platform, ca, cert, age, sets, cards, published, crashes>>

\* init reads certificate and key, prepares card.json again, and connects.
Load ==
  /\ phase = "loading"
  /\ phase' = "running"
  /\ PrepareCardJson
  /\ UNCHANGED <<platform, sslVars, published, crashes>>

\* The user closes the window that tells the error: app.quit().
Quit ==
  /\ phase = "failing"
  /\ phase' = "off"
  /\ UNCHANGED <<platform, sslVars, cards, published, crashes>>

-----------------------------------------------------------------------------
(* crashes, and what happens outside *)

\* Writing a file fails, or the program ends in the middle: the file is damaged
\* and those after it stay as they are.
DamageOf(f) ==
  \/ phase = "asking" /\ f = "ca" /\ ca' \in Damaged /\ cut' = TRUE
     /\ UNCHANGED <<cert, key, age, sets, cards>>
  \/ phase = "asking" /\ f = "cert" /\ sets < MaxSets /\ sets' = sets + 1
     /\ ca' = File("whole", sets + 1) /\ cert' \in Damaged /\ age' = "valid" /\ cut' = TRUE
     /\ UNCHANGED <<key, cards>>
  \/ phase = "exporting" /\ f = "key" /\ key' \in Damaged
     /\ UNCHANGED <<ca, cert, age, sets, cut, cards>>
  \/ phase \in {"cards", "loading"} /\ f = "card.json" /\ cards = Missing
     /\ cards' \in Damaged /\ UNCHANGED sslVars

Crash ==
  /\ phase # "off"
  /\ crashes < MaxCrashes
  /\ crashes' = crashes + 1
  /\ phase' = "off"
  /\ \/ UNCHANGED <<sslVars, cards>>
     \/ \E f \in {"ca", "cert", "key", "card.json"} : DamageOf(f)
  /\ UNCHANGED <<platform, published>>

\* Time passes, in months, while the program is off or runs.
Ages ==
  /\ phase \in {"off", "running"}
  /\ ca.state = "whole"
  /\ \/ age = "valid" /\ age' = "renew"
     \/ age = "renew" /\ age' = "expired"
  /\ UNCHANGED <<platform, phase, ca, cert, key, sets, cut, cards, published, crashes>>

Publish ==
  /\ phase = "off"
  /\ published < MaxVersion
  /\ published' = published + 1
  /\ UNCHANGED <<platform, phase, sslVars, cards, crashes>>

Next ==
  \/ Begin \/ FirstPrepare \/ CheckCertificates \/ Enroll \/ WriteKey \/ Load \/ Quit
  \/ Crash \/ Ages \/ Publish

\* The user starts the program and closes its windows, and it goes on.
Fairness ==
  /\ WF_vars(Begin) /\ WF_vars(FirstPrepare) /\ WF_vars(CheckCertificates)
  /\ WF_vars(Enroll) /\ WF_vars(WriteKey) /\ WF_vars(Load) /\ WF_vars(Quit)

Spec == Init /\ [][Next]_vars /\ Fairness

-----------------------------------------------------------------------------
(* properties *)

\* The files that a running program has loaded are all there, and are of one set
\* unless an enrollment was cut short at some time after its first file.
OneSet ==
  phase = "running" =>
    /\ Missing \notin {ca, cert, key}
    /\ cut \/ (ca = cert /\ cert = key)

\* Except on Windows a start ends with an authority that is not about to expire,
\* whatever the files were like before.
StartsFresh ==
  [][platform # "windows" /\ phase' = "running" /\ phase # "running"
       => ca.state = "whole" /\ age = "valid"]_vars

\* However starts were cut short, the program runs in the end, unless that left
\* an authority that is cut short, which no start repairs (or the bound is spent).
StartsAgain == <>[](phase = "running" \/ ca.state = "partial"
                       \/ (phase = "asking" /\ sets = MaxSets))
=============================================================================
