---------------------------- MODULE StartupProofs ----------------------------
(***************************************************************************)
(* Theorems about Startup, for any platforms and any bounds, and so for    *)
(* any number of starts that are cut short: the certificates of a program  *)
(* that runs.                                                              *)
(***************************************************************************)
EXTENDS Startup, TLAPS

LEMMA FilesAre ==
  ASSUME NEW n \in Nat, NEW f \in Files(n)
  PROVE  \/ f = Missing /\ f.state = "missing"
         \/ f \in Damaged /\ f.state \in {"empty", "partial"}
         \/ f.state = "whole"
  BY DEF Files, Damaged, Missing, File

LEMMA FilesGrow ==
  ASSUME NEW n \in Nat, NEW i \in 0 .. n
  PROVE  /\ File("whole", i) \in Files(n) /\ File("whole", i) # Missing
         /\ File("whole", i).state = "whole"
         /\ Missing \in Files(n) /\ Damaged \subseteq Files(n) /\ Missing \notin Damaged
  BY DEF Files, Damaged, Missing, File

-----------------------------------------------------------------------------
(* types *)

LEMMA InitType == Init => TypeOK
<1>1. Missing \in Files(MaxSets) /\ Missing \in Files(MaxVersion)
  BY DEF Files
<1>2. 1 \in 0 .. MaxVersion /\ 0 \in 0 .. MaxSets /\ 0 \in 0 .. MaxCrashes
  BY StartupAssumption
<1> QED BY <1>1, <1>2 DEF Init, TypeOK

LEMMA PrepareType ==
  ASSUME TypeOK, PrepareCardJson
  PROVE  cards' \in Files(MaxVersion)
<1>1. MaxVersion \in Nat /\ published \in 0 .. MaxVersion /\ 0 \in 0 .. MaxVersion
  BY StartupAssumption DEF TypeOK
<1> QED BY <1>1, FilesGrow DEF PrepareCardJson, TypeOK

LEMMA NextType == TypeOK /\ [Next]_vars => TypeOK'
<1> SUFFICES ASSUME TypeOK, [Next]_vars PROVE TypeOK'
  OBVIOUS
<1> USE StartupAssumption
<1>1. CASE Begin \/ CheckCertificates \/ Quit \/ Ages \/ Publish
  BY <1>1 DEF Begin, CheckCertificates, Quit, Ages, Publish, TypeOK, sslVars
<1>2. CASE FirstPrepare \/ Load
  BY <1>2, PrepareType DEF FirstPrepare, Load, TypeOK, sslVars
<1>3. CASE Enroll
  <2>1. sets + 1 \in 0 .. MaxSets /\ MaxSets \in Nat
    BY <1>3 DEF Enroll, TypeOK
  <2> QED BY <1>3, <2>1, FilesGrow DEF Enroll, TypeOK
<1>4. CASE WriteKey
  BY <1>4, FilesGrow DEF WriteKey, TypeOK
<1>5. CASE Crash
  <2>1. crashes' \in 0 .. MaxCrashes /\ phase' = "off" /\ UNCHANGED <<platform, published>>
    BY <1>5 DEF Crash, TypeOK
  <2>2. CASE UNCHANGED <<sslVars, cards>>
    BY <2>1, <2>2 DEF TypeOK, sslVars
  <2>3. ASSUME NEW f \in {"ca", "cert", "key", "card.json"}, DamageOf(f)
        PROVE  TypeOK'
    <3>1. Damaged \subseteq Files(MaxSets) /\ Damaged \subseteq Files(MaxVersion)
      BY FilesGrow
    <3>2. sets < MaxSets => File("whole", sets + 1) \in Files(MaxSets) /\ sets + 1 \in 0 .. MaxSets
      BY FilesGrow DEF TypeOK
    <3> QED BY <2>1, <2>3, <3>1, <3>2 DEF DamageOf, TypeOK, sslVars
  <2> QED BY <1>5, <2>2, <2>3 DEF Crash
<1>6. CASE UNCHANGED vars
  BY <1>6 DEF vars, sslVars, TypeOK
<1> QED BY <1>1, <1>2, <1>3, <1>4, <1>5, <1>6 DEF Next

-----------------------------------------------------------------------------
(* the certificates *)

\* Files of different sets are there only after an enrollment was cut short; a
\* start that has got to the key has the other two; one that has got past the
\* certificates has all three, and, except on Windows, a good authority.
FilesInv ==
  /\ cut \/ (ca = cert /\ cert = key)
  /\ phase = "exporting" =>
       cut /\ ca = File("whole", sets) /\ cert = File("whole", sets) /\ age = "valid"
  /\ phase \in {"loading", "running"} => Missing \notin {ca, cert, key}
  /\ phase = "loading" /\ platform # "windows" => ca.state = "whole" /\ age = "valid"

LEMMA StatusFacts ==
  ASSUME TypeOK
  PROVE  /\ CaCertStatus \notin {"none"} => Missing \notin {ca, cert, key}
         /\ CaCertStatus = "valid" => ca.state = "whole" /\ age = "valid"
<1>1. MaxSets \in Nat /\ ca \in Files(MaxSets) /\ age \in {"valid", "renew", "expired"}
  BY StartupAssumption DEF TypeOK
<1>2. \/ ca = Missing /\ ca.state = "missing"
      \/ ca.state \in {"empty", "partial"}
      \/ ca.state = "whole"
  BY <1>1, FilesAre
<1> QED BY <1>1, <1>2 DEF CaCertStatus

LEMMA NextFiles == TypeOK /\ FilesInv /\ [Next]_vars => FilesInv'
<1> SUFFICES ASSUME TypeOK, FilesInv, [Next]_vars PROVE FilesInv'
  OBVIOUS
<1>0. MaxSets \in Nat /\ sets \in 0 .. MaxSets
  BY StartupAssumption DEF TypeOK
<1>1. CASE Begin \/ FirstPrepare \/ Quit \/ Publish \/ Ages \/ Load
  BY <1>1 DEF Begin, FirstPrepare, Quit, Publish, Ages, Load, FilesInv, sslVars
<1>2. CASE CheckCertificates
  BY <1>2, StatusFacts DEF CheckCertificates, FilesInv, sslVars
<1>3. CASE Enroll
  BY <1>3 DEF Enroll, FilesInv
<1>4. CASE WriteKey
  <2>1. File("whole", sets) # Missing /\ File("whole", sets).state = "whole"
    BY <1>0, FilesGrow
  <2> QED BY <1>4, <2>1 DEF WriteKey, FilesInv
<1>5. CASE Crash
  <2>1. phase' = "off" /\ (cut' \/ (ca' = cert' /\ cert' = key'))
    <3>1. CASE UNCHANGED <<sslVars, cards>>
      BY <1>5, <3>1 DEF Crash, FilesInv, sslVars
    <3>2. ASSUME NEW f \in {"ca", "cert", "key", "card.json"}, DamageOf(f)
          PROVE  cut' \/ (ca' = cert' /\ cert' = key')
      BY <3>2 DEF DamageOf, FilesInv, sslVars
    <3> QED BY <1>5, <3>1, <3>2 DEF Crash
  <2> QED BY <2>1 DEF FilesInv
<1>6. CASE UNCHANGED vars
  BY <1>6 DEF vars, sslVars, FilesInv
<1> QED BY <1>1, <1>2, <1>3, <1>4, <1>5, <1>6 DEF Next

-----------------------------------------------------------------------------
(* the theorems *)

StartupInv == TypeOK /\ FilesInv

LEMMA InvHolds == Spec => []StartupInv
<1>1. Init => StartupInv
  BY InitType DEF Init, StartupInv, FilesInv
<1>2. StartupInv /\ [Next]_vars => StartupInv'
  BY NextType, NextFiles DEF StartupInv
<1> QED BY <1>1, <1>2, PTL DEF Spec

\* Files, dates and versions stay within what the model declares: TypeOK.
THEOREM TypeCorrect == Spec => []TypeOK
<1>1. StartupInv => TypeOK
  BY DEF StartupInv
<1> QED BY <1>1, InvHolds, PTL

\* After Server.init all three certificate files are there, and are of one set
\* unless an enrollment was cut short: OneSet.
THEOREM OneSetHolds == Spec => []OneSet
<1>1. StartupInv => OneSet
  BY DEF StartupInv, FilesInv, OneSet
<1> QED BY <1>1, InvHolds, PTL

\* However starts were cut short before, one that comes to its end has an authority
\* that is whole and not about to expire, except on Windows: StartsFresh.
THEOREM StartsAreFresh == Spec => StartsFresh
<1>1. StartupInv /\ [Next]_vars =>
        [platform # "windows" /\ phase' = "running" /\ phase # "running"
           => ca.state = "whole" /\ age = "valid"]_vars
  <2> SUFFICES ASSUME StartupInv, Next, platform # "windows", phase' = "running",
                      phase # "running"
               PROVE  ca.state = "whole" /\ age = "valid"
    OBVIOUS
  <2>1. phase = "loading"
    BY DEF Next, Begin, FirstPrepare, CheckCertificates, Enroll, WriteKey, Load, Quit, Crash,
       Ages, Publish
  <2> QED BY <2>1 DEF StartupInv, FilesInv
<1> QED BY <1>1, InvHolds, PTL DEF Spec, StartsFresh
=============================================================================
