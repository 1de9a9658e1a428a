---------------------------- MODULE WindowsProofs ----------------------------
(***************************************************************************)
(* Theorems about Windows, for any sets of dialogs and any bounds: types,  *)
(* the controller's references, the list of silenced dialogs and the       *)
(* answers of the key PIN and of questions.                                *)
(***************************************************************************)
EXTENDS Windows, TLAPS

-----------------------------------------------------------------------------
(* facts about single windows *)

\* A new window is one of Windows.
LEMMA WindowType ==
  ASSUME NEW kind \in {"preferences", "warning", "error", "question", "token", "keypin"},
         NEW id \in Silenceable \cup Plain \cup Tabs \cup {NoId}, NEW result \in BOOLEAN
  PROVE  /\ Window(kind, id, result) \in Windows
         /\ Window(kind, id, result).kind = kind /\ Window(kind, id, result).id = id
         /\ Window(kind, id, result).state = "open"
         /\ Window(kind, id, result).result = result /\ Window(kind, id, result).given = result
         /\ Window(kind, id, result).pressed = "nothing"
         /\ Window(kind, id, result).again = FALSE
  BY DEF Window, Windows

\* Telling a window to close changes its state alone, and it is still up.
LEMMA ClosingFacts ==
  ASSUME NEW x \in Windows
  PROVE  /\ Closing(x) \in Windows
         /\ Closing(x).kind = x.kind /\ Closing(x).id = x.id /\ Closing(x).result = x.result
         /\ Closing(x).again = x.again /\ Closing(x).pressed = x.pressed
         /\ Closing(x).answer = x.answer /\ Closing(x).given = x.given
         /\ x.state \in {"open", "closing"} <=> Closing(x).state \in {"open", "closing"}
         /\ x.state = "closed" <=> Closing(x).state = "closed"
         /\ x.state \in {"closed", "gone"} => Closing(x) = x
  BY DEF Closing, Windows

\* There are no other buttons than these two.
LEMMA ButtonsAre ==
  ASSUME NEW kind, NEW b \in Buttons(kind)
  PROVE  b \in {"approve", "reject"}
<1>1. Buttons(kind) \in {DialogLayout(kind \in {"question", "token"}), ModalLayout, {}}
  BY Zenon DEF Buttons
<1>2. DialogLayout(kind \in {"question", "token"}) \subseteq {"reject", "approve"}
  BY DEF DialogLayout
<1>3. ModalLayout \subseteq {"reject", "approve"}
  BY DEF ModalLayout
<1> QED BY <1>1, <1>2, <1>3, Zenon

\* What a button does to its window.
Pressed(x, b, ticked) ==
  IF x.kind = "keypin" THEN KeyPinPressed(x, b) ELSE MessagePressed(x, b, ticked)

LEMMA PressedFacts ==
  ASSUME NEW x \in Windows, NEW b \in {"approve", "reject"}, NEW ticked \in BOOLEAN,
         x.state \in {"open", "closing"}
  PROVE  LET y == Pressed(x, b, ticked) IN
         /\ y \in Windows /\ y.kind = x.kind
         /\ y.state \in {"open", "closing"}
         /\ y.pressed = b /\ y.given = x.given
         /\ x.kind = "keypin" => (y.result <=> b = "approve")
         /\ b = "approve" => y.result
         /\ y.id = x.id
         /\ y.again => x.again \/ x.id \in Silenceable
<1>1. /\ Closing(x) \in Windows /\ Closing(x).kind = x.kind
      /\ Closing(x).state \in {"open", "closing"}
      /\ Closing(x).id = x.id /\ Closing(x).again = x.again /\ Closing(x).given = x.given
  BY ClosingFacts
<1>2. CASE x.kind = "keypin"
  BY <1>1, <1>2 DEF Pressed, KeyPinPressed, Windows
<1>3. CASE x.kind # "keypin"
  <2>1. Pressed(x, b, ticked) =
          [Closing(x) EXCEPT !.pressed = b, !.result = Closing(x).result \/ b = "approve",
                             !.again = IF x.id \in Silenceable THEN ticked ELSE Closing(x).again]
    BY <1>1, <1>3 DEF Pressed, MessagePressed
  <2> DEFINE r == Closing(x).result \/ b = "approve"
             a == IF x.id \in Silenceable THEN ticked ELSE Closing(x).again
  <2>2. r \in BOOLEAN /\ (b = "approve" => r)
    OBVIOUS
  <2>3. a \in BOOLEAN /\ (a => x.again \/ x.id \in Silenceable)
    BY <1>1 DEF Windows
  <2>4. Pressed(x, b, ticked) = [Closing(x) EXCEPT !.pressed = b, !.result = r, !.again = a]
    BY <2>1
  <2> HIDE DEF r, a
  <2> DEFINE y == Pressed(x, b, ticked)
  <2>5. y \in Windows
    BY <1>1, <2>2, <2>3, <2>4 DEF Windows
  <2>6. /\ y.kind = Closing(x).kind /\ y.state = Closing(x).state /\ y.id = Closing(x).id
        /\ y.given = Closing(x).given /\ y.pressed = b /\ y.result = r /\ y.again = a
    BY <1>1, <2>4 DEF Windows
  <2> HIDE DEF y
  <2>7. /\ y \in Windows /\ y.kind = x.kind
        /\ y.state \in {"open", "closing"}
        /\ y.pressed = b /\ y.given = x.given
        /\ x.kind = "keypin" => (y.result <=> b = "approve")
        /\ b = "approve" => y.result
        /\ y.id = x.id
        /\ y.again => x.again \/ x.id \in Silenceable
    BY <1>1, <1>3, <2>2, <2>3, <2>5, <2>6
  <2> QED BY <2>7 DEF y
<1> QED BY <1>2, <1>3

-----------------------------------------------------------------------------
(* what a step can be *)

\* What a step may do to a window that is neither new, nor gone with the program,
\* nor closed by the step.
Changed(x, y) ==
  /\ y \in Windows /\ y.kind = x.kind /\ y.given = x.given
  /\ x.state \in {"open", "closing"} <=> y.state \in {"open", "closing"}
  /\ x.state = "closed" <=> y.state = "closed"
  /\ x.kind # "preferences" => y.id = x.id /\ (y.again => x.again \/ x.id \in Silenceable)
  /\ \/ y.result = x.result /\ y.pressed = x.pressed /\ y.answer = x.answer
     \/ /\ x.state \in {"open", "closing"}
        /\ y.pressed \in {"approve", "reject"}
        /\ x.kind = "keypin" => (y.result <=> y.pressed = "approve")
        /\ y.pressed = "approve" => y.result

\* A window is opened, a key PIN alone perhaps accepted, and remembered if its kind
\* has a reference.
Opens ==
  \E kind \in {"preferences", "warning", "error", "question", "token", "keypin"},
     id \in Silenceable \cup Plain \cup Tabs \cup {NoId}, result \in BOOLEAN :
    /\ Open(kind, id, result) /\ (result => kind = "keypin")
    /\ \/ kind \in {"token", "keypin"} /\ ref' = ref
       \/ /\ kind \in {"preferences", "error", "warning", "question"}
          /\ kind # "question" => ref[kind] = None
          /\ ref' = [ref EXCEPT ![kind] = Len(wins) + 1]
    /\ UNCHANGED <<dialogs, asked, crashes>>

\* The windows that are there change, each by itself.
Changes ==
  /\ wins' \in [DOMAIN wins -> Windows]
  /\ \A w \in DOMAIN wins : Changed(wins[w], wins'[w])
  /\ UNCHANGED <<ref, dialogs, asked, crashes>>

LEMMA Unchanged ==
  ASSUME NEW x \in Windows
  PROVE  Changed(x, x) /\ Changed(x, Closing(x))
<1>1. Changed(x, x)
  BY DEF Changed
<1>2. Changed(x, Closing(x))
  BY ClosingFacts DEF Changed
<1> QED BY <1>1, <1>2

LEMMA WinsAre ==
  ASSUME TypeOK
  PROVE  /\ DOMAIN wins = 1 .. Len(wins) /\ Len(wins) \in Nat
         /\ \A w \in DOMAIN wins : wins[w] \in Windows
         /\ wins \in [DOMAIN wins -> Windows]
  BY DEF TypeOK

LEMMA PressChanges ==
  ASSUME TypeOK, NEW w \in DOMAIN wins, Press(w)
  PROVE  Changes
<1> USE WinsAre
<1>1. PICK b \in Buttons(wins[w].kind), ticked \in BOOLEAN :
        wins' = [wins EXCEPT ![w] = Pressed(wins[w], b, ticked)]
  BY Zenon DEF Press, Pressed
<1>2. b \in {"approve", "reject"}
  BY ButtonsAre
<1>3. wins[w] \in Windows /\ wins[w].state \in {"open", "closing"}
  BY DEF Press, Up
<1>4. Changed(wins[w], Pressed(wins[w], b, ticked)) /\ Pressed(wins[w], b, ticked) \in Windows
  <2> DEFINE y == Pressed(wins[w], b, ticked)
  <2>1. /\ y \in Windows /\ y.kind = wins[w].kind
        /\ y.state \in {"open", "closing"}
        /\ y.pressed = b /\ y.given = wins[w].given
        /\ wins[w].kind = "keypin" => (y.result <=> b = "approve")
        /\ b = "approve" => y.result
        /\ y.id = wins[w].id
        /\ y.again => wins[w].again \/ wins[w].id \in Silenceable
    BY <1>2, <1>3, PressedFacts
  <2> HIDE DEF y
  <2>2. /\ y.state # "closed" /\ wins[w].state # "closed"
        /\ wins[w].kind = "keypin" => (y.result <=> y.pressed = "approve")
        /\ y.pressed = "approve" => y.result
    BY <1>3, <2>1, Zenon
  <2>3. Changed(wins[w], y)
    BY <1>2, <1>3, <2>1, <2>2, Zenon DEF Changed
  <2> QED BY <2>1, <2>3 DEF y
<1>5. wins' \in [DOMAIN wins -> Windows]
  BY <1>1, <1>4
<1>6. \A v \in DOMAIN wins : Changed(wins[v], wins'[v])
  BY <1>1, <1>4, Unchanged
<1> QED BY <1>5, <1>6 DEF Changes, Press

LEMMA CloseChanges ==
  ASSUME TypeOK, NEW w \in DOMAIN wins, CloseByDesktop(w)
  PROVE  Changes
<1> USE WinsAre
<1>1. wins' = [wins EXCEPT ![w] = Closing(wins[w])]
  BY DEF CloseByDesktop
<1>2. Closing(wins[w]) \in Windows
  BY ClosingFacts
<1>3. wins' \in [DOMAIN wins -> Windows]
  BY <1>1, <1>2
<1>4. \A v \in DOMAIN wins : Changed(wins[v], wins'[v])
  BY <1>1, Unchanged
<1> QED BY <1>3, <1>4 DEF Changes, CloseByDesktop

LEMMA PreferencesStep ==
  ASSUME TypeOK, RefsOpen, NEW tab \in Tabs, ShowPreferencesWindow(tab)
  PROVE  Opens \/ Changes
<1> USE WinsAre
<1>1. CASE ref["preferences"] = None
  BY <1>1 DEF ShowPreferencesWindow, Opens
<1>2. CASE ref["preferences"] # None
  <2> DEFINE p == ref["preferences"]  q == ref["question"]
             new(w) == IF w = p THEN [wins[w] EXCEPT !.id = tab]
                       ELSE IF w = q THEN Closing(wins[w]) ELSE wins[w]
  <2>1. wins' = [w \in DOMAIN wins |-> new(w)] /\ UNCHANGED <<ref, dialogs, asked, crashes>>
    BY <1>2, Zenon DEF ShowPreferencesWindow
  <2>2. ASSUME NEW w \in DOMAIN wins
        PROVE  Changed(wins[w], new(w))
    <3>1. wins[w] \in Windows
      OBVIOUS
    <3>2. w = p => wins[w].kind = "preferences"
      BY <1>2 DEF RefsOpen, TypeOK
    <3>3. w = p => Changed(wins[w], [wins[w] EXCEPT !.id = tab])
      BY <3>1, <3>2 DEF Changed, Windows
    <3> QED BY <3>1, <3>3, Unchanged
  <2>3. \A w \in DOMAIN wins : Changed(wins[w], wins'[w]) /\ wins'[w] \in Windows
    BY <2>1, <2>2, Zenon DEF Changed
  <2>4. wins' \in [DOMAIN wins -> Windows]
    BY <2>1, <2>3
  <2> QED BY <2>1, <2>3, <2>4 DEF Changes
<1> QED BY <1>1, <1>2

LEMMA NextIs ==
  ASSUME TypeOK, RefsOpen, Next
  PROVE  Opens \/ Changes \/ (\E w \in DOMAIN wins : Closed(w)) \/ End
<1>1. CASE ServerError \/ SslWarning
  BY <1>1 DEF ServerError, SslWarning, ShowWarningWindow, Opens, Silenceable
<1>2. CASE InitFails
  BY <1>2 DEF InitFails, ShowErrorWindow, Opens
<1>3. CASE TokenNew
  BY <1>3 DEF TokenNew, ShowTokenWindow, Opens, Silenceable
<1>4. CASE DevelopmentMenu
  <2>1. CASE ShowTokenWindow
    BY <2>1 DEF ShowTokenWindow, Opens, Silenceable
  <2>2. CASE ShowErrorWindow
    BY <2>2 DEF ShowErrorWindow, Opens
  <2>3. CASE ShowQuestionWindow
    BY <2>3 DEF ShowQuestionWindow, Opens
  <2>4. ASSUME NEW id \in Warnings \cup Plain, ShowWarningWindow(id) PROVE Opens
    BY <2>4 DEF ShowWarningWindow, Opens, Silenceable
  <2>5. CASE ShowKeyPinWindow(TRUE)
    BY <2>5 DEF ShowKeyPinWindow, Opens
  <2> QED BY <1>4, <2>1, <2>2, <2>3, <2>4, <2>5, Zenon DEF DevelopmentMenu
<1>5. CASE NotifyTwoKey
  BY <1>5 DEF NotifyTwoKey, ShowKeyPinWindow, Opens
<1>6. CASE TrayClick
  BY <1>6, PreferencesStep DEF TrayClick
<1>7. ASSUME NEW w \in DOMAIN wins, Press(w) \/ CloseByDesktop(w) \/ Closed(w)
      PROVE  Changes \/ Closed(w)
  BY <1>7, PressChanges, CloseChanges
<1> QED BY <1>1, <1>2, <1>3, <1>4, <1>5, <1>6, <1>7, Zenon DEF Next

-----------------------------------------------------------------------------
(* types *)

LEMMA InitType == Init => TypeOK
  BY WindowsAssumption DEF Init, TypeOK, None

\* What opening a window does to the list of them.
LEMMA OpenFacts ==
  ASSUME TypeOK,
         NEW kind \in {"preferences", "warning", "error", "question", "token", "keypin"},
         NEW id \in Silenceable \cup Plain \cup Tabs \cup {NoId}, NEW result \in BOOLEAN,
         Open(kind, id, result)
  PROVE  /\ wins' \in Seq(Windows) /\ Len(wins') = Len(wins) + 1 /\ Len(wins') <= MaxWindows
         /\ \A w \in DOMAIN wins : w \in DOMAIN wins' /\ wins'[w] = wins[w]
         /\ \A w \in DOMAIN wins' : w \in DOMAIN wins \/ w = Len(wins) + 1
         /\ Len(wins) + 1 \in DOMAIN wins' /\ Len(wins) + 1 \notin DOMAIN wins
         /\ wins'[Len(wins) + 1].kind = kind
         /\ wins'[Len(wins) + 1].state = "open"
         /\ wins'[Len(wins) + 1].result = result /\ wins'[Len(wins) + 1].given = result
         /\ wins'[Len(wins) + 1].pressed = "nothing"
         /\ ~wins'[Len(wins) + 1].again
<1> DEFINE new == Window(kind, id, result)
<1>1. /\ new \in Windows /\ new.kind = kind /\ new.state = "open"
      /\ new.result = result /\ new.given = result /\ new.pressed = "nothing" /\ ~new.again
  BY DEF Window, Windows
<1>2. Len(wins) < MaxWindows /\ wins' = Append(wins, new) /\ wins \in Seq(Windows)
  BY DEF Open, TypeOK
<1> HIDE DEF new
<1>3. /\ wins' \in Seq(Windows) /\ Len(wins') = Len(wins) + 1
      /\ \A w \in 1 .. Len(wins) : wins'[w] = wins[w]
      /\ wins'[Len(wins) + 1] = new
      /\ Len(wins) \in Nat /\ DOMAIN wins = 1 .. Len(wins) /\ DOMAIN wins' = 1 .. Len(wins')
  BY <1>1, <1>2
<1> QED BY <1>1, <1>2, <1>3, WindowsAssumption

\* What a step that only changes windows does to the list of them.
LEMMA ChangesFacts ==
  ASSUME TypeOK, wins' \in [DOMAIN wins -> Windows]
  PROVE  wins' \in Seq(Windows) /\ Len(wins') = Len(wins) /\ DOMAIN wins' = DOMAIN wins
<1>1. DOMAIN wins = 1 .. Len(wins) /\ Len(wins) \in Nat
  BY DEF TypeOK
<1> QED BY <1>1

LEMMA ClosedFacts ==
  ASSUME TypeOK, NEW w \in DOMAIN wins, Closed(w)
  PROVE  /\ wins' \in [DOMAIN wins -> Windows]
         /\ \A v \in DOMAIN wins : v # w => wins'[v] = wins[v]
         /\ wins'[w].kind = wins[w].kind /\ wins'[w].state = "closed"
         /\ wins'[w].pressed = wins[w].pressed /\ wins'[w].given = wins[w].given
         /\ wins'[w].id = wins[w].id /\ wins'[w].again = wins[w].again
         /\ wins'[w].answer = Answer(wins[w])
         /\ wins[w].state = "closing"
<1> USE WinsAre
<1>1. Answer(wins[w]) \in {"yes", "no"}
  BY Zenon DEF Answer
<1>2. /\ wins' = [wins EXCEPT ![w] = [wins[w] EXCEPT !.state = "closed",
                                                    !.answer = Answer(wins[w])]]
      /\ wins[w].state = "closing"
  BY DEF Closed
<1>3. [wins[w] EXCEPT !.state = "closed", !.answer = Answer(wins[w])] \in Windows
  BY <1>1 DEF Windows
<1>4. wins' \in [DOMAIN wins -> Windows]
  BY <1>2, <1>3
<1>5. wins[w] \in Windows
  OBVIOUS
<1> QED BY <1>2, <1>4, <1>5 DEF Windows

LEMMA EndFacts ==
  ASSUME TypeOK, End
  PROVE  /\ wins' \in [DOMAIN wins -> Windows]
         /\ \A w \in DOMAIN wins : wins'[w].state = "gone" /\ ~wins'[w].again
<1>1. Window("error", NoId, FALSE) \in Windows
  BY WindowType
<1>2. LET x == [Window("error", NoId, FALSE) EXCEPT !.state = "gone"] IN
      x \in Windows /\ x.state = "gone" /\ ~x.again
  BY <1>1 DEF Windows, Window
<1> QED BY <1>2 DEF End

\* Only a window of a dialog that may be silenced can silence it.
AsksItself ==
  \A w \in DOMAIN wins :
    wins[w].kind # "preferences" /\ wins[w].again => wins[w].id \in Silenceable

\* The list is extended with ids that may be silenced.
LEMMA DialogsType ==
  ASSUME TypeOK, NEW x \in Windows, OnDialogClose(x),
         x.kind # "preferences" /\ x.again => x.id \in Silenceable
  PROVE  dialogs' \in Seq(Silenceable) \cup {Torn} /\ asked' \in SUBSET Silenceable
<1>1. CASE Silences(x)
  <2> x.id \in Silenceable
    BY <1>1 DEF Silences
  <2>1. GetDialogs \in Seq(Silenceable)
    BY DEF GetDialogs, TypeOK
  <2>2. dialogs' = Append(GetDialogs, x.id) /\ asked' = asked \cup {x.id}
    BY <1>1, Zenon DEF OnDialogClose
  <2> QED BY <1>1, <2>1, <2>2 DEF TypeOK
<1>2. CASE ~Silences(x)
  BY <1>2, Zenon DEF OnDialogClose, TypeOK
<1> QED BY <1>1, <1>2

LEMMA NextType == TypeOK /\ RefsOpen /\ AsksItself /\ [Next]_vars => TypeOK'
<1> SUFFICES ASSUME TypeOK, RefsOpen, AsksItself, [Next]_vars PROVE TypeOK'
  OBVIOUS
<1>1. CASE Opens
  <2>1. PICK kind \in {"preferences", "warning", "error", "question", "token", "keypin"},
             id \in Silenceable \cup Plain \cup Tabs \cup {NoId}, result \in BOOLEAN :
          /\ Open(kind, id, result)
          /\ \/ ref' = ref
             \/ ref' = [ref EXCEPT ![kind] = Len(wins) + 1]
          /\ UNCHANGED <<dialogs, asked, crashes>>
    BY <1>1 DEF Opens
  <2>2. wins' \in Seq(Windows) /\ Len(wins') = Len(wins) + 1 /\ Len(wins') <= MaxWindows
    BY <2>1, OpenFacts
  <2>3. ref' \in [{"preferences", "error", "warning", "question"} -> 0 .. Len(wins')]
    BY <2>1, <2>2, WinsAre DEF TypeOK
  <2> QED BY <2>1, <2>2, <2>3 DEF TypeOK
<1>2. CASE Changes
  BY <1>2, ChangesFacts DEF Changes, TypeOK
<1>3. ASSUME NEW w \in DOMAIN wins, Closed(w) PROVE TypeOK'
  <2>1. wins' \in Seq(Windows) /\ Len(wins') = Len(wins)
    BY <1>3, ClosedFacts, ChangesFacts
  <2>2. ref' \in [{"preferences", "error", "warning", "question"} -> 0 .. Len(wins')]
    BY <1>3, <2>1, WinsAre DEF Closed, Forget, None, TypeOK
  <2>3. dialogs' \in Seq(Silenceable) \cup {Torn} /\ asked' \in SUBSET Silenceable
    BY <1>3, WinsAre, DialogsType DEF Closed, AsksItself
  <2> QED BY <1>3, <2>1, <2>2, <2>3 DEF Closed, TypeOK
<1>4. CASE End
  <2>1. wins' \in Seq(Windows) /\ Len(wins') = Len(wins)
    BY <1>4, EndFacts, ChangesFacts
  <2>2. ref' \in [{"preferences", "error", "warning", "question"} -> 0 .. Len(wins')]
    BY <1>4, <2>1, WinsAre DEF End, None, TypeOK
  <2>3. crashes' \in 0 .. MaxCrashes
    BY <1>4, WindowsAssumption DEF End, TypeOK
  <2> QED BY <1>4, <2>1, <2>2, <2>3 DEF End, TypeOK
<1>5. CASE UNCHANGED vars
  BY <1>5 DEF vars, TypeOK
<1> QED BY <1>1, <1>2, <1>3, <1>4, <1>5, NextIs

-----------------------------------------------------------------------------
(* the controller's references *)

\* A step that opens, changes or closes windows keeps the references right: the
\* one that a closing window deletes is its own, or that of another question.
LEMMA NextRefs == TypeOK /\ RefsOpen /\ [Next]_vars => RefsOpen'
<1> SUFFICES ASSUME TypeOK, RefsOpen, [Next]_vars PROVE RefsOpen'
  OBVIOUS
<1> USE WinsAre
<1>0. /\ DOMAIN ref = {"preferences", "error", "warning", "question"}
      /\ \A k \in DOMAIN ref : ref[k] # None => ref[k] \in DOMAIN wins
  BY DEF TypeOK, None
<1>1. CASE Opens
  <2>1. PICK kind \in {"preferences", "warning", "error", "question", "token", "keypin"},
             id \in Silenceable \cup Plain \cup Tabs \cup {NoId}, result \in BOOLEAN :
          /\ Open(kind, id, result)
          /\ \/ kind \in {"token", "keypin"} /\ ref' = ref
             \/ /\ kind \in {"preferences", "error", "warning", "question"}
                /\ kind # "question" => ref[kind] = None
                /\ ref' = [ref EXCEPT ![kind] = Len(wins) + 1]
    BY <1>1 DEF Opens
  <2>2. /\ \A w \in DOMAIN wins : w \in DOMAIN wins' /\ wins'[w] = wins[w]
        /\ \A w \in DOMAIN wins' : w \in DOMAIN wins \/ w = Len(wins) + 1
        /\ Len(wins) + 1 \in DOMAIN wins' /\ Len(wins) + 1 \notin DOMAIN wins
        /\ wins'[Len(wins) + 1].kind = kind
        /\ wins'[Len(wins) + 1].state = "open"
    BY <2>1, OpenFacts
  <2>3. CASE kind \in {"token", "keypin"} /\ ref' = ref
    BY <1>0, <2>2, <2>3 DEF RefsOpen, Up
  <2>4. CASE /\ kind \in {"preferences", "error", "warning", "question"}
             /\ kind # "question" => ref[kind] = None
             /\ ref' = [ref EXCEPT ![kind] = Len(wins) + 1]
    <3>1. \A k \in DOMAIN ref' :
            ref'[k] # None => wins'[ref'[k]].kind = k /\ Up(ref[k])'
      BY <1>0, <2>2, <2>4 DEF RefsOpen, Up
    <3>2. ASSUME NEW w \in DOMAIN wins',
                 Up(w)', wins'[w].kind \in {"preferences", "warning", "error"}
          PROVE  ref'[wins'[w].kind] = w
      <4>1. CASE w = Len(wins) + 1
        BY <1>0, <2>2, <2>4, <4>1
      <4>2. CASE w \in DOMAIN wins
        <5>1. Up(w) /\ ref[wins[w].kind] = w /\ wins'[w] = wins[w]
          BY <2>2, <3>2, <4>2 DEF RefsOpen, Up
        <5>2. wins[w].kind # kind
          BY <1>0, <2>4, <3>2, <4>2, <5>1 DEF None
        <5> QED BY <1>0, <2>4, <5>1, <5>2
      <4> QED BY <2>2, <4>1, <4>2
    <3> QED BY <3>1, <3>2 DEF RefsOpen
  <2> QED BY <2>1, <2>3, <2>4
<1>2. CASE Changes
  <2>1. /\ DOMAIN wins' = DOMAIN wins /\ ref' = ref
        /\ \A w \in DOMAIN wins : wins'[w].kind = wins[w].kind /\ (Up(w)' <=> Up(w))
    BY <1>2, ChangesFacts DEF Changes, Changed, Up
  <2> QED BY <1>0, <2>1 DEF RefsOpen
<1>3. ASSUME NEW w \in DOMAIN wins, Closed(w) PROVE RefsOpen'
  <2>1. /\ DOMAIN wins' = DOMAIN wins
        /\ \A v \in DOMAIN wins : v # w => wins'[v] = wins[v]
        /\ wins'[w].kind = wins[w].kind /\ wins'[w].state = "closed"
        /\ Up(w)
    BY <1>3, ClosedFacts, ChangesFacts DEF Up
  <2>2. /\ DOMAIN ref' = DOMAIN ref
        /\ \A k \in DOMAIN ref : ref'[k] = IF k = wins[w].kind THEN None ELSE ref[k]
    BY <1>0, <1>3, Zenon DEF Closed, Forget
  <2>3. \A k \in DOMAIN ref' :
          ref'[k] # None => wins'[ref'[k]].kind = k /\ Up(ref[k])'
    BY <1>0, <2>1, <2>2 DEF RefsOpen, Up
  <2>4. ASSUME NEW v \in DOMAIN wins',
               Up(v)', wins'[v].kind \in {"preferences", "warning", "error"}
        PROVE  ref'[wins'[v].kind] = v
    <3>1. v # w /\ Up(v) /\ wins'[v] = wins[v]
      BY <2>1, <2>4 DEF Up
    <3>2. ref[wins[v].kind] = v /\ wins[v].kind # wins[w].kind
      BY <2>1, <2>4, <3>1 DEF RefsOpen
    <3> QED BY <1>0, <2>2, <2>4, <3>1, <3>2
  <2> QED BY <2>3, <2>4 DEF RefsOpen
<1>4. CASE End
  <2>1. /\ DOMAIN wins' = DOMAIN wins
        /\ \A w \in DOMAIN wins : wins'[w].state = "gone"
        /\ \A k \in DOMAIN ref' : ref'[k] = None
    BY <1>4, EndFacts, ChangesFacts DEF End
  <2> QED BY <2>1 DEF RefsOpen, Up
<1>5. CASE UNCHANGED vars
  BY <1>5 DEF vars, RefsOpen, Up
<1> QED BY <1>1, <1>2, <1>3, <1>4, <1>5, NextIs

-----------------------------------------------------------------------------
(* the list of silenced dialogs *)

LEMMA NextAsks == TypeOK /\ RefsOpen /\ AsksItself /\ [Next]_vars => AsksItself'
<1> SUFFICES ASSUME TypeOK, RefsOpen, AsksItself, [Next]_vars PROVE AsksItself'
  OBVIOUS
<1> USE WinsAre
<1>1. CASE Opens
  <2>1. /\ \A w \in DOMAIN wins : wins'[w] = wins[w]
        /\ \A w \in DOMAIN wins' : w \in DOMAIN wins \/ ~wins'[w].again
    BY <1>1, OpenFacts DEF Opens
  <2> QED BY <2>1 DEF AsksItself
<1>2. CASE Changes
  BY <1>2, ChangesFacts DEF Changes, Changed, AsksItself
<1>3. ASSUME NEW w \in DOMAIN wins, Closed(w) PROVE AsksItself'
  <2>1. DOMAIN wins' = DOMAIN wins
    BY <1>3, ClosedFacts, ChangesFacts
  <2>2. \A v \in DOMAIN wins : /\ wins'[v].kind = wins[v].kind /\ wins'[v].id = wins[v].id
                               /\ wins'[v].again = wins[v].again
    BY <1>3, ClosedFacts
  <2> QED BY <2>1, <2>2 DEF AsksItself
<1>4. CASE End
  <2>1. DOMAIN wins' = DOMAIN wins
    BY <1>4, EndFacts, ChangesFacts
  <2>2. \A w \in DOMAIN wins : ~wins'[w].again
    BY <1>4, EndFacts
  <2> QED BY <2>1, <2>2 DEF AsksItself
<1>5. CASE UNCHANGED vars
  BY <1>5 DEF vars, AsksItself
<1> QED BY <1>1, <1>2, <1>3, <1>4, <1>5, NextIs

\* One that closes adds its dialog to both the file and the user's wishes, or to
\* neither.
LEMMA CloseSilences ==
  ASSUME TypeOK, SilencedAsAsked, NEW x \in Windows, OnDialogClose(x),
         x.kind # "preferences" /\ x.again => x.id \in Silenceable
  PROVE  SilencedAsAsked'
<1>1. CASE Silences(x)
  <2>1. dialogs' = Append(GetDialogs, x.id) /\ asked' = asked \cup {x.id}
    BY <1>1, Zenon DEF OnDialogClose
  <2>2. GetDialogs \in Seq(Silenceable) /\ {GetDialogs[i] : i \in DOMAIN GetDialogs} = asked
    BY DEF GetDialogs, TypeOK, SilencedAsAsked
  <2>3. x.id \in Silenceable
    BY <1>1 DEF Silences
  <2>4. /\ dialogs' \in Seq(Silenceable)
        /\ DOMAIN dialogs' = DOMAIN GetDialogs \cup {Len(GetDialogs) + 1}
        /\ \A i \in DOMAIN GetDialogs : dialogs'[i] = GetDialogs[i]
        /\ dialogs'[Len(GetDialogs) + 1] = x.id
    BY <2>1, <2>2, <2>3
  <2>5. dialogs' # Torn
    BY <2>4, WindowsAssumption DEF Silenceable
  <2>6. {dialogs'[i] : i \in DOMAIN dialogs'} = asked'
    BY <2>1, <2>2, <2>4
  <2> QED BY <2>5, <2>6 DEF SilencedAsAsked
<1>2. CASE ~Silences(x)
  <2>1. dialogs' = dialogs /\ asked' = asked
    BY <1>2, Zenon DEF OnDialogClose
  <2> QED BY <2>1 DEF SilencedAsAsked
<1> QED BY <1>1, <1>2

LEMMA NextSilenced ==
  TypeOK /\ RefsOpen /\ AsksItself /\ SilencedAsAsked /\ [Next]_vars => SilencedAsAsked'
<1> SUFFICES ASSUME TypeOK, RefsOpen, AsksItself, SilencedAsAsked, [Next]_vars
             PROVE  SilencedAsAsked'
  OBVIOUS
<1>1. CASE Opens \/ Changes \/ UNCHANGED vars
  BY <1>1 DEF Opens, Changes, vars, SilencedAsAsked
<1>2. ASSUME NEW w \in DOMAIN wins, Closed(w) PROVE SilencedAsAsked'
  BY <1>2, CloseSilences, WinsAre DEF Closed, AsksItself
<1>3. CASE End
  BY <1>3 DEF End, SilencedAsAsked
<1> QED BY <1>1, <1>2, <1>3, NextIs

-----------------------------------------------------------------------------
(* answers *)

\* A window that is up already holds the answer that it will be closed with.
AnswerInv ==
  \A w \in DOMAIN wins : Up(w) =>
    /\ wins[w].kind = "keypin" => (wins[w].result <=> Accepts(wins[w]))
    /\ wins[w].kind = "question" =>
         /\ wins[w].pressed = "approve" => wins[w].result
         /\ wins[w].pressed = "nothing" => ~wins[w].result

LEMMA NextAnswerInv == TypeOK /\ RefsOpen /\ AnswerInv /\ [Next]_vars => AnswerInv'
<1> SUFFICES ASSUME TypeOK, RefsOpen, AnswerInv, [Next]_vars PROVE AnswerInv'
  OBVIOUS
<1> USE WinsAre
<1>1. CASE Opens
  <2>1. /\ \A w \in DOMAIN wins : wins'[w] = wins[w]
        /\ \A w \in DOMAIN wins' :
             w \notin DOMAIN wins =>
               /\ wins'[w].pressed = "nothing" /\ wins'[w].result = wins'[w].given
               /\ wins'[w].kind # "keypin" => ~wins'[w].result
    BY <1>1, OpenFacts DEF Opens
  <2> QED BY <2>1 DEF AnswerInv, Accepts, Up
<1>2. CASE Changes
  <2>1. DOMAIN wins' = DOMAIN wins /\ \A w \in DOMAIN wins : Changed(wins[w], wins'[w])
    BY <1>2, ChangesFacts DEF Changes
  <2> SUFFICES ASSUME NEW w \in DOMAIN wins, Up(w)'
               PROVE  /\ wins'[w].kind = "keypin" =>
                           (wins'[w].result <=> Accepts(wins'[w]))
                      /\ wins'[w].kind = "question" =>
                           /\ wins'[w].pressed = "approve" => wins'[w].result
                           /\ wins'[w].pressed = "nothing" => ~wins'[w].result
    BY <2>1 DEF AnswerInv
  <2>2. Up(w) /\ wins'[w].kind = wins[w].kind
    BY <2>1 DEF Changed, Up
  <2>3. CASE wins'[w].result = wins[w].result /\ wins'[w].pressed = wins[w].pressed
    BY <2>1, <2>2, <2>3 DEF AnswerInv, Accepts, Changed
  <2>4. CASE /\ wins'[w].pressed \in {"approve", "reject"}
             /\ wins[w].kind = "keypin" => (wins'[w].result <=> wins'[w].pressed = "approve")
             /\ wins'[w].pressed = "approve" => wins'[w].result
    BY <2>2, <2>4 DEF Accepts
  <2> QED BY <2>1, <2>3, <2>4 DEF Changed
<1>3. ASSUME NEW w \in DOMAIN wins, Closed(w) PROVE AnswerInv'
  <2>1. /\ DOMAIN wins' = DOMAIN wins /\ wins'[w].state = "closed"
        /\ \A v \in DOMAIN wins : v # w => wins'[v] = wins[v]
    BY <1>3, ClosedFacts, ChangesFacts
  <2> QED BY <2>1 DEF AnswerInv, Up
<1>4. CASE End
  <2>1. DOMAIN wins' = DOMAIN wins /\ \A w \in DOMAIN wins : wins'[w].state = "gone"
    BY <1>4, EndFacts, ChangesFacts
  <2> QED BY <2>1 DEF AnswerInv, Up
<1>5. CASE UNCHANGED vars
  BY <1>5 DEF vars, AnswerInv, Up
<1> QED BY <1>1, <1>2, <1>3, <1>4, <1>5, NextIs

LEMMA NextAnswers ==
  TypeOK /\ RefsOpen /\ AnswerInv /\ AnswerIsTheUsers /\ [Next]_vars => AnswerIsTheUsers'
<1> SUFFICES ASSUME TypeOK, RefsOpen, AnswerInv, AnswerIsTheUsers, [Next]_vars
             PROVE  AnswerIsTheUsers'
  OBVIOUS
<1> USE WinsAre
<1>1. CASE Opens
  <2>1. /\ \A w \in DOMAIN wins : wins'[w] = wins[w]
        /\ \A w \in DOMAIN wins' : w \in DOMAIN wins \/ wins'[w].state = "open"
    BY <1>1, OpenFacts DEF Opens
  <2> QED BY <2>1 DEF AnswerIsTheUsers
<1>2. CASE Changes
  <2>1. DOMAIN wins' = DOMAIN wins
    BY <1>2, ChangesFacts DEF Changes
  <2>2. \A w \in DOMAIN wins : wins'[w].state = "closed" =>
          /\ wins[w].state = "closed" /\ wins'[w].kind = wins[w].kind
          /\ wins'[w].answer = wins[w].answer /\ wins'[w].pressed = wins[w].pressed
          /\ wins'[w].given = wins[w].given
    BY <1>2 DEF Changes, Changed
  <2> QED BY <2>1, <2>2 DEF AnswerIsTheUsers, Accepts
<1>3. ASSUME NEW w \in DOMAIN wins, Closed(w) PROVE AnswerIsTheUsers'
  <2>1. /\ DOMAIN wins' = DOMAIN wins
        /\ \A v \in DOMAIN wins : v # w => wins'[v] = wins[v]
    BY <1>3, ClosedFacts, ChangesFacts
  <2>2. /\ wins'[w].kind = wins[w].kind /\ wins'[w].pressed = wins[w].pressed
        /\ wins'[w].given = wins[w].given /\ wins'[w].answer = Answer(wins[w]) /\ Up(w)
    BY <1>3, ClosedFacts DEF Up
  <2>3. wins[w].kind # "token" => (wins'[w].answer = "yes" <=> wins[w].result)
                               /\ (wins'[w].answer = "no" <=> ~wins[w].result)
    BY <2>2 DEF Answer
  <2>4. /\ wins[w].kind = "keypin" =>
             (wins'[w].answer = "yes" <=> Accepts(wins'[w]))
        /\ wins[w].kind = "question" =>
             /\ wins'[w].pressed = "approve" => wins'[w].answer = "yes"
             /\ wins'[w].pressed = "nothing" => wins'[w].answer = "no"
    BY <2>2, <2>3 DEF AnswerInv, Accepts
  <2> QED BY <2>1, <2>2, <2>4 DEF AnswerIsTheUsers
<1>4. CASE End
  <2>1. DOMAIN wins' = DOMAIN wins /\ \A w \in DOMAIN wins : wins'[w].state = "gone"
    BY <1>4, EndFacts, ChangesFacts
  <2> QED BY <2>1 DEF AnswerIsTheUsers
<1>5. CASE UNCHANGED vars
  BY <1>5 DEF vars, AnswerIsTheUsers
<1> QED BY <1>1, <1>2, <1>3, <1>4, <1>5, NextIs

-----------------------------------------------------------------------------
(* the theorems *)

WindowsInv ==
  TypeOK /\ RefsOpen /\ AsksItself /\ SilencedAsAsked /\ AnswerInv /\ AnswerIsTheUsers

LEMMA InitInv == Init => WindowsInv
<1> SUFFICES ASSUME Init PROVE WindowsInv
  OBVIOUS
<1>1. TypeOK
  BY InitType
<1>2. wins = <<>> /\ DOMAIN wins = {} /\ dialogs = <<>> /\ DOMAIN dialogs = {} /\ asked = {}
  BY DEF Init
<1>3. RefsOpen
  BY <1>2 DEF Init, RefsOpen, None
<1>4. SilencedAsAsked
  BY <1>2, WindowsAssumption DEF SilencedAsAsked
<1> QED BY <1>1, <1>2, <1>3, <1>4 DEF WindowsInv, AsksItself, AnswerInv, AnswerIsTheUsers

LEMMA NextInv == WindowsInv /\ [Next]_vars => WindowsInv'
  BY NextType, NextRefs, NextAsks, NextSilenced, NextAnswerInv, NextAnswers, Zenon
     DEF WindowsInv

LEMMA InvHolds == Spec => []WindowsInv
  BY InitInv, NextInv, PTL DEF Spec

\* Every window, reference and list that the program can come to is one that the
\* model declares: TypeOK.
THEOREM TypeCorrect == Spec => []TypeOK
<1>1. WindowsInv => TypeOK
  BY DEF WindowsInv
<1> QED BY <1>1, InvHolds, PTL

\* WindowsController never uses a window that is gone, and never has two
\* preferences, warnings or errors: RefsOpen.
THEOREM RefsHold == Spec => []RefsOpen
<1>1. WindowsInv => RefsOpen
  BY DEF WindowsInv
<1> QED BY <1>1, InvHolds, PTL

\* dialogs.json loses no dialog that the user silenced and gains no other, in
\* whatever order windows close: SilencedAsAsked.
THEOREM SilencedHolds == Spec => []SilencedAsAsked
<1>1. WindowsInv => SilencedAsAsked
  BY DEF WindowsInv
<1> QED BY <1>1, InvHolds, PTL

\* A second key is accepted by the user's last word only, although a window that is
\* closing still takes keys, or stays as it was opened: AnswerIsTheUsers.
THEOREM AnswersAreTheUsers == Spec => []AnswerIsTheUsers
<1>1. WindowsInv => AnswerIsTheUsers
  BY DEF WindowsInv
<1> QED BY <1>1, InvHolds, PTL
=============================================================================
