------------------------------- MODULE Windows -------------------------------
(***************************************************************************)
(* The program's windows (main/windows/windows_controller.ts and           *)
(* browser_window.ts), those who open them (the events of Server.run and   *)
(* Server.init in main/server.ts, the tray's menu), what the user does in  *)
(* them (renderer/containers/message and key_pin, over WindowProvider),    *)
(* and dialogs.json, the list of dialogs that the user does not want to    *)
(* see again (dialogs_storage.ts).  The signature window is in             *)
(* SignatureFlow, what the preferences window shows in Preferences.        *)
(*                                                                         *)
(* Each show method returns a promise that settles with its window.  An    *)
(* action is one callback of the main process or of a window; a window     *)
(* that was told to close still takes keys until it is gone.               *)
(***************************************************************************)
EXTENDS Naturals, Sequences

CONSTANTS
  Warnings,      \* ids of warnings that the user may silence
  Plain,         \* ids of those that come every time (ssl.renew, ssl.install)
  TokenId,       \* 'question.new.token', which the user may silence too
  Tabs,          \* of the preferences, which the tray's menu opens
  NoId,
  Torn,          \* a dialogs.json that does not parse
  MaxWindows,    \* bound: windows opened
  MaxCrashes     \* bound: ends of the program

ASSUME WindowsAssumption ==
  /\ MaxWindows \in Nat \ {0} /\ MaxCrashes \in Nat
  /\ NoId \notin Warnings \cup Plain \cup Tabs \cup {TokenId}
  /\ (Warnings \cup {TokenId}) \cap (Plain \cup Tabs) = {}
  /\ Torn \notin Seq(Warnings \cup {TokenId})

VARIABLES
  wins,          \* every window opened, oldest first
  ref,           \* WindowsController.windows: the index of a window, or None
  dialogs,       \* dialogs.json
  asked,         \* the ids that the user has silenced since it was last lost
  crashes

vars == <<wins, ref, dialogs, asked, crashes>>

None == 0
Silenceable == Warnings \cup {TokenId}

\* result stands for params.result and for params.accept, again for
\* params.showAgainValue; given is the result that the window was opened with,
\* pressed the button that the user chose last.
Window(kind, id, result) ==
  [kind |-> kind, id |-> id, state |-> "open", given |-> result, result |-> result,
   again |-> FALSE, pressed |-> "nothing", answer |-> "pending"]

Windows ==
  [kind : {"preferences", "warning", "error", "question", "token", "keypin"},
   id : Silenceable \cup Plain \cup Tabs \cup {NoId},
   state : {"open", "closing", "closed", "gone"},
   given : BOOLEAN, result : BOOLEAN, again : BOOLEAN,
   pressed : {"nothing", "approve", "reject"},
   answer : {"pending", "yes", "no"}]

TypeOK ==
  /\ wins \in Seq(Windows) /\ Len(wins) <= MaxWindows
  /\ ref \in [{"preferences", "error", "warning", "question"} -> 0 .. Len(wins)]
  /\ dialogs \in Seq(Silenceable) \cup {Torn}
  /\ asked \in SUBSET Silenceable
  /\ crashes \in 0 .. MaxCrashes

Init ==
  /\ wins = <<>>
  /\ ref = [k \in {"preferences", "error", "warning", "question"} |-> None]
  /\ dialogs = <<>> /\ asked = {}
  /\ crashes = 0

Up(w) == wins[w].state \in {"open", "closing"}

-----------------------------------------------------------------------------
(* dialogs.json *)

\* getDialogs: no list is an empty one, and so is one that does not parse.
GetDialogs == IF dialogs = Torn THEN <<>> ELSE dialogs

HasDialog(id) == \E i \in DOMAIN GetDialogs : GetDialogs[i] = id

\* Whether onDialogClose saves something for a window, which only warnings,
\* questions and token windows ask it to.
Silences(x) ==
  /\ x.kind \in {"warning", "question", "token"}
  /\ x.id # NoId /\ x.again

\* Mutant: the list is replaced, not extended.
OnDialogCloseAlone(x) ==
  /\ dialogs' = IF Silences(x) THEN <<x.id>> ELSE dialogs
  /\ asked' = IF Silences(x) THEN asked \cup {x.id} ELSE asked

\* The list is read, extended and saved, whether it has the id or not.
OnDialogClose(x) ==
  /\ dialogs' = IF Silences(x) THEN Append(GetDialogs, x.id) ELSE dialogs
  /\ asked' = IF Silences(x) THEN asked \cup {x.id} ELSE asked

-----------------------------------------------------------------------------
(* opening *)

\* new BrowserWindow
Open(kind, id, result) ==
  /\ Len(wins) < MaxWindows
  /\ wins' = Append(wins, Window(kind, id, result))

\* Mutant: warnings do not look for one another.
ShowWarningWindowBeside(id) ==
  /\ ~(id \in Warnings /\ HasDialog(id))
  /\ Open("warning", id, FALSE)
  /\ ref' = [ref EXCEPT !["warning"] = Len(wins) + 1]
  /\ UNCHANGED <<dialogs, asked, crashes>>

\* showWarningWindow, unless it rejects a warning that was silenced or resolves
\* one at once, without a window, because another is up.
ShowWarningWindow(id) ==
  /\ ~(id \in Warnings /\ HasDialog(id))
  /\ ref["warning"] = None
  /\ Open("warning", id, FALSE)
  /\ ref' = [ref EXCEPT !["warning"] = Len(wins) + 1]
  /\ UNCHANGED <<dialogs, asked, crashes>>

\* The 'error' event of Server.run, for the codes that have a warning of their
\* own; and the warnings of the SSL service at start-up.
ServerError == \E id \in Warnings : ShowWarningWindow(id)
SslWarning == \E id \in Plain : ShowWarningWindow(id)

\* showErrorWindow: not while another error is up.
ShowErrorWindow ==
  /\ ref["error"] = None
  /\ Open("error", NoId, FALSE)
  /\ ref' = [ref EXCEPT !["error"] = Len(wins) + 1]
  /\ UNCHANGED <<dialogs, asked, crashes>>

\* Server.init, when the certificates cannot be made.
InitFails == ShowErrorWindow

\* showTokenWindow: as many as there are cards.
ShowTokenWindow ==
  /\ ~HasDialog(TokenId)
  /\ Open("token", TokenId, FALSE)
  /\ UNCHANGED <<ref, dialogs, asked, crashes>>

\* The event 'token_new' of Server.run.
TokenNew == ShowTokenWindow

\* showQuestionWindow (and showRejectWindow, which is the same): only the one
\* opened last is remembered.
ShowQuestionWindow ==
  /\ Open("question", NoId, FALSE)
  /\ ref' = [ref EXCEPT !["question"] = Len(wins) + 1]
  /\ UNCHANGED <<dialogs, asked, crashes>>

\* showKeyPinWindow
ShowKeyPinWindow(accept) ==
  /\ Open("keypin", NoId, accept)
  /\ UNCHANGED <<ref, dialogs, asked, crashes>>

\* The event 'notify' of type 2key of Server.run.
NotifyTwoKey == ShowKeyPinWindow(FALSE)

\* The developer's menu, which is the only one that asks questions, and whose key
\* PIN is opened as one that is accepted.
DevelopmentMenu ==
  \/ ShowTokenWindow \/ ShowErrorWindow \/ ShowQuestionWindow
  \/ \E id \in Warnings \cup Plain : ShowWarningWindow(id)
  \/ ShowKeyPinWindow(TRUE)

\* Mutant: close() leaves the window to the user.
ClosingLater(x) == x

\* window.close(), called by the main process or through remote.
Closing(x) == IF x.state = "open" THEN [x EXCEPT !.state = "closing"] ELSE x

\* showPreferencesWindow: the window that is there gets the new
\* tab, and the question that is remembered is closed.
ShowPreferencesWindow(tab) ==
  LET p == ref["preferences"]  q == ref["question"] IN
  /\ IF p = None
     THEN /\ Open("preferences", tab, FALSE)
          /\ ref' = [ref EXCEPT !["preferences"] = Len(wins) + 1]
     ELSE /\ wins' = [w \in DOMAIN wins |->
                        IF w = p THEN [wins[w] EXCEPT !.id = tab]
                        ELSE IF w = q THEN Closing(wins[w]) ELSE wins[w]]
          /\ UNCHANGED ref
  /\ UNCHANGED <<dialogs, asked, crashes>>

\* The entries of the tray's menu that open the preferences; that of the
\* requests is disabled.
TrayClick == \E tab \in Tabs : ShowPreferencesWindow(tab)

-----------------------------------------------------------------------------
(* the user in a window *)

\* The layouts: a dialog has a button to approve if it is given a handler for
\* it, the key PIN's modal has both buttons.
DialogLayout(approvable) == {"reject"} \cup (IF approvable THEN {"approve"} ELSE {})
ModalLayout == {"reject", "approve"}

\* The buttons of a window, and the keys Enter and Esc that stand for them; the
\* preferences are only closed by the desktop.
Buttons(kind) ==
  CASE kind \in {"warning", "error", "question", "token"} ->
         DialogLayout(kind \in {"question", "token"})
    [] kind = "keypin" -> ModalLayout
    [] OTHER -> {}

\* onApprove and onClose of the messages: they note an approval, and the box
\* that is shown if the dialog may be silenced, and close the window.
MessagePressed(x, b, ticked) ==
  [Closing(x) EXCEPT
     !.pressed = b,
     !.result = @ \/ b = "approve",
     !.again = IF x.id \in Silenceable THEN ticked ELSE @]

\* Mutant: onReject of the key PIN only closes, like that of the messages.
KeyPinPressedLenient(x, b) ==
  [Closing(x) EXCEPT !.pressed = b, !.result = @ \/ b = "approve"]

\* onApprove and onReject of the key PIN: they note which it was.
KeyPinPressed(x, b) ==
  [Closing(x) EXCEPT !.pressed = b, !.result = b = "approve"]

Press(w) ==
  /\ Up(w)
  /\ \E b \in Buttons(wins[w].kind), ticked \in BOOLEAN :
       wins' = [wins EXCEPT ![w] = IF @.kind = "keypin" THEN KeyPinPressed(@, b)
                                   ELSE MessagePressed(@, b, ticked)]
  /\ UNCHANGED <<ref, dialogs, asked, crashes>>

\* The desktop's close button: no answer is noted.
CloseByDesktop(w) ==
  /\ wins[w].state = "open"
  /\ wins' = [wins EXCEPT ![w] = Closing(@)]
  /\ UNCHANGED <<ref, dialogs, asked, crashes>>

\* A window deletes the reference of its kind, the question's too, whichever
\* question that is.
Forget(kind) ==
  IF kind \in DOMAIN ref THEN [ref EXCEPT ![kind] = None] ELSE ref

\* The value that a promise resolves with: the parameters that the window has
\* written, but for the token's, whose own copy of them nobody writes.
Answer(x) == IF x.result /\ x.kind # "token" THEN "yes" ELSE "no"

\* 'closed', and onClosed of the window.
Closed(w) ==
  /\ wins[w].state = "closing"
  /\ wins' = [wins EXCEPT ![w].state = "closed", ![w].answer = Answer(wins[w])]
  /\ ref' = Forget(wins[w].kind)
  /\ OnDialogClose(wins[w])
  /\ UNCHANGED crashes

-----------------------------------------------------------------------------
(* the program ends and is started again *)

\* At any time, or while dialogs.json is being written: the list is then lost.
\* The windows of the past are all alike.
End ==
  /\ crashes < MaxCrashes
  /\ crashes' = crashes + 1
  /\ wins' = [w \in DOMAIN wins |-> [Window("error", NoId, FALSE) EXCEPT !.state = "gone"]]
  /\ ref' = [k \in DOMAIN ref |-> None]
  /\ \/ UNCHANGED <<dialogs, asked>>
     \/ /\ \E w \in DOMAIN wins : wins[w].state = "closing" /\ Silences(wins[w])
        /\ dialogs' = Torn /\ asked' = {}

Next ==
  \/ ServerError \/ SslWarning \/ InitFails \/ TokenNew \/ DevelopmentMenu \/ NotifyTwoKey
  \/ TrayClick
  \/ \E w \in DOMAIN wins : Press(w) \/ CloseByDesktop(w) \/ Closed(w)
  \/ End

\* A window that was told to close is gone some time; the user owes nothing.
Fairness == \A w \in 1 .. MaxWindows : WF_vars(w \in DOMAIN wins /\ Closed(w))

Spec == Init /\ [][Next]_vars /\ Fairness

-----------------------------------------------------------------------------
(* properties *)

\* A reference denotes a window of its kind that is up: focus(), setParams() and
\* close() are never called on one that is gone, although a question deletes the
\* reference of another.  And there are no two preferences, warnings or errors.
RefsOpen ==
  /\ \A k \in DOMAIN ref : ref[k] # None => wins[ref[k]].kind = k /\ Up(ref[k])
  /\ \A w \in DOMAIN wins :
       Up(w) /\ wins[w].kind \in {"preferences", "warning", "error"} =>
         ref[wins[w].kind] = w

\* dialogs.json lists exactly what the user has silenced since it was last cut
\* short: no window that closes later, and none of the same id, undoes another's.
SilencedAsAsked ==
  /\ dialogs # Torn => {dialogs[i] : i \in DOMAIN dialogs} = asked
  /\ dialogs = Torn => asked = {}

\* What the user has said of a key PIN: nothing leaves it as it was opened.
Accepts(x) == x.pressed = "approve" \/ (x.pressed = "nothing" /\ x.given)

\* A second key is accepted exactly when the user's last word was to approve.  Who
\* says nothing leaves it as it was opened: not accepted, but for the developer's
\* menu.  A question is answered with yes only by somebody who pressed a button.
AnswerIsTheUsers ==
  \A w \in DOMAIN wins : wins[w].state = "closed" =>
    /\ wins[w].kind = "keypin" => (wins[w].answer = "yes" <=> Accepts(wins[w]))
    /\ wins[w].kind = "question" =>
         /\ wins[w].pressed = "approve" => wins[w].answer = "yes"
         /\ wins[w].pressed = "nothing" => wins[w].answer = "no"

\* Whoever waits for a window that the user has answered is told.
Waiting(w) ==
  /\ w \in DOMAIN wins
  /\ wins[w].pressed # "nothing" /\ wins[w].answer = "pending" /\ wins[w].state # "gone"
AnswersArrive == \A w \in 1 .. MaxWindows : Waiting(w) ~> ~Waiting(w)
=============================================================================
