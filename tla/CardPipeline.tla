----------------------------- MODULE CardPipeline -----------------------------
(***************************************************************************)
(* How a smart card becomes a session that can sign, and ceases to be one: *)
(* PCSCWatcher (pcsc/pcsc_watcher.ts), CardWatcher (pcsc/card_watcher.ts)  *)
(* and LocalProvider.onTokenInsert / onTokenRemove (provider.ts), from the *)
(* call of LocalProvider.open() on.                                        *)
(*                                                                         *)
(* The handlers are asynchronous functions with pauses of 200 ms and 1 s,  *)
(* of which any number run at a time: a task is one of them, and an action *)
(* one of its steps between two pauses, or a change in a reader with what  *)
(* it triggers at once.  Time is explicit and urgent: a pause that is over *)
(* goes on before more time passes.                                        *)
(*                                                                         *)
(* Nobody listens to the provider's 'error' event, so emitting it throws   *)
(* (Node's EventEmitter): that is what ends a loop or a handler early.     *)
(***************************************************************************)
EXTENDS Naturals, Sequences, FiniteSets, Functions

CONSTANTS
  Readers, Cards,
  NoCard,        \* an empty reader
  Libs,          \* PKCS#11 libraries
  NoLib,
  AtrOf,         \* the ATR of a card: that of its model
  LibsOf,        \* libraries that the card configuration lists for an ATR
  Served,        \* for a library, the ATRs of the tokens that it recognises
  Installed,     \* libraries whose file exists
  OpenSC,        \* the library of the option opensc, or NoLib
  Short, Long,   \* pauses of 200 ms and of 1 s
  MinStay,       \* the least time that a card stays in a reader
  MaxCardOps,    \* bound: cards put into readers and taken out
  MaxFaults      \* bound: devices that fail while their sessions are created

Atrs == DOMAIN LibsOf

ASSUME CardAssumption ==
  /\ NoCard \notin Cards /\ NoLib \notin Libs
  /\ AtrOf \in [Cards -> Atrs]
  /\ LibsOf \in [Atrs -> Seq(Libs) \ {<<>>}]
  /\ Served \in [Libs -> SUBSET Atrs]
  /\ Installed \subseteq Libs
  /\ OpenSC \in Installed \cup {NoLib}

ASSUME TimeAssumption ==
  {Short, Long, MaxCardOps} \subseteq Nat \ {0} /\ {MinStay, MaxFaults} \subseteq Nat

VARIABLES
  inReader,      \* the card in each reader (external)
  stay,          \* how much longer it stays at least
  listed,        \* CardWatcher.cards
  libs,          \* the arrays of libraries in CardConfig.cards
  cryptos,       \* LocalProvider.crypto: the providers by library and slot
  sessions,      \* LocalProvider.cardSessions, named by their provider
  orphans,       \* those whose provider failed after they were added
  renamed,       \* providers whose info.id is no longer their key in the map
  initialized,   \* libraries that are initialized (external)
  announced,     \* sessions at the last 'update-token'
  tasks,         \* handlers that are waiting
  cardOps, faults

providerVars == <<cryptos, sessions, orphans, renamed, initialized>>
readerVars == <<inReader, stay>>
vars == <<readerVars, listed, libs, providerVars, announced, tasks, cardOps, faults>>

Providers == [lib : Libs, reader : Readers, card : Cards]

\* A task waits for left units of time before its step at: the watcher's timer
\* before an insertion is reported, or the pause before a library is loaded,
\* initialized, or searched for removed providers, or before the announcement.
Tasks == [op : 1 .. MaxCardOps,
          at : {"report", "load", "init", "search", "announce"},
          reader : Readers, atr : Atrs, lib : Nat,
          found : SUBSET (Providers \X BOOLEAN), left : Nat]

TypeOK ==
  /\ inReader \in [Readers -> Cards \cup {NoCard}]
  /\ stay \in [Readers -> 0 .. MinStay]
  /\ listed \in SUBSET [reader : Readers, atr : Atrs]
  /\ libs \in [Atrs -> Seq(Libs)]
  /\ cryptos \in SUBSET Providers
  /\ sessions \in SUBSET Providers
  /\ orphans \in SUBSET sessions
  /\ renamed \in SUBSET Providers
  /\ initialized \in SUBSET Installed
  /\ announced \in SUBSET Providers
  /\ tasks \in SUBSET Tasks
  /\ \A t \in tasks : t.lib \in DOMAIN libs[t.atr] \/ t.at \in {"report", "announce"}
  /\ cardOps \in 0 .. MaxCardOps
  /\ faults \in 0 .. MaxFaults

Init ==
  /\ inReader = [r \in Readers |-> NoCard]
  /\ stay = [r \in Readers |-> 0]
  /\ listed = {}
  /\ libs = LibsOf
  /\ cryptos = {} /\ sessions = {} /\ orphans = {} /\ renamed = {}
  /\ initialized = {}
  /\ announced = {}
  /\ tasks = {}
  /\ cardOps = 0 /\ faults = 0

Pause(t, at, lib, left) == [t EXCEPT !.at = at, !.lib = lib, !.left = left]

Continue(t, u) == tasks' = (tasks \ {t}) \cup {u}
End(t) == tasks' = tasks \ {t}

-----------------------------------------------------------------------------
(* readers *)

\* The status of reader r shows a card: the watcher waits before it reports it.
CardEnters(r, c) ==
  /\ cardOps < MaxCardOps
  /\ inReader[r] = NoCard
  /\ \A q \in Readers : inReader[q] # c
  /\ cardOps' = cardOps + 1
  /\ inReader' = [inReader EXCEPT ![r] = c]
  /\ stay' = [stay EXCEPT ![r] = MinStay]
  /\ tasks' = tasks \cup {[op |-> cardOps + 1, at |-> "report", reader |-> r,
                           atr |-> AtrOf[c], lib |-> 0, found |-> {}, left |-> Long]}
  /\ UNCHANGED <<listed, libs, providerVars, announced, faults>>

\* The status of reader r is empty: the watcher reports the removal at once,
\* and onTokenRemove starts if the card was listed.
CardLeaves(r) ==
  LET gone == [reader |-> r, atr |-> AtrOf[inReader[r]]] IN
  /\ cardOps < MaxCardOps
  /\ inReader[r] # NoCard
  /\ stay[r] = 0
  /\ cardOps' = cardOps + 1
  /\ inReader' = [inReader EXCEPT ![r] = NoCard]
  /\ listed' = listed \ {gone}
  /\ tasks' = IF gone \in listed
              THEN tasks \cup {[op |-> cardOps + 1, at |-> "search", reader |-> r,
                                atr |-> gone.atr, lib |-> 1, found |-> {}, left |-> Long]}
              ELSE tasks
  /\ UNCHANGED <<stay, libs, providerVars, announced, faults>>

-----------------------------------------------------------------------------
(* onTokenInsert *)

\* Mutant: the loop ends with the first library.
NextLibraryFirst(t, i, list) ==
  IF i > 0 THEN Pause(t, "announce", 0, Short) ELSE Pause(t, "load", 1, Short)

\* The loop over the libraries goes on after the i-th: to the next whose file
\* exists, or out of the loop.
NextLibrary(t, i, list) ==
  LET later == {j \in DOMAIN list : j > i /\ list[j] \in Installed} IN
  IF later = {} THEN Pause(t, "announce", 0, Short)
  ELSE Pause(t, "load", CHOOSE j \in later : \A k \in later : j <= k, Short)

\* The watcher's timer: the card is listed, unless one of its model is, and
\* onTokenInsert starts.  With OpenSC, getCardObject appends its library to
\* the array of the configuration, and finalizes the library afterwards.
ReportCard(t) ==
  /\ t.at = "report"
  /\ listed' = IF \E x \in listed : x.atr = t.atr THEN listed
               ELSE listed \cup {[reader |-> t.reader, atr |-> t.atr]}
  /\ libs' = IF OpenSC = NoLib THEN libs
             ELSE [libs EXCEPT ![t.atr] = Append(@, OpenSC)]
  /\ initialized' = initialized \ {OpenSC}
  /\ Continue(t, NextLibrary(t, 0, libs'[t.atr]))
  /\ UNCHANGED <<readerVars, cryptos, sessions, orphans, renamed, announced, cardOps, faults>>

LoadLibrary(t) ==
  /\ t.at = "load"
  /\ Continue(t, Pause(t, "init", t.lib, Long))
  /\ UNCHANGED <<readerVars, listed, libs, providerVars, announced, cardOps, faults>>

\* Slots with a token that a library knows, and which no provider of it holds.
FreshProviders(lib) ==
  {p \in Providers : /\ p.lib = lib
                     /\ inReader[p.reader] = p.card
                     /\ AtrOf[p.card] \in Served[lib]
                     /\ \A q \in cryptos : <<q.lib, q.reader>> # <<lib, p.reader>>}

\* The library is initialized, and each fresh slot gets its sessions and then
\* its provider.  The loop ends here if there was any.  A device that fails
\* before or after its sessions were added ends the round over the slots, and
\* the next library is tried.
UseLibrary(t) ==
  LET lib == libs[t.atr][t.lib]
      fresh == FreshProviders(lib)
      next == NextLibrary(t, t.lib, libs[t.atr])
  IN
  /\ t.at = "init"
  /\ initialized' = initialized \cup {lib}
  /\ renamed' = renamed \ fresh
  /\ \/ /\ cryptos' = cryptos \cup fresh
        /\ sessions' = sessions \cup fresh
        /\ Continue(t, IF fresh = {} THEN next ELSE Pause(t, "announce", 0, Short))
        /\ UNCHANGED <<orphans, faults>>
     \/ /\ faults < MaxFaults
        /\ faults' = faults + 1
        /\ \E bad \in fresh, added \in BOOLEAN : \E done \in SUBSET (fresh \ {bad}) :
             LET orphan == IF added THEN {bad} ELSE {} IN
             /\ cryptos' = cryptos \cup done
             /\ sessions' = sessions \cup done \cup orphan
             /\ orphans' = orphans \cup orphan
        /\ Continue(t, next)
  /\ UNCHANGED <<readerVars, listed, libs, announced, cardOps>>

\* update-token carries the description of every session, read from its token:
\* an empty slot, or a library that was finalized, makes the handler throw.
\* The description is the provider's own info object (external), whose id is
\* overwritten, for the sessions before the throw too (their order is not kept).
Readable(ss, init) == \A p \in ss : p.lib \in init /\ inReader[p.reader] # NoCard

EmitUpdate(ss, init) ==
  \/ /\ Readable(ss, init)
     /\ announced' = ss
     /\ renamed' = renamed \cup ss
  \/ /\ ~ Readable(ss, init)
     /\ \E done \in SUBSET {p \in ss : Readable({p}, init)} : renamed' = renamed \cup done
     /\ UNCHANGED announced

Announce(t) ==
  /\ t.at = "announce"
  /\ EmitUpdate(sessions, initialized)
  /\ End(t)
  /\ UNCHANGED <<readerVars, listed, libs, cryptos, sessions, orphans, initialized,
                 cardOps, faults>>

-----------------------------------------------------------------------------
(* onTokenRemove *)

\* Libraries of the removed providers that are left without any.
LeftUnused(removed) ==
  {p.lib : p \in removed} \ {q.lib : q \in cryptos \ removed}

\* For every provider found, the sessions of every provider there is are dropped,
\* and then the provider is removed by the id it had when it was found: one that
\* was renamed before is not in the map by that name, and stays.
Keyed(found) == {x[1] : x \in {y \in found : ~ y[2]}}

Drop(found, dropped, init) ==
  /\ cryptos' = cryptos \ Keyed(found)
  /\ sessions' = sessions \ dropped
  /\ orphans' = orphans \ dropped
  /\ initialized' = init

\* Mutants: the providers go without their sessions; no update-token follows; a
\* library is finalized with the first of its providers.
DropProvidersOnly(found, init) ==
  /\ Drop(found, {}, init \ LeftUnused(Keyed(found) \cap cryptos))
  /\ EmitUpdate(sessions', initialized')
DropQuietly(found, init) ==
  /\ Drop(found, cryptos, init \ LeftUnused(Keyed(found) \cap cryptos))
  /\ UNCHANGED <<announced, renamed>>
DropEagerly(found, init) ==
  /\ Drop(found, cryptos, init \ {p.lib : p \in Keyed(found) \cap cryptos})
  /\ EmitUpdate(sessions', initialized')

DropAll(found, init) ==
  /\ Drop(found, cryptos, init \ LeftUnused(Keyed(found) \cap cryptos))
  /\ EmitUpdate(sessions', initialized')

\* The next library is searched, where all its providers are found, and the
\* handler goes on after the last.  A library that is not installed cannot be
\* loaded: the error that is emitted then ends the handler, as does the one
\* emitted when no provider was found at all.
SearchLibrary(t) ==
  LET lib == libs[t.atr][t.lib]
      found == t.found \cup {<<p, p \in renamed>> : p \in {q \in cryptos : q.lib = lib}}
      init == initialized \cup {lib}
      last == t.lib = Len(libs[t.atr])
  IN
  /\ t.at = "search"
  /\ \/ /\ lib \notin Installed
        /\ End(t)
        /\ UNCHANGED <<providerVars, announced>>
     \/ /\ lib \in Installed /\ ~ last
        /\ Continue(t, [Pause(t, "search", t.lib + 1, Long) EXCEPT !.found = found])
        /\ initialized' = init
        /\ UNCHANGED <<cryptos, sessions, orphans, renamed, announced>>
     \/ /\ lib \in Installed /\ last /\ found = {}
        /\ End(t)
        /\ initialized' = init
        /\ UNCHANGED <<cryptos, sessions, orphans, renamed, announced>>
     \/ /\ lib \in Installed /\ last /\ found # {}
        /\ End(t)
        /\ DropAll(found, init)
  /\ UNCHANGED <<readerVars, listed, libs, cardOps, faults>>

-----------------------------------------------------------------------------

Step(t) ==
  /\ t.left = 0
  /\ ReportCard(t) \/ LoadLibrary(t) \/ UseLibrary(t) \/ Announce(t) \/ SearchLibrary(t)

Tick ==
  /\ tasks # {} \/ \E r \in Readers : stay[r] > 0
  /\ \A t \in tasks : t.left > 0
  /\ tasks' = {[t EXCEPT !.left = @ - 1] : t \in tasks}
  /\ stay' = [r \in Readers |-> IF stay[r] = 0 THEN 0 ELSE stay[r] - 1]
  /\ UNCHANGED <<inReader, listed, libs, providerVars, announced, cardOps, faults>>

Next ==
  \/ \E r \in Readers : CardLeaves(r) \/ \E c \in Cards : CardEnters(r, c)
  \/ \E t \in tasks : Step(t)
  \/ Tick

\* Timers fire and time passes; nobody has to move a card.
Fairness == WF_vars(Tick \/ \E t \in tasks : Step(t))

Spec == Init /\ [][Next]_vars /\ Fairness

-----------------------------------------------------------------------------
(* properties *)

\* Every session can be dropped again: its provider is in the map, through which
\* onTokenRemove finds it, unless the provider failed to be added after it.
SessionsBacked == sessions \subseteq cryptos \cup orphans

\* A library with providers, other than OpenSC's, is initialized, although handlers
\* of other cards initialize and finalize it between the steps of this one.  OpenSC's
\* is not: getCardObject finalizes it under its providers whenever a card is reported.
OtherLibrariesReady == \A p \in cryptos : p.lib \in initialized \cup {OpenSC}

\* When all handlers are done, what was announced to the hub and the tray last is
\* what there is, unless there is a session whose token cannot be read (its card
\* is out, its provider failed, its library was finalized), which keeps every
\* update-token from being put together.
NothingUnannounced ==
  tasks = {} /\ orphans = {} /\ Readable(sessions, initialized) => announced = sessions

\* When all handlers are done, a card that was taken out is not offered for
\* signing any more.
NoStaleSessions ==
  tasks = {} => \A p \in sessions \ orphans : inReader[p.reader] = p.card

\* When all handlers are done, every card in a reader that one of its
\* libraries serves is offered for signing, unless its device failed, or its slot
\* is held by a provider that lost its sessions but was not found in the map when
\* they were dropped: a card that is put back is not offered before the next start.
Serving(c) == {l \in Installed \cap Range(LibsOf[AtrOf[c]]) : AtrOf[c] \in Served[l]}

NoLostCards ==
  tasks = {} /\ faults = 0 =>
    \A r \in Readers : inReader[r] # NoCard /\ Serving(inReader[r]) # {} =>
      \/ \E p \in sessions : p.reader = r /\ p.card = inReader[r]
      \/ \E p \in (cryptos \cap renamed) \ sessions :
           p.reader = r /\ p.lib \in Serving(inReader[r])

\* The removal of a token removes that token: no session of a card that is
\* still in its reader is dropped.
RemovalIsSelective ==
  [][\A p \in sessions \ sessions' : inReader[p.reader] # p.card]_vars

\* A card that stays out of its readers is offered no more some time later.
RemovalsLand ==
  \A c \in Cards :
    (\A r \in Readers : inReader[r] # c)
      ~> \/ \E r \in Readers : inReader[r] = c
         \/ \A p \in sessions \ orphans : p.card # c
=============================================================================
