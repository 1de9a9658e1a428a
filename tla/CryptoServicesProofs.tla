------------------------ MODULE CryptoServicesProofs ------------------------
(***************************************************************************)
(* Theorems about CryptoServices, for any tokens, any number of requests   *)
(* under way at a time and any bounds: types, the names of the memory      *)
(* storage, the keys that are stored in software, and logins.              *)
(***************************************************************************)
EXTENDS CryptoServices, FiniteSetTheorems, TLAPS

-----------------------------------------------------------------------------
(* requests *)

\* What a message does to the other variables than logins and sessions.
Asks(r) ==
  /\ asked < MaxRequests /\ asked' = asked + 1
  /\ req[r].at = "idle"
  /\ UNCHANGED <<present, inserts, cryptos, renamed, storeVars, historyVars>>

Starts(r) ==
  \E t \in Tokens, at \in {"crypto", "prompt"}, type \in {"key", "x509"}, k \in Numbers,
     work \in {"answer", "make", "pair", "get", "import", "login"}, token \in BOOLEAN :
    /\ cryptos[t] # 0
    /\ req' = [req EXCEPT ![r] = Work(t, at, work, type, k, token)]

\* Logins and sessions that are new: of a provider that has, or gets, a session.
Logs ==
  /\ open \subseteq open' /\ open' \subseteq open \cup present
  /\ loggedIn' \subseteq loggedIn \cup open

LEMMA CallFacts ==
  ASSUME NEW r, NEW t \in Tokens, NEW names, NEW type \in {"key", "x509"},
         NEW work \in {"answer", "make", "pair", "get", "import", "login"},
         NEW k \in Numbers, NEW token \in BOOLEAN,
         Receive(r), Call(r, t, names, work, type, k, token)
  PROVE  Asks(r) /\ (Starts(r) \/ Answer(r)) /\ Logs
<1>1. Asks(r) /\ Logs
  BY DEF Call, Receive, Asks, Logs, tokenVars
<1>2. CASE Answer(r)
  BY <1>1, <1>2
<1>3. CASE Found(t, names) /\ req' = [req EXCEPT ![r] = Work(t, "crypto", work, type, k, token)]
  BY <1>1, <1>3 DEF Starts, Found
<1> QED BY <1>2, <1>3 DEF Call

LEMMA CallWithFacts ==
  ASSUME NEW r, NEW names, \A i \in names : i.token \in Tokens, 0 \in Numbers,
         Receive(r), CallWith(r, names)
  PROVE  Asks(r) /\ (Starts(r) \/ Answer(r)) /\ Logs
  BY CallFacts DEF CallWith

LEMMA KnownTokens ==
  ASSUME TypeOK
  PROVE  \A i \in Keys \cup Certs : i.token \in Tokens
  BY DEF TypeOK, Keys, Certs, Known, Names

LEMMA IndexedNumbers ==
  ASSUME TypeOK, NEW t, NEW type \in {"key", "x509"}, NEW k \in Indexed(t, type)
  PROVE  k \in Numbers
<1>1. 0 \in Numbers
  BY BoundAssumption DEF Numbers
<1>2. \A h \in told : h.item.is \in Numbers
  BY DEF TypeOK, Items
<1> QED BY <1>1, <1>2 DEF TypeOK, Indexed

\* A message is answered at once, or starts the work of a provider in the map.
LEMMA MessageFacts ==
  ASSUME TypeOK, NEW r, Message(r)
  PROVE  Asks(r) /\ (Starts(r) \/ Answer(r)) /\ Logs
<1> DEFINE Goal == Asks(r) /\ (Starts(r) \/ Answer(r)) /\ Logs
<1>0. 0 \in Numbers /\ Receive(r)
  BY BoundAssumption DEF Numbers, Message
<1>1. ASSUME Digest(r) PROVE Goal
  BY <1>0, <1>1, CallFacts DEF Digest
<1>2. ASSUME CallWith(r, Keys) \/ CallWith(r, Certs) PROVE Goal
  BY <1>0, <1>2, CallWithFacts, KnownTokens
<1>3. ASSUME DeriveBits(r) PROVE Goal
  BY <1>0, <1>3, CallFacts, KnownTokens DEF DeriveBits
<1>4. ASSUME GenerateKey(r) \/ ImportKey(r) \/ ImportCert(r) PROVE Goal
  BY <1>0, <1>4, CallFacts DEF GenerateKey, ImportKey, ImportCert
<1>5. ASSUME DeriveKey(r) \/ UnwrapKey(r) PROVE Goal
  BY <1>0, <1>5, CallFacts, KnownTokens DEF DeriveKey, UnwrapKey
<1>6. ASSUME GetKey(r) \/ GetCert(r) PROVE Goal
  BY <1>0, <1>6, CallFacts, IndexedNumbers DEF GetKey, GetCert, Get
<1>7. ASSUME GetCRL(r) \/ IsLoggedIn(r) \/ Logout(r) PROVE Goal
  BY <1>0, <1>7 DEF GetCRL, IsLoggedIn, Logout, Receive, Asks, Logs, tokenVars, storeVars
<1>8. ASSUME Reset(r) PROVE Goal
  BY <1>0, <1>8 DEF Reset, Receive, Asks, Logs
<1>9. ASSUME NEW t \in Tokens, Found(t, {}), t \in present,
             req' = [req EXCEPT ![r] = Work(t, "prompt", "login", "key", 0, FALSE)]
      PROVE  Starts(r)
  BY <1>0, <1>9 DEF Starts, Found
<1>10. ASSUME Login(r) PROVE Goal
  BY <1>0, <1>9, <1>10 DEF Login, Receive, Asks, Logs, tokenVars
<1> QED
  BY <1>1, <1>2, <1>3, <1>4, <1>5, <1>6, <1>7, <1>8, <1>10, Zenon
     DEF Message, UseKey, WrapKey, ExportKey, SetKey, RemoveKey, ListKeys, ClearKeys,
         GetValue, SetCert, RemoveCert, UseCert, ListCerts, ClearCerts, GetChain
-----------------------------------------------------------------------------
(* counting *)

\* Requests that are under way, and those of them that may yet make something.
Pending == {r \in Requests : req[r].at # "idle"}
Making == {r \in Requests : req[r].at = "crypto"}

\* A request makes at most two objects, and takes at most two numbers of a counter.
CountInv ==
  /\ IsFiniteSet(Pending) /\ Cardinality(Pending) <= asked
  /\ made + 2 * Cardinality(Making) <= 2 * asked
  /\ \A t \in Tokens : \A i \in DOMAIN osslID[t] :
       osslID[t][i] + 2 * Cardinality(Pending) <= 2 * asked

\* Every object that a provider ever had has its counter, also that which a request
\* has got before it was replaced.
ObjectInv ==
  /\ \A t \in Tokens : Len(osslID[t]) <= inserts
  /\ \A r \in Pending : req[r].of \in DOMAIN osslID[req[r].t]

TypeInv == TypeOK /\ CountInv /\ ObjectInv

LEMMA Sets ==
  ASSUME IsFiniteSet(Pending)
  PROVE  /\ IsFiniteSet(Making)
         /\ Cardinality(Making) \in Nat /\ Cardinality(Pending) \in Nat
  BY FS_Subset, FS_CardinalityType DEF Making, Pending

LEMMA Removed ==
  ASSUME NEW S, IsFiniteSet(S), NEW x
  PROVE  /\ IsFiniteSet(S \ {x}) /\ Cardinality(S) \in Nat
         /\ Cardinality(S \ {x}) = Cardinality(S) - (IF x \in S THEN 1 ELSE 0)
  BY FS_RemoveElement, FS_CardinalityType

LEMMA Added ==
  ASSUME NEW S, IsFiniteSet(S), NEW x, x \notin S
  PROVE  /\ IsFiniteSet(S \cup {x}) /\ Cardinality(S) \in Nat
         /\ Cardinality(S \cup {x}) = Cardinality(S) + 1
  BY FS_AddElement, FS_CardinalityType

\* The request is answered.
LEMMA Answered ==
  ASSUME TypeInv, NEW r \in Pending, Answer(r)
  PROVE  /\ req' \in [Requests -> Busy \cup {Idle}]
         /\ IsFiniteSet(Pending') /\ Pending' = Pending \ {r}
         /\ Cardinality(Pending') + 1 = Cardinality(Pending)
         /\ Cardinality(Making') = Cardinality(Making) - (IF r \in Making THEN 1 ELSE 0)
         /\ \A q \in Pending' : req'[q] = req[q]
<1>1. req \in [Requests -> Busy \cup {Idle}] /\ r \in Requests
  BY DEF TypeInv, TypeOK, Pending
<1>2. req' = [req EXCEPT ![r] = Idle] /\ Idle.at = "idle"
  BY DEF Answer, Idle
<1>3. Pending' = Pending \ {r} /\ Making' = Making \ {r}
  BY <1>1, <1>2 DEF Pending, Making
<1>4. IsFiniteSet(Pending) /\ IsFiniteSet(Making)
      /\ Cardinality(Making) \in Nat /\ Cardinality(Pending) \in Nat
  BY Sets DEF TypeInv, CountInv
<1>5. IsFiniteSet(Pending') /\ Cardinality(Pending') = Cardinality(Pending) - 1
  BY <1>3, <1>4, Removed
<1>6. Cardinality(Making') = Cardinality(Making) - (IF r \in Making THEN 1 ELSE 0)
  BY <1>3, <1>4, Removed
<1>7. \A q \in Pending' : req'[q] = req[q]
  BY <1>1, <1>2, <1>3 DEF Pending
<1> QED BY <1>1, <1>2, <1>3, <1>4, <1>5, <1>6, <1>7

\* The request waits for the software store.
LEMMA Waits ==
  ASSUME TypeInv, NEW r \in Pending, NEW at \in {"digest", "reload"}, NEW k \in Numbers,
         NEW read \in SUBSET Numbers, Wait(r, at, k, read)
  PROVE  /\ req' \in [Requests -> Busy \cup {Idle}] /\ Pending' = Pending
         /\ Cardinality(Making') = Cardinality(Making) - (IF r \in Making THEN 1 ELSE 0)
         /\ \A q \in Pending \ {r} : req'[q] = req[q]
         /\ req'[r].at = at /\ req'[r].k = k /\ req'[r].read = read
         /\ req'[r].of = req[r].of /\ req'[r].t = req[r].t /\ req'[r].type = req[r].type
<1>1. req \in [Requests -> Busy \cup {Idle}] /\ r \in Requests /\ req[r] \in Busy
  BY DEF TypeInv, TypeOK, Pending, Idle
<1> DEFINE w == [req[r] EXCEPT !.at = at, !.k = k, !.read = read]
<1>2. req' = [req EXCEPT ![r] = w]
  BY DEF Wait
<1>3. /\ w \in Busy /\ w.at = at /\ w.k = k /\ w.read = read
      /\ w.of = req[r].of /\ w.t = req[r].t /\ w.type = req[r].type
  BY <1>1 DEF Busy
<1> HIDE DEF w
<1>4. Pending' = Pending /\ Making' = Making \ {r}
  BY <1>1, <1>2, <1>3 DEF Pending, Making
<1>5. Cardinality(Making') = Cardinality(Making) - (IF r \in Making THEN 1 ELSE 0)
  BY <1>4, Sets, Removed DEF TypeInv, CountInv
<1> QED BY <1>1, <1>2, <1>3, <1>4, <1>5 DEF w, Pending

\* The request starts the work of a provider in the map.
LEMMA Started ==
  ASSUME TypeInv, NEW r \in Requests, Asks(r), Starts(r)
  PROVE  /\ req' \in [Requests -> Busy \cup {Idle}]
         /\ IsFiniteSet(Pending') /\ Pending' = Pending \cup {r}
         /\ Cardinality(Pending') = Cardinality(Pending) + 1
         /\ Cardinality(Making') <= Cardinality(Making) + 1
         /\ \A q \in Pending : req'[q] = req[q]
         /\ req'[r].of \in DOMAIN osslID[req'[r].t] /\ req'[r].at \in {"crypto", "prompt"}
<1>1. req \in [Requests -> Busy \cup {Idle}]
  BY DEF TypeInv, TypeOK
<1>2. PICK t \in Tokens, at \in {"crypto", "prompt"}, type \in {"key", "x509"}, k \in Numbers,
           work \in {"answer", "make", "pair", "get", "import", "login"}, token \in BOOLEAN :
        cryptos[t] # 0 /\ req' = [req EXCEPT ![r] = Work(t, at, work, type, k, token)]
  BY DEF Starts
<1> DEFINE w == Work(t, at, work, type, k, token)
<1>3. cryptos[t] \in 1 .. MaxInserts /\ cryptos[t] \in DOMAIN osslID[t] /\ k \in Numbers
  BY <1>2, BoundAssumption DEF TypeInv, TypeOK, Numbers
<1>4. w \in Busy /\ w.at = at /\ w.of = cryptos[t] /\ w.t = t
  BY <1>3 DEF Work, Busy
<1> HIDE DEF w
<1>5. Pending' = Pending \cup {r} /\ r \notin Pending /\ Making' \in {Making, Making \cup {r}}
  BY <1>1, <1>2, <1>4 DEF Pending, Making, Asks, w
<1>6. IsFiniteSet(Pending) /\ IsFiniteSet(Making) /\ r \notin Making
  BY <1>5, Sets DEF TypeInv, CountInv, Making, Pending
<1>8. IsFiniteSet(Pending') /\ Cardinality(Pending') = Cardinality(Pending) + 1
  BY <1>5, <1>6, Added
<1>9. Cardinality(Making) \in Nat /\ Cardinality(Making \cup {r}) = Cardinality(Making) + 1
  BY <1>6, Added
<1>10. Cardinality(Making') <= Cardinality(Making) + 1
  <2>1. CASE Making' = Making
    BY <1>9, <2>1
  <2>2. CASE Making' = Making \cup {r}
    BY <1>9, <2>2
  <2> QED BY <1>5, <2>1, <2>2
<1>7. \A q \in Pending : req'[q] = req[q]
  BY <1>1, <1>2, <1>5 DEF Pending
<1> QED BY <1>1, <1>2, <1>3, <1>4, <1>5, <1>7, <1>8, <1>10 DEF w
-----------------------------------------------------------------------------
(* items *)

\* What is added to the memory storage: items of the provider's object that the
\* request has got, under names of their own or the next number of its counter,
\* unless that is garbled.
NewItems(r, new) ==
  \A i \in DOMAIN new :
    /\ i \in Names /\ new[i] \in Items
    /\ i.token = req[r].t /\ new[i].of = req[r].of
    /\ i.type \notin {"soft", "garbled"} => new[i].is = i.n
    /\ i.type = "soft" => i.n = osslID[i.token][new[i].of] + Taken(r)

NoneSoft(new) == \A i \in DOMAIN new : i.type \notin {"soft", "garbled"}

LEMMA BusyFacts ==
  ASSUME TypeInv, NEW r \in Pending
  PROVE  /\ r \in Requests /\ req[r] \in Busy
         /\ req[r].t \in Tokens /\ req[r].of \in 1 .. MaxInserts
         /\ req[r].k \in Numbers /\ req[r].read \in SUBSET Numbers
         /\ req[r].of \in DOMAIN osslID[req[r].t] /\ osslID[req[r].t] \in Seq(Nat)
<1>1. r \in Requests /\ req[r] \in Busy
  BY DEF TypeInv, TypeOK, Pending, Idle
<1> QED BY <1>1 DEF TypeInv, TypeOK, ObjectInv, Busy

LEMMA OwnFacts ==
  ASSUME TypeInv, NEW r \in Pending, NEW type \in {"key", "x509"}, NEW k \in Numbers
  PROVE  NewItems(r, OwnItems(r, type, k)) /\ NoneSoft(OwnItems(r, type, k))
<1>1. req[r].t \in Tokens /\ Item(r, k) \in Items /\ Item(r, k).of = req[r].of /\ Item(r, k).is = k
  BY BusyFacts DEF Item, Items
<1>2. ASSUME NEW name \in {"key", "public", "x509"}
      PROVE  LET i == Own(req[r].t, name, k) IN
             i \in Names /\ i.token = req[r].t /\ i.n = k /\ i.type \notin {"soft", "garbled"}
  BY <1>1 DEF Own, Names
<1>3. \A i \in DOMAIN OwnItems(r, type, k) :
        /\ OwnItems(r, type, k)[i] = Item(r, k)
        /\ \E name \in {"key", "public", "x509"} : i = Own(req[r].t, name, k)
  BY DEF OwnItems
<1> QED BY <1>1, <1>2, <1>3 DEF NewItems, NoneSoft

LEMMA OverFacts ==
  ASSUME NEW r, NEW f, NEW g, NewItems(r, f), NewItems(r, g), NoneSoft(f), NoneSoft(g)
  PROVE  NewItems(r, Over(f, g)) /\ NoneSoft(Over(f, g))
<1>1. /\ DOMAIN Over(f, g) = DOMAIN f \cup DOMAIN g
      /\ \A i \in DOMAIN Over(f, g) :
           Over(f, g)[i] = IF i \in DOMAIN f THEN f[i] ELSE g[i]
  BY DEF Over
<1> HIDE DEF Over
<1> QED BY <1>1 DEF NewItems, NoneSoft

\* The counter of a request's object has two numbers left for it.
LEMMA CounterFacts ==
  ASSUME TypeInv, NEW r \in Pending
  PROVE  LET n == osslID[req[r].t][req[r].of] + Taken(r) IN
         /\ Taken(r) \in {1, 2} /\ n \in Numbers
         /\ n + 2 * (Cardinality(Pending) - 1) <= 2 * asked
<1> DEFINE c == osslID[req[r].t][req[r].of]
<1>1. c \in Nat /\ c + 2 * Cardinality(Pending) <= 2 * asked
  BY BusyFacts DEF TypeInv, CountInv
<1>2. Cardinality(Pending) \in Nat /\ Cardinality(Pending \ {r}) \in Nat
      /\ Cardinality(Pending \ {r}) = Cardinality(Pending) - 1
  BY Sets, Removed DEF TypeInv, CountInv
<1>3. Taken(r) \in {1, 2}
  BY DEF Taken
<1>4. asked \in Nat /\ MaxRequests \in Nat /\ asked <= MaxRequests
  BY BoundAssumption DEF TypeInv, TypeOK
<1> HIDE DEF c
<1>5. c + Taken(r) + 2 * (Cardinality(Pending) - 1) <= 2 * asked /\ c + Taken(r) \in Numbers
  BY <1>1, <1>2, <1>3, <1>4 DEF Numbers
<1> QED BY <1>3, <1>5 DEF c

LEMMA NextByte ==
  ASSUME NEW n \in Nat
  PROVE  n \div Byte \in 0 .. n
  BY ByteAssumption, SMTT(30)

\* A name in software is of the token, and if it is not garbled of this number.
LEMMA SoftName ==
  ASSUME NEW t \in Tokens, NEW n \in Numbers
  PROVE  LET i == Soft(t, n) IN
         /\ i \in Names /\ i.token = t
         /\ \/ i.type = "soft" /\ i.n = n
            \/ i.type = "garbled"
<1>1. n \in Nat /\ MaxRequests \in Nat
  BY BoundAssumption DEF Numbers
<1>2. n \div Byte \in Numbers
  BY <1>1, NextByte DEF Numbers
<1> DEFINE other == n \div Byte
<1>3. other \in Numbers
  BY <1>2
<1>4. Soft(t, n) \in {[token |-> t, type |-> "soft", n |-> n],
                      [token |-> t, type |-> "garbled", n |-> other]}
  BY DEF Soft
<1> HIDE DEF other
<1> QED BY <1>3, <1>4 DEF Names

LEMMA SoftFacts ==
  ASSUME TypeInv, NEW r \in Pending, NEW type \in {"key", "x509"}, NEW k \in Numbers
  PROVE  NewItems(r, SoftItems(r, type, k))
<1> DEFINE n == osslID[req[r].t][req[r].of] + Taken(r)
<1>1. req[r].t \in Tokens /\ Item(r, k) \in Items /\ Item(r, k).of = req[r].of /\ Item(r, k).is = k
  BY BusyFacts DEF Item, Items
<1>2. n \in Numbers
  BY CounterFacts
<1>3. \A i \in DOMAIN SoftItems(r, type, k) :
        /\ SoftItems(r, type, k)[i] = Item(r, k)
        /\ i = Soft(req[r].t, n) \/ i = Own(req[r].t, "x509", k)
  BY DEF SoftItems
<1> HIDE DEF n
<1>4. LET i == Soft(req[r].t, n) IN
      /\ i \in Names /\ i.token = req[r].t
      /\ (i.type = "soft" /\ i.n = n) \/ i.type = "garbled"
  BY <1>1, <1>2, SoftName
<1>5. LET i == Own(req[r].t, "x509", k) IN
      i \in Names /\ i.token = req[r].t /\ i.n = k /\ i.type = "x509"
  BY <1>1 DEF Own, Names
<1>6. ASSUME NEW i \in DOMAIN SoftItems(r, type, k)
      PROVE  /\ i \in Names /\ SoftItems(r, type, k)[i] \in Items
             /\ i.token = req[r].t /\ SoftItems(r, type, k)[i].of = req[r].of
             /\ i.type \notin {"soft", "garbled"} => SoftItems(r, type, k)[i].is = i.n
             /\ i.type = "soft" => i.n = n
  BY <1>1, <1>3, <1>4, <1>5
<1> QED BY <1>6 DEF NewItems, n

LEMMA TellTypes ==
  ASSUME TypeOK, NEW r, NEW new, NewItems(r, new), Tell(r, new)
  PROVE  /\ DOMAIN memory' \subseteq Names /\ \A i \in DOMAIN memory' : memory'[i] \in Items
         /\ told' \in SUBSET [name : Names, item : Items]
         /\ Answer(r)
<1>1. /\ DOMAIN memory' = DOMAIN new \cup DOMAIN memory
      /\ \A i \in DOMAIN memory' : memory'[i] = IF i \in DOMAIN new THEN new[i] ELSE memory[i]
  BY DEF Tell, Over
<1>2. told' = told \cup {[name |-> i, item |-> new[i]] : i \in DOMAIN new} /\ Answer(r)
  BY DEF Tell
<1> QED BY <1>1, <1>2 DEF TypeOK, NewItems

\* The counter of the answered request's object goes on.
LEMMA CountTypes ==
  ASSUME TypeInv, NEW r \in Pending, Answer(r), CountID(r)
  PROVE  /\ osslID' \in [Tokens -> Seq(Nat)]
         /\ \A t \in Tokens : /\ Len(osslID'[t]) = Len(osslID[t])
                             /\ DOMAIN osslID'[t] = DOMAIN osslID[t]
         /\ \A t \in Tokens : \A i \in DOMAIN osslID'[t] :
              /\ osslID'[t][i] >= osslID[t][i]
              /\ osslID'[t][i] + 2 * Cardinality(Pending') <= 2 * asked
         /\ osslID'[req[r].t][req[r].of] = osslID[req[r].t][req[r].of] + Taken(r)
<1> DEFINE c == osslID[req[r].t][req[r].of]
<1>1. /\ req[r].t \in Tokens /\ req[r].of \in DOMAIN osslID[req[r].t]
      /\ osslID \in [Tokens -> Seq(Nat)]
  BY BusyFacts DEF TypeInv, TypeOK
<1>2. osslID' = [osslID EXCEPT ![req[r].t] = [osslID[req[r].t] EXCEPT ![req[r].of] = c + Taken(r)]]
  BY DEF CountID
<1>3. Taken(r) \in {1, 2} /\ c + Taken(r) + 2 * (Cardinality(Pending) - 1) <= 2 * asked
  BY CounterFacts
<1>4. Cardinality(Pending) - 1 = Cardinality(Pending') /\ Cardinality(Pending) \in Nat
      /\ Cardinality(Pending') \in Nat
  BY Answered, Sets, FS_CardinalityType DEF TypeInv, CountInv
<1>5. \A t \in Tokens : \A i \in DOMAIN osslID[t] :
        osslID[t][i] + 2 * Cardinality(Pending) <= 2 * asked
  BY DEF TypeInv, CountInv
<1>6. asked \in Nat /\ c \in Nat
  BY <1>1 DEF TypeInv, TypeOK
<1> HIDE DEF c
<1>7. ASSUME NEW t \in Tokens
      PROVE  /\ osslID'[t] \in Seq(Nat)
             /\ Len(osslID'[t]) = Len(osslID[t]) /\ DOMAIN osslID'[t] = DOMAIN osslID[t]
             /\ \A i \in DOMAIN osslID'[t] :
                  \/ osslID'[t][i] = osslID[t][i]
                  \/ t = req[r].t /\ i = req[r].of /\ osslID'[t][i] = c + Taken(r)
  <2>1. osslID[t] \in Seq(Nat) /\ c + Taken(r) \in Nat
    BY <1>1, <1>3, <1>6
  <2>2. CASE t # req[r].t
    BY <1>1, <1>2, <2>2
  <2>3. CASE t = req[r].t
    BY <1>1, <1>2, <2>1, <2>3
  <2> QED BY <2>2, <2>3
<1>8. osslID'[req[r].t][req[r].of] = c + Taken(r)
  BY <1>1, <1>2
<1>9. osslID' \in [Tokens -> Seq(Nat)]
  BY <1>1, <1>2, <1>7
<1>10. ASSUME NEW t \in Tokens, NEW i \in DOMAIN osslID'[t]
       PROVE  /\ osslID'[t][i] >= osslID[t][i]
              /\ osslID'[t][i] + 2 * Cardinality(Pending') <= 2 * asked
  <2>1. osslID[t] \in Seq(Nat) /\ i \in DOMAIN osslID[t] /\ osslID[t][i] \in Nat
    BY <1>1, <1>7
  <2>2. osslID[t][i] + 2 * Cardinality(Pending) <= 2 * asked
    BY <1>5, <2>1
  <2>3. CASE osslID'[t][i] = osslID[t][i]
    BY <1>4, <1>6, <2>1, <2>2, <2>3
  <2>4. CASE osslID'[t][i] = c + Taken(r) /\ osslID[t][i] = c
    BY <1>3, <1>4, <1>6, <2>1, <2>4
  <2> QED BY <1>7, <2>3, <2>4 DEF c
<1> QED BY <1>7, <1>8, <1>9, <1>10 DEF c
-----------------------------------------------------------------------------
(* types *)

\* The types of what requests do not change, and of what they do.
TokenTypes ==
  /\ present \in SUBSET Tokens /\ open \in SUBSET present
  /\ inserts \in 0 .. MaxInserts
  /\ cryptos \in [Tokens -> 0 .. MaxInserts]
  /\ renamed \in SUBSET {t \in Tokens : cryptos[t] > 0}
  /\ loggedIn \in SUBSET Tokens

StoreTypes ==
  /\ DOMAIN memory \subseteq Names /\ \A i \in DOMAIN memory : memory[i] \in Items
  /\ files \in [{"key", "x509"} -> SUBSET Numbers]
  /\ told \in SUBSET [name : Names, item : Items]
  /\ kept \in SUBSET Numbers /\ raced \in SUBSET Numbers

RequestTypes ==
  /\ osslID \in [Tokens -> Seq(Nat)]
  /\ \A t \in Tokens : cryptos[t] <= Len(osslID[t])
  /\ req \in [Requests -> Busy \cup {Idle}]
  /\ asked \in 0 .. MaxRequests /\ made \in Numbers

LEMMA TypeParts ==
  /\ TypeOK <=> TokenTypes /\ StoreTypes /\ RequestTypes
  /\ TypeOK' <=> TokenTypes' /\ StoreTypes' /\ RequestTypes'
  BY DEF TypeOK, TokenTypes, StoreTypes, RequestTypes

\* A request that is answered has made at most two objects since it was at its
\* provider.
LEMMA AnswerKeeps ==
  ASSUME TypeInv, NEW r \in Pending, Answer(r), UNCHANGED <<cryptos, inserts, asked>>,
         UNCHANGED osslID \/ CountID(r), made' \in Nat,
         made' <= made + 2 * (IF r \in Making THEN 1 ELSE 0)
  PROVE  RequestTypes' /\ CountInv' /\ ObjectInv'
<1>1. /\ req' \in [Requests -> Busy \cup {Idle}]
      /\ IsFiniteSet(Pending') /\ Pending' = Pending \ {r}
      /\ Cardinality(Pending') + 1 = Cardinality(Pending)
      /\ Cardinality(Making') = Cardinality(Making) - (IF r \in Making THEN 1 ELSE 0)
      /\ \A q \in Pending' : req'[q] = req[q]
  BY Answered
<1>2. /\ osslID' \in [Tokens -> Seq(Nat)]
      /\ \A t \in Tokens : Len(osslID'[t]) = Len(osslID[t]) /\ DOMAIN osslID'[t] = DOMAIN osslID[t]
      /\ \A t \in Tokens : \A i \in DOMAIN osslID'[t] :
           osslID'[t][i] + 2 * Cardinality(Pending') <= 2 * asked
  <2>1. CASE CountID(r)
    BY <2>1, CountTypes
  <2>2. CASE UNCHANGED osslID
    <3>1. osslID \in [Tokens -> Seq(Nat)] /\ asked \in Nat
      BY DEF TypeInv, TypeOK
    <3>2. ASSUME NEW t \in Tokens, NEW i \in DOMAIN osslID[t]
          PROVE  osslID[t][i] + 2 * Cardinality(Pending') <= 2 * asked
      <4>1. osslID[t][i] + 2 * Cardinality(Pending) <= 2 * asked /\ osslID[t][i] \in Nat
        BY <3>1 DEF TypeInv, CountInv
      <4>2. Cardinality(Pending') \in Nat
        BY <1>1, FS_CardinalityType
      <4> QED BY <1>1, <3>1, <4>1, <4>2
    <3> QED BY <2>2, <3>1, <3>2
  <2> QED BY <2>1, <2>2
<1>3. /\ made' + 2 * Cardinality(Making') <= 2 * asked
      /\ Cardinality(Making') \in Nat
  <2>1. made + 2 * Cardinality(Making) <= 2 * asked /\ made \in Nat /\ asked \in Nat
    BY BoundAssumption DEF TypeInv, TypeOK, CountInv, Numbers
  <2>2. Cardinality(Making) \in Nat
    BY Sets DEF TypeInv, CountInv
  <2>3. Making' \subseteq Pending' /\ IsFiniteSet(Making')
    BY <1>1, FS_Subset DEF Making, Pending
  <2> QED BY <1>1, <2>1, <2>2, <2>3, FS_CardinalityType
<1>4. made' \in Numbers
  BY <1>3, BoundAssumption DEF TypeInv, TypeOK, Numbers
<1>5. RequestTypes'
  BY <1>1, <1>2, <1>4 DEF TypeInv, TypeOK, RequestTypes
<1>6. CountInv'
  <2>1. Cardinality(Pending') \in Nat /\ Cardinality(Pending) <= asked /\ asked \in Nat
    BY <1>1, FS_CardinalityType DEF TypeInv, TypeOK, CountInv
  <2>2. Cardinality(Pending') <= asked'
    BY <1>1, <2>1
  <2> QED BY <1>1, <1>2, <1>3, <2>2 DEF CountInv
<1>7. ObjectInv'
  <2>1. ASSUME NEW q \in Pending'
        PROVE  req'[q].of \in DOMAIN osslID'[req'[q].t]
    BY <1>1, <1>2, <2>1, BusyFacts
  <2> QED BY <1>2, <2>1 DEF TypeInv, ObjectInv
<1> QED BY <1>5, <1>6, <1>7

\* One that waits for the software store has made at most one.
LEMMA WaitKeeps ==
  ASSUME TypeInv, NEW r \in Pending, NEW at \in {"digest", "reload"}, NEW k \in Numbers,
         NEW read \in SUBSET Numbers, Wait(r, at, k, read),
         UNCHANGED <<cryptos, inserts, asked, osslID>>, made' \in Nat,
         made' <= made + 2 * (IF r \in Making THEN 1 ELSE 0)
  PROVE  RequestTypes' /\ CountInv' /\ ObjectInv'
<1>1. /\ req' \in [Requests -> Busy \cup {Idle}] /\ Pending' = Pending
      /\ Cardinality(Making') = Cardinality(Making) - (IF r \in Making THEN 1 ELSE 0)
      /\ \A q \in Pending : req'[q].of = req[q].of /\ req'[q].t = req[q].t
  BY Waits
<1>3. /\ made' + 2 * Cardinality(Making') <= 2 * asked
      /\ Cardinality(Making') \in Nat
  <2>1. made + 2 * Cardinality(Making) <= 2 * asked /\ made \in Nat /\ asked \in Nat
    BY BoundAssumption DEF TypeInv, TypeOK, CountInv, Numbers
  <2>2. Cardinality(Making) \in Nat
    BY Sets DEF TypeInv, CountInv
  <2>3. IsFiniteSet(Pending') /\ Making' \subseteq Pending' /\ IsFiniteSet(Making')
    BY <1>1, FS_Subset DEF TypeInv, CountInv, Making, Pending
  <2> QED BY <1>1, <2>1, <2>2, <2>3, FS_CardinalityType
<1>4. made' \in Numbers
  BY <1>3, BoundAssumption DEF TypeInv, TypeOK, Numbers
<1>5. RequestTypes'
  BY <1>1, <1>4 DEF TypeInv, TypeOK, RequestTypes
<1>6. CountInv'
  BY <1>1, <1>3 DEF TypeInv, CountInv
<1>7. ObjectInv'
  BY <1>1 DEF TypeInv, ObjectInv
<1> QED BY <1>5, <1>6, <1>7

\* The request makes an object more when the software store starts on it.
LEMMA MadeFacts ==
  ASSUME TypeInv, NEW r \in Making
  PROVE  /\ r \in Pending /\ made \in Nat /\ made \in Numbers
         /\ made + 1 \in Numbers /\ made + 2 \in Numbers
<1>1. r \in Pending /\ r \in Requests
  BY DEF Making, Pending
<1>2. Cardinality(Making) \in Nat /\ Cardinality(Making) # 0
  BY Sets, FS_EmptySet DEF TypeInv, CountInv
<1>3. made + 2 * Cardinality(Making) <= 2 * asked /\ made \in Nat /\ made \in Numbers
      /\ asked \in 0 .. MaxRequests /\ MaxRequests \in Nat
  BY BoundAssumption DEF TypeInv, TypeOK, CountInv, Numbers
<1> QED BY <1>1, <1>2, <1>3 DEF Numbers

LEMMA MessageType ==
  ASSUME TypeInv, NEW r \in Requests, Message(r)
  PROVE  TypeInv'
<1>1. Asks(r) /\ (Starts(r) \/ Answer(r)) /\ Logs
  BY MessageFacts DEF TypeInv
<1>2. TokenTypes' /\ StoreTypes'
  BY <1>1, Zenon, TypeParts
     DEF TypeInv, TokenTypes, StoreTypes, Asks, Logs, storeVars, historyVars
<1>3. /\ asked \in Nat /\ asked' = asked + 1 /\ asked' \in 0 .. MaxRequests
      /\ UNCHANGED <<cryptos, inserts, osslID, made>>
  BY <1>1, BoundAssumption DEF Asks, storeVars, TypeInv, TypeOK
<1>4. /\ \A t \in Tokens : \A i \in DOMAIN osslID[t] : osslID[t][i] \in Nat
      /\ made \in Nat
      /\ Cardinality(Pending) \in Nat /\ Cardinality(Making) \in Nat
      /\ Cardinality(Pending) <= asked
      /\ made + 2 * Cardinality(Making) <= 2 * asked
      /\ \A t \in Tokens : \A i \in DOMAIN osslID[t] :
           osslID[t][i] + 2 * Cardinality(Pending) <= 2 * asked
  BY Sets, BoundAssumption DEF TypeInv, TypeOK, CountInv, Numbers
<1>5. CASE Answer(r)
  <2>1. req' = req
    BY <1>1, <1>5 DEF Answer, Asks, Idle, TypeInv, TypeOK, Busy
  <2>2. Pending' = Pending /\ Making' = Making
    BY <2>1 DEF Pending, Making
  <2>3. RequestTypes' /\ ObjectInv'
    BY <1>3, <2>1, <2>2 DEF TypeInv, TypeOK, RequestTypes, ObjectInv
  <2>4. CountInv'
    BY <1>3, <1>4, <2>2 DEF TypeInv, CountInv
  <2> QED BY <1>2, <2>3, <2>4, TypeParts DEF TypeInv
<1>6. CASE Starts(r)
  <2>1. /\ req' \in [Requests -> Busy \cup {Idle}]
        /\ IsFiniteSet(Pending') /\ Pending' = Pending \cup {r}
        /\ Cardinality(Pending') = Cardinality(Pending) + 1
        /\ Cardinality(Making') <= Cardinality(Making) + 1
        /\ \A q \in Pending : req'[q] = req[q]
        /\ req'[r].of \in DOMAIN osslID[req'[r].t]
    BY <1>1, <1>6, Started
  <2>2. RequestTypes'
    BY <1>3, <2>1 DEF TypeInv, TypeOK, RequestTypes
  <2>3. ObjectInv'
    BY <1>3, <2>1 DEF TypeInv, ObjectInv
  <2>4. Cardinality(Making') \in Nat
    <3>1. Making' \subseteq Pending'
      BY DEF Making, Pending
    <3> QED BY <2>1, <3>1, FS_Subset, FS_CardinalityType
  <2>5. CountInv'
    <3>1. Cardinality(Pending') <= asked'
      BY <1>3, <1>4, <2>1
    <3>2. made' + 2 * Cardinality(Making') <= 2 * asked'
      BY <1>3, <1>4, <2>1, <2>4
    <3>3. ASSUME NEW t \in Tokens, NEW i \in DOMAIN osslID[t]
          PROVE  osslID[t][i] + 2 * Cardinality(Pending') <= 2 * asked'
      <4>1. osslID[t][i] \in Nat /\ osslID[t][i] + 2 * Cardinality(Pending) <= 2 * asked
        BY <1>4
      <4> QED BY <1>3, <1>4, <2>1, <4>1
    <3> QED BY <1>3, <2>1, <3>1, <3>2, <3>3 DEF CountInv
  <2> QED BY <1>2, <2>2, <2>3, <2>5, TypeParts DEF TypeInv
<1> QED BY <1>1, <1>5, <1>6

\* Tokens come and go.
LEMMA TokenType ==
  ASSUME TypeInv,
         Close \/ \E t \in Tokens : InsertToken(t) \/ AnnounceToken(t) \/ RemoveToken(t)
  PROVE  TypeInv'
<1>0. TokenTypes /\ StoreTypes /\ RequestTypes
  BY TypeParts DEF TypeInv
<1>1. ASSUME NEW t \in Tokens, InsertToken(t)
      PROVE  TypeInv'
  <2>1. UNCHANGED <<renamed, loggedIn, memory, files, made, req, asked, historyVars>>
    BY <1>1 DEF InsertToken
  <2>2. present' = present \cup {t} /\ inserts' = inserts + 1 /\ inserts' \in 0 .. MaxInserts
    BY <1>1, BoundAssumption DEF InsertToken, TypeInv, TypeOK
  <2>3. StoreTypes'
    BY <1>0, <2>1 DEF StoreTypes, historyVars
  <2>4. PICK fresh \in SUBSET {u \in Same(t) \cap present' : cryptos[u] = 0} :
          /\ osslID' = [u \in Tokens |->
                         IF u \in fresh THEN Append(osslID[u], 0) ELSE osslID[u]]
          /\ cryptos' = [u \in Tokens |-> IF u \in fresh THEN Len(osslID'[u]) ELSE cryptos[u]]
          /\ open' = open \cup fresh
    BY <1>1 DEF InsertToken
  <2>5. \A u \in fresh : u \in Tokens /\ u \in present' /\ cryptos[u] = 0
    BY DEF Same
\* the counters: one that starts, or those that were
  <2>6. ASSUME NEW u \in Tokens
        PROVE  /\ osslID'[u] \in Seq(Nat) /\ Len(osslID'[u]) <= inserts'
               /\ cryptos'[u] \in 0 .. MaxInserts /\ cryptos'[u] <= Len(osslID'[u])
               /\ u \in renamed => cryptos'[u] > 0
               /\ DOMAIN osslID[u] \subseteq DOMAIN osslID'[u]
               /\ \A i \in DOMAIN osslID'[u] :
                    osslID'[u][i] = 0 \/ (i \in DOMAIN osslID[u] /\ osslID'[u][i] = osslID[u][i])
    <3>1. /\ osslID[u] \in Seq(Nat) /\ Len(osslID[u]) \in Nat /\ Len(osslID[u]) <= inserts
          /\ cryptos[u] \in 0 .. MaxInserts /\ cryptos[u] <= Len(osslID[u])
          /\ inserts \in Nat /\ MaxInserts \in Nat
          /\ u \in renamed => cryptos[u] > 0
      BY <1>0, BoundAssumption DEF TypeInv, ObjectInv, RequestTypes, TokenTypes
    <3>2. CASE u \notin fresh
      <4>1. osslID'[u] = osslID[u] /\ cryptos'[u] = cryptos[u]
        BY <2>4, <3>2
      <4> QED BY <2>2, <3>1, <4>1
    <3>3. CASE u \in fresh
      <4>1. osslID'[u] = Append(osslID[u], 0) /\ cryptos'[u] = Len(osslID'[u])
        BY <2>4, <3>3
      <4>2. /\ osslID'[u] \in Seq(Nat) /\ Len(osslID'[u]) = Len(osslID[u]) + 1
            /\ osslID'[u][Len(osslID[u]) + 1] = 0
            /\ \A i \in DOMAIN osslID[u] : osslID'[u][i] = osslID[u][i]
            /\ DOMAIN osslID'[u] = DOMAIN osslID[u] \cup {Len(osslID[u]) + 1}
        BY <3>1, <4>1
      <4>3. /\ Len(osslID'[u]) <= inserts' /\ cryptos'[u] \in 0 .. MaxInserts
            /\ cryptos'[u] <= Len(osslID'[u]) /\ cryptos'[u] > 0
        BY <2>2, <3>1, <4>1, <4>2
      <4> QED BY <4>2, <4>3
    <3> QED BY <3>2, <3>3
  <2>7. TokenTypes'
    <3>1. open' \subseteq present' /\ present' \subseteq Tokens
      BY <1>0, <2>2, <2>4, <2>5 DEF TokenTypes
    <3>2. cryptos' \in [Tokens -> 0 .. MaxInserts]
      BY <2>4, <2>6
    <3>3. renamed \subseteq {u \in Tokens : cryptos'[u] > 0}
      BY <1>0, <2>6 DEF TokenTypes
    <3> QED BY <1>0, <2>1, <2>2, <3>1, <3>2, <3>3 DEF TokenTypes
  <2>8. RequestTypes'
    <3>1. osslID' \in [Tokens -> Seq(Nat)]
      BY <2>4, <2>6
    <3> QED BY <1>0, <2>1, <2>6, <3>1 DEF RequestTypes
  <2>9. ObjectInv'
    <3>1. \A r \in Pending : req[r].t \in Tokens
      BY BusyFacts
    <3> QED BY <2>1, <2>6, <3>1 DEF TypeInv, ObjectInv, Pending
  <2>10. CountInv'
    <3>1. Pending' = Pending /\ Making' = Making
      BY <2>1 DEF Pending, Making
    <3>2. Cardinality(Pending) \in Nat /\ Cardinality(Pending) <= asked /\ asked \in Nat
      BY <1>0, Sets DEF TypeInv, CountInv, RequestTypes
    <3>3. ASSUME NEW u \in Tokens, NEW i \in DOMAIN osslID'[u]
          PROVE  osslID'[u][i] + 2 * Cardinality(Pending) <= 2 * asked
      <4>1. CASE osslID'[u][i] = 0
        BY <3>2, <4>1
      <4>2. CASE i \in DOMAIN osslID[u] /\ osslID'[u][i] = osslID[u][i]
        BY <4>2 DEF TypeInv, CountInv
      <4> QED BY <2>6, <4>1, <4>2
    <3> QED BY <2>1, <3>1, <3>2, <3>3 DEF TypeInv, CountInv
  <2> QED BY <2>3, <2>7, <2>8, <2>9, <2>10, TypeParts DEF TypeInv
<1>2. ASSUME UNCHANGED <<inserts, osslID, made, req, asked>>, TokenTypes', StoreTypes',
             \A t \in Tokens : cryptos'[t] \in {0, cryptos[t]}
      PROVE  TypeInv'
  <2>1. RequestTypes'
    <3>1. ASSUME NEW t \in Tokens
          PROVE  cryptos'[t] <= Len(osslID[t])
      <4>1. osslID[t] \in Seq(Nat) /\ cryptos[t] <= Len(osslID[t])
        BY <1>0 DEF RequestTypes
      <4> QED BY <1>2, <4>1
    <3> QED BY <1>0, <1>2, <3>1 DEF RequestTypes
  <2>2. CountInv' /\ ObjectInv'
    BY <1>2 DEF TypeInv, CountInv, ObjectInv, Pending, Making
  <2> QED BY <1>2, <2>1, <2>2, TypeParts DEF TypeInv
<1>3. ASSUME NEW t \in Tokens, AnnounceToken(t)
      PROVE  TypeInv'
  <2>1. TokenTypes'
    BY <1>0, <1>3 DEF AnnounceToken, TokenTypes
  <2>2. StoreTypes' /\ UNCHANGED <<inserts, osslID, made, req, asked, cryptos>>
    BY <1>0, <1>3 DEF AnnounceToken, StoreTypes, storeVars, historyVars
  <2> QED BY <1>2, <2>1, <2>2
<1>4. ASSUME NEW t \in Tokens, RemoveToken(t)
      PROVE  TypeInv'
  <2>1. TokenTypes' /\ \A u \in Tokens : cryptos'[u] \in {0, cryptos[u]}
    <3> DEFINE dropped == Same(t) \ renamed
    <3>1. /\ present' = present \ {t} /\ open' = open \ (dropped \cup {t})
          /\ cryptos' = [u \in Tokens |-> IF u \in dropped THEN 0 ELSE cryptos[u]]
          /\ UNCHANGED <<inserts, renamed>>
          /\ loggedIn' = loggedIn \ dropped
      BY <1>4 DEF RemoveToken
    <3>2. dropped \cap renamed = {}
      OBVIOUS
    <3> HIDE DEF dropped
    <3>3. \A u \in Tokens : cryptos'[u] = IF u \in dropped THEN 0 ELSE cryptos[u]
      BY <3>1
    <3>4. cryptos' \in [Tokens -> 0 .. MaxInserts] /\ \A u \in renamed : cryptos'[u] > 0
      BY <1>0, <3>1, <3>2, <3>3, BoundAssumption DEF TokenTypes
    <3> QED BY <1>0, <3>1, <3>3, <3>4 DEF TokenTypes
  <2>2. UNCHANGED <<inserts, osslID, files, made, req, asked, historyVars>>
    BY <1>4 DEF RemoveToken
  <2>3. DOMAIN memory' \subseteq Names /\ \A i \in DOMAIN memory' : memory'[i] \in Items
    BY <1>0, <1>4 DEF RemoveToken, OnRemoveToken, removeByProvider, StoreTypes
  <2>4. StoreTypes'
    BY <1>0, <2>2, <2>3 DEF StoreTypes, historyVars
  <2> QED BY <1>2, <2>1, <2>2, <2>4
<1>5. ASSUME Close
      PROVE  TypeInv'
  <2>1. TokenTypes' /\ \A u \in Tokens : cryptos'[u] \in {0, cryptos[u]}
    BY <1>0, <1>5, BoundAssumption DEF Close, TokenTypes
  <2>2. StoreTypes' /\ UNCHANGED <<inserts, osslID, made, req, asked>>
    BY <1>0, <1>5 DEF Close, StoreTypes, storeVars, historyVars
  <2> QED BY <1>2, <2>1, <2>2
<1> QED BY <1>1, <1>3, <1>4, <1>5

\* A provider, the software store or the user answers.
LEMMA ProgressType ==
  ASSUME TypeInv, NEW r \in Requests,
         Progress(r) \/ \E right \in BOOLEAN : AnswerPrompt(r, right)
  PROVE  TypeInv'
<1>0. TokenTypes /\ StoreTypes /\ RequestTypes /\ made \in Nat /\ made <= made + 0
  BY TypeParts, BoundAssumption DEF TypeInv, RequestTypes, Numbers
<1>1. r \in Pending
  BY DEF Pending, Progress, Succeeds, Fails, ImportInSoftware, GetCertInSoftware, WriteKey, Reload,
         StoreFails, AnswerPrompt
<1>2. /\ UNCHANGED tokenVars /\ asked' = asked
      /\ loggedIn' \in {loggedIn, loggedIn \cup {req[r].t}}
  BY DEF Progress, Succeeds, Fails, ImportInSoftware, GetCertInSoftware, WriteKey, Reload,
         StoreFails, AnswerPrompt
<1>3. TokenTypes' /\ UNCHANGED <<cryptos, inserts, asked>>
  BY <1>0, <1>1, <1>2, BusyFacts DEF TokenTypes, tokenVars
<1>4. /\ req[r].type \in {"key", "x509"} /\ req[r].k \in Numbers /\ req[r].read \in SUBSET Numbers
  BY <1>1, BusyFacts DEF Busy
<1>5. ASSUME Answer(r), UNCHANGED osslID \/ CountID(r), StoreTypes', made' \in Nat,
             made' <= made + 2 * (IF r \in Making THEN 1 ELSE 0)
      PROVE  TypeInv'
  BY <1>1, <1>3, <1>5, AnswerKeeps, TypeParts DEF TypeInv
<1>6. ASSUME NEW at \in {"digest", "reload"}, NEW k \in Numbers, NEW read \in SUBSET Numbers,
             Wait(r, at, k, read), UNCHANGED osslID, StoreTypes', made' \in Nat,
             made' <= made + 2 * (IF r \in Making THEN 1 ELSE 0)
      PROVE  TypeInv'
  BY <1>1, <1>3, <1>6, WaitKeeps, TypeParts DEF TypeInv
\* A request that tells of new items.
<1>7. ASSUME NEW new, NewItems(r, new), Tell(r, new), UNCHANGED osslID \/ CountID(r),
             files' \in [{"key", "x509"} -> SUBSET Numbers],
             kept' \in SUBSET Numbers, raced' \in SUBSET Numbers, made' \in Nat,
             made' <= made + 2 * (IF r \in Making THEN 1 ELSE 0)
      PROVE  TypeInv'
  <2>1. /\ DOMAIN memory' \subseteq Names /\ \A i \in DOMAIN memory' : memory'[i] \in Items
        /\ told' \in SUBSET [name : Names, item : Items]
        /\ Answer(r)
    BY <1>7, TellTypes DEF TypeInv
  <2>2. StoreTypes'
    BY <1>7, <2>1 DEF StoreTypes
  <2> QED BY <1>5, <1>7, <2>1, <2>2
<1>8. ASSUME Fails(r) \/ StoreFails(r) \/ \E right \in BOOLEAN : AnswerPrompt(r, right)
      PROVE  TypeInv'
  <2>1. Answer(r) /\ UNCHANGED storeVars /\ UNCHANGED historyVars
    BY <1>8 DEF Fails, StoreFails, AnswerPrompt
  <2>2. StoreTypes'
    BY <1>0, <2>1 DEF StoreTypes, storeVars, historyVars
  <2> QED BY <1>0, <1>5, <2>1, <2>2 DEF storeVars
<1>9. ASSUME Succeeds(r)
      PROVE  TypeInv'
  <2>1. /\ r \in Making
        /\ UNCHANGED <<osslID, files, kept, raced>>
    BY <1>9 DEF Succeeds, Making
  <2>2. made + 1 \in Numbers /\ made + 2 \in Numbers
    BY <2>1, MadeFacts
  <2>3. /\ files' \in [{"key", "x509"} -> SUBSET Numbers]
        /\ kept' \in SUBSET Numbers /\ raced' \in SUBSET Numbers
    BY <1>0, <2>1 DEF StoreTypes
  <2>4. CASE Answer(r) /\ UNCHANGED <<memory, made, told>>
    <3>1. StoreTypes'
      BY <1>0, <2>3, <2>4 DEF StoreTypes
    <3> QED BY <1>0, <1>5, <2>1, <2>4, <3>1
  <2>5. CASE Tell(r, OwnItems(r, req[r].type, req[r].k)) /\ UNCHANGED made
    BY <1>0, <1>1, <1>4, <1>7, <2>1, <2>3, <2>5, OwnFacts
  <2>6. CASE made' = made + 1 /\ Tell(r, OwnItems(r, req[r].type, made'))
    BY <1>0, <1>1, <1>4, <1>7, <2>1, <2>2, <2>3, <2>6, OwnFacts
  <2>7. CASE /\ made' = made + 2
             /\ Tell(r, Over(OwnItems(r, "key", made + 1), OwnItems(r, "key", made + 2)))
    <3>1. NewItems(r, Over(OwnItems(r, "key", made + 1), OwnItems(r, "key", made + 2)))
      BY <1>1, <2>2, OwnFacts, OverFacts
    <3> QED BY <1>0, <1>7, <2>1, <2>3, <2>7, <3>1
  <2> QED BY <1>9, <2>4, <2>5, <2>6, <2>7 DEF Succeeds
<1>10. ASSUME ImportInSoftware(r)
       PROVE  TypeInv'
  <2> DEFINE k == made + 1
  <2>1. r \in Making /\ made' = k /\ UNCHANGED kept
    BY <1>10 DEF ImportInSoftware, Making
  <2>2. k \in Numbers /\ made' <= made + 2 * (IF r \in Making THEN 1 ELSE 0) /\ made' \in Nat
    BY <1>0, <2>1, MadeFacts
  <2> HIDE DEF k
  <2>3. CASE Tell(r, SoftItems(r, req[r].type, k)) /\ CountID(r) /\ UNCHANGED <<files, raced>>
    <3>1. /\ files' \in [{"key", "x509"} -> SUBSET Numbers]
          /\ kept' \in SUBSET Numbers /\ raced' \in SUBSET Numbers
      BY <1>0, <2>1, <2>3 DEF StoreTypes
    <3> QED BY <1>1, <1>4, <1>7, <2>2, <2>3, <3>1, SoftFacts
  <2>4. CASE /\ Wait(r, "digest", k, files["key"])
             /\ raced' = IF Writing = {} THEN raced
                         ELSE raced \cup {k} \cup {req[q].k : q \in Writing}
             /\ UNCHANGED <<files, memory, osslID, told>>
    <3>1. files["key"] \in SUBSET Numbers
      BY <1>0 DEF StoreTypes
    <3>2. \A q \in Writing : req[q].k \in Numbers
      BY BusyFacts DEF Writing, Pending
    <3>3. StoreTypes'
      BY <1>0, <2>1, <2>2, <2>4, <3>2 DEF StoreTypes
    <3> QED BY <1>6, <2>2, <2>4, <3>1, <3>3
  <2>5. CASE /\ files' = [files EXCEPT !["x509"] = @ \cup {k}]
             /\ Wait(r, "reload", k, {})
             /\ UNCHANGED <<memory, osslID, told, raced>>
    <3>1. StoreTypes'
      BY <1>0, <2>1, <2>2, <2>5 DEF StoreTypes
    <3> QED BY <1>6, <2>2, <2>5, <3>1
  <2>6. CASE Answer(r) /\ UNCHANGED <<files, memory, osslID, told, raced>>
    <3>1. StoreTypes'
      BY <1>0, <2>1, <2>6 DEF StoreTypes
    <3> QED BY <1>5, <2>2, <2>6, <3>1
  <2> QED BY <1>10, <2>3, <2>4, <2>5, <2>6 DEF ImportInSoftware, k
<1>11. ASSUME GetCertInSoftware(r)
       PROVE  TypeInv'
  <2>1. /\ Tell(r, SoftItems(r, "x509", req[r].k)) /\ CountID(r)
        /\ UNCHANGED <<files, made, kept, raced>>
    BY <1>11 DEF GetCertInSoftware
  <2> QED BY <1>0, <1>1, <1>4, <1>7, <2>1, SoftFacts DEF StoreTypes
<1>12. ASSUME WriteKey(r)
       PROVE  TypeInv'
  <2>1. /\ files' = [files EXCEPT !["key"] = WithKey(r)]
        /\ Wait(r, "reload", req[r].k, files'["key"])
        /\ UNCHANGED <<osslID, memory, made, historyVars>>
    BY <1>12 DEF WriteKey
  <2>2. WithKey(r) \in SUBSET Numbers
    BY <1>4 DEF WithKey
  <2>3. StoreTypes' /\ files'["key"] \in SUBSET Numbers
    BY <1>0, <2>1, <2>2 DEF StoreTypes, historyVars
  <2> QED BY <1>0, <1>4, <1>6, <2>1, <2>3
<1>13. ASSUME Reload(r)
       PROVE  TypeInv'
  <2>1. /\ files' = (IF req[r].type = "key" THEN [files EXCEPT !["key"] = req[r].read] ELSE files)
        /\ Tell(r, SoftItems(r, req[r].type, req[r].k)) /\ CountID(r)
        /\ kept' = (IF req[r].type = "key" THEN kept \cup {req[r].k} ELSE kept)
        /\ UNCHANGED <<made, raced>>
    BY <1>13 DEF Reload
  <2>2. /\ files' \in [{"key", "x509"} -> SUBSET Numbers]
        /\ kept' \in SUBSET Numbers /\ raced' \in SUBSET Numbers
    BY <1>0, <1>4, <2>1 DEF StoreTypes
  <2> QED BY <1>0, <1>1, <1>4, <1>7, <2>1, <2>2, SoftFacts
<1> QED BY <1>8, <1>9, <1>10, <1>11, <1>12, <1>13 DEF Progress

LEMMA InitType == Init => TypeInv
<1> SUFFICES ASSUME Init
             PROVE  TypeInv
  OBVIOUS
<1>1. /\ 0 \in 0 .. MaxInserts /\ 0 \in 0 .. MaxRequests /\ 0 \in Numbers
      /\ MaxInserts \in Nat /\ MaxRequests \in Nat
  BY BoundAssumption DEF Numbers
<1>2. TokenTypes
  BY <1>1 DEF Init, TokenTypes
<1>3. StoreTypes
  BY DEF Init, StoreTypes
<1>4. RequestTypes
  BY <1>1 DEF Init, RequestTypes
<1>5. Pending = {} /\ Making = {} /\ \A t \in Tokens : osslID[t] = <<>>
  BY DEF Init, Pending, Making, Idle
<1>6. IsFiniteSet({}) /\ Cardinality({}) = 0
  BY FS_EmptySet
<1>7. CountInv /\ ObjectInv
  BY <1>5, <1>6 DEF Init, CountInv, ObjectInv
<1> QED BY <1>2, <1>3, <1>4, <1>7, TypeParts DEF TypeInv

LEMMA NextType == TypeInv /\ [Next]_vars => TypeInv'
<1> SUFFICES ASSUME TypeInv, [Next]_vars
             PROVE  TypeInv'
  OBVIOUS
<1>1. CASE UNCHANGED vars
  BY <1>1 DEF vars, tokenVars, storeVars, historyVars, TypeInv, TypeOK, CountInv, ObjectInv,
              Pending, Making
<1>2. CASE Next
  BY <1>2, MessageType, TokenType, ProgressType, Zenon DEF Next
<1> QED BY <1>1, <1>2

\* Every variable has its type: names and counters stay in their range, and
\* logins, requests and items are of tokens and objects that there are.
THEOREM TypeCorrect == Spec => []TypeInv
<1> QED BY InitType, NextType, PTL DEF Spec
-----------------------------------------------------------------------------
(* names *)

\* A name that is not of a key in software says what it stands for; one that is has
\* a number that the counter of its object has passed, unless it is garbled.  What
\* the memory storage holds was told, all that was told is there, and an object
\* tells no name twice for different items, unless it is garbled.
NamesInv ==
  /\ \A h \in told : h.name.type \notin {"soft", "garbled"} => h.item.is = h.name.n
  /\ \A h \in told : h.name.type = "soft" =>
       /\ h.item.of \in DOMAIN osslID[h.name.token]
       /\ h.name.n <= osslID[h.name.token][h.item.of]
  /\ \A g, h \in told :
       g.name = h.name /\ g.item.of = h.item.of /\ h.name.type # "garbled" => g.item = h.item
  /\ \A h \in told : h.name \in DOMAIN memory
  /\ \A i \in DOMAIN memory : [name |-> i, item |-> memory[i]] \in told

\* A step of which nobody is told, and in which no counter goes back.
LEMMA SameNames ==
  ASSUME TypeInv, NamesInv, UNCHANGED <<told, memory>>,
         \A t \in Tokens : \A i \in DOMAIN osslID[t] :
           /\ i \in DOMAIN osslID'[t] /\ osslID'[t][i] \in Nat
           /\ osslID[t][i] <= osslID'[t][i]
  PROVE  NamesInv'
<1>1. ASSUME NEW h \in told, h.name.type = "soft"
      PROVE  /\ h.item.of \in DOMAIN osslID'[h.name.token]
             /\ h.name.n <= osslID'[h.name.token][h.item.of]
  <2>1. h.name.token \in Tokens /\ h.name.n \in Nat
    BY BoundAssumption DEF TypeInv, TypeOK, Names, Numbers
  <2>2. /\ h.item.of \in DOMAIN osslID[h.name.token]
        /\ h.name.n <= osslID[h.name.token][h.item.of]
    BY <1>1 DEF NamesInv
  <2>3. osslID[h.name.token][h.item.of] \in Nat
    BY <2>1, <2>2 DEF TypeInv, TypeOK
  <2> QED BY <2>1, <2>2, <2>3
<1> QED BY <1>1 DEF NamesInv

\* A key in software gets a number that its object has not told yet.
LEMMA TellNames ==
  ASSUME TypeInv, NamesInv, NEW r \in Pending, NEW new, NewItems(r, new), Tell(r, new),
         (UNCHANGED osslID /\ NoneSoft(new)) \/ CountID(r)
  PROVE  NamesInv'
<1>1. /\ DOMAIN memory' = DOMAIN new \cup DOMAIN memory
      /\ \A i \in DOMAIN new : memory'[i] = new[i]
      /\ \A i \in DOMAIN memory \ DOMAIN new : memory'[i] = memory[i]
  BY DEF Tell, Over
<1>2. /\ told' = told \cup {[name |-> i, item |-> new[i]] : i \in DOMAIN new}
      /\ Answer(r)
  BY DEF Tell
<1>3. \A h \in told' : h \in told \/ (h.name \in DOMAIN new /\ h.item = new[h.name])
  BY <1>2
<1>4. \A i \in DOMAIN new :
        /\ i \in Names /\ new[i] \in Items
        /\ i.token = req[r].t /\ new[i].of = req[r].of
        /\ i.type \notin {"soft", "garbled"} => new[i].is = i.n
        /\ i.type = "soft" => i.n = osslID[i.token][new[i].of] + Taken(r)
  BY DEF NewItems
<1>5. \A h \in told : h.name \in Names /\ h.item \in Items
  BY DEF TypeInv, TypeOK
<1>6. /\ req[r].of \in DOMAIN osslID[req[r].t] /\ req[r].t \in Tokens
      /\ osslID \in [Tokens -> Seq(Nat)]
      /\ osslID[req[r].t][req[r].of] \in Nat
  BY BusyFacts DEF TypeInv, TypeOK
<1>7. Taken(r) \in {1, 2}
  BY DEF Taken
\* the counters
<1>8. \A t \in Tokens : \A i \in DOMAIN osslID[t] :
        /\ i \in DOMAIN osslID'[t] /\ osslID'[t][i] \in Nat
        /\ osslID[t][i] <= osslID'[t][i]
  <2>1. CASE CountID(r)
    <3>1. /\ osslID' \in [Tokens -> Seq(Nat)]
          /\ \A t \in Tokens : DOMAIN osslID'[t] = DOMAIN osslID[t]
          /\ \A t \in Tokens : \A i \in DOMAIN osslID'[t] : osslID'[t][i] >= osslID[t][i]
      BY <1>2, <2>1, CountTypes
    <3>2. ASSUME NEW t \in Tokens, NEW i \in DOMAIN osslID[t]
          PROVE  osslID[t][i] \in Nat /\ osslID'[t][i] \in Nat
      <4>1. osslID[t] \in Seq(Nat) /\ osslID'[t] \in Seq(Nat) /\ i \in DOMAIN osslID'[t]
        BY <1>6, <3>1
      <4> QED BY <4>1
    <3> QED BY <3>1, <3>2
  <2>2. CASE UNCHANGED osslID
    BY <1>6, <2>2
  <2> QED BY <2>1, <2>2
<1>9. \A i \in DOMAIN new : i.type = "soft" =>
        /\ osslID'[i.token][new[i].of] = i.n
        /\ new[i].of \in DOMAIN osslID'[i.token]
        /\ i.n = osslID[i.token][new[i].of] + Taken(r)
  BY <1>2, <1>4, <1>6, <1>8, CountTypes DEF NoneSoft
\* a name that was told before is not new, unless it says what it stands for
<1>10. ASSUME NEW h \in told, NEW i \in DOMAIN new, h.name = i, h.item.of = new[i].of,
              i.type # "garbled"
       PROVE  h.item = new[i]
  <2>1. CASE i.type # "soft"
    BY <1>4, <1>5, <1>10, <2>1 DEF NamesInv, Items
  <2>2. CASE i.type = "soft"
    <3>1. i.n <= osslID[i.token][new[i].of]
      BY <1>10, <2>2 DEF NamesInv
    <3> QED BY <1>4, <1>6, <1>7, <1>9, <2>2, <3>1
  <2> QED BY <2>1, <2>2
<1>11. \A h \in told' : h.name.type \notin {"soft", "garbled"} => h.item.is = h.name.n
  BY <1>3, <1>4 DEF NamesInv
<1>12. ASSUME NEW h \in told', h.name.type = "soft"
       PROVE  /\ h.item.of \in DOMAIN osslID'[h.name.token]
              /\ h.name.n <= osslID'[h.name.token][h.item.of]
  <2>1. CASE h \in told
    <3>1. h.name.token \in Tokens /\ h.name.n \in Nat
      BY <1>5, <2>1, BoundAssumption DEF Names, Numbers
    <3>2. /\ h.item.of \in DOMAIN osslID[h.name.token]
          /\ h.name.n <= osslID[h.name.token][h.item.of]
      BY <1>12, <2>1 DEF NamesInv
    <3>3. osslID[h.name.token] \in Seq(Nat)
      BY <1>6, <3>1
    <3>4. osslID[h.name.token][h.item.of] \in Nat
      BY <3>2, <3>3
    <3> QED BY <1>8, <3>1, <3>2, <3>4
  <2>2. CASE h.name \in DOMAIN new /\ h.item = new[h.name]
    <3>1. h.name.n \in Nat
      BY <1>4, <2>2, BoundAssumption DEF Names, Numbers
    <3> QED BY <1>9, <1>12, <2>2, <3>1
  <2> QED BY <1>3, <2>1, <2>2
<1>13. ASSUME NEW g \in told', NEW h \in told', g.name = h.name, g.item.of = h.item.of,
              h.name.type # "garbled"
       PROVE  g.item = h.item
  <2>1. CASE g \in told /\ h \in told
    BY <1>13, <2>1 DEF NamesInv
  <2>2. CASE g \notin told \/ h \notin told
    BY <1>3, <1>10, <1>13, <2>2
  <2> QED BY <2>1, <2>2
<1>14. \A h \in told' : h.name \in DOMAIN memory'
  BY <1>1, <1>3 DEF NamesInv
<1>15. \A i \in DOMAIN memory' : [name |-> i, item |-> memory'[i]] \in told'
  BY <1>1, <1>2 DEF NamesInv
<1> QED BY <1>11, <1>12, <1>13, <1>14, <1>15 DEF NamesInv

\* A provider, the software store or the user answers.
LEMMA ProgressNames ==
  ASSUME TypeInv, NamesInv, NEW r \in Requests,
         Progress(r) \/ \E right \in BOOLEAN : AnswerPrompt(r, right)
  PROVE  NamesInv'
<1>1. r \in Pending /\ made \in Numbers
  BY DEF Pending, Progress, Succeeds, Fails, ImportInSoftware, GetCertInSoftware, WriteKey, Reload,
         StoreFails, AnswerPrompt, TypeInv, TypeOK
<1>2. req[r].type \in {"key", "x509"} /\ req[r].k \in Numbers
  BY <1>1, BusyFacts DEF Busy
<1>3. ASSUME UNCHANGED <<told, memory, osslID>>
      PROVE  NamesInv'
  <2>1. osslID \in [Tokens -> Seq(Nat)]
    BY DEF TypeInv, TypeOK
  <2> QED BY <1>3, <2>1, SameNames
<1>4. ASSUME NEW type \in {"key", "x509"}, NEW k \in Numbers,
             Tell(r, SoftItems(r, type, k)), CountID(r)
      PROVE  NamesInv'
  BY <1>1, <1>4, SoftFacts, TellNames
<1>5. ASSUME NEW type \in {"key", "x509"}, NEW k \in Numbers,
             Tell(r, OwnItems(r, type, k)), UNCHANGED osslID
      PROVE  NamesInv'
  BY <1>1, <1>5, OwnFacts, TellNames
<1>6. CASE Succeeds(r)
  <2>1. r \in Making /\ UNCHANGED osslID
    BY <1>6 DEF Succeeds, Making
  <2>2. made + 1 \in Numbers /\ made + 2 \in Numbers
    BY <2>1, MadeFacts
  <2>3. CASE UNCHANGED <<memory, told>>
    BY <1>3, <2>1, <2>3
  <2>4. CASE Tell(r, OwnItems(r, req[r].type, req[r].k))
    BY <1>2, <1>5, <2>1, <2>4
  <2>5. CASE made' = made + 1 /\ Tell(r, OwnItems(r, req[r].type, made'))
    BY <1>2, <1>5, <2>1, <2>2, <2>5
  <2>6. CASE Tell(r, Over(OwnItems(r, "key", made + 1), OwnItems(r, "key", made + 2)))
    <3> DEFINE new == Over(OwnItems(r, "key", made + 1), OwnItems(r, "key", made + 2))
    <3>1. NewItems(r, new) /\ NoneSoft(new)
      BY <1>1, <2>2, OwnFacts, OverFacts
    <3> HIDE DEF new
    <3> QED BY <1>1, <2>1, <2>6, <3>1, TellNames DEF new
  <2> QED BY <1>6, <2>3, <2>4, <2>5, <2>6 DEF Succeeds
<1>7. CASE ImportInSoftware(r)
  <2>1. r \in Making
    BY <1>7 DEF ImportInSoftware, Making
  <2>2. made + 1 \in Numbers
    BY <2>1, MadeFacts
  <2>3. \/ Tell(r, SoftItems(r, req[r].type, made + 1)) /\ CountID(r)
        \/ UNCHANGED <<told, memory, osslID>>
    BY <1>7 DEF ImportInSoftware
  <2> QED BY <1>2, <1>3, <1>4, <2>2, <2>3
<1>8. CASE GetCertInSoftware(r)
  BY <1>2, <1>4, <1>8 DEF GetCertInSoftware
<1>9. CASE Reload(r)
  BY <1>2, <1>4, <1>9 DEF Reload
<1>10. CASE \/ WriteKey(r) \/ Fails(r) \/ StoreFails(r)
            \/ \E right \in BOOLEAN : AnswerPrompt(r, right)
  BY <1>3, <1>10 DEF WriteKey, Fails, StoreFails, AnswerPrompt, storeVars, historyVars
<1> QED BY <1>6, <1>7, <1>8, <1>9, <1>10 DEF Progress

LEMMA NextNames == TypeInv /\ NamesInv /\ [Next]_vars => NamesInv'
<1> SUFFICES ASSUME TypeInv, NamesInv, [Next]_vars
             PROVE  NamesInv'
  OBVIOUS
<1>0. osslID \in [Tokens -> Seq(Nat)] /\ DOMAIN memory \subseteq Names
  BY DEF TypeInv, TypeOK
<1>1. ASSUME UNCHANGED <<told, memory, osslID>>
      PROVE  NamesInv'
  BY <1>0, <1>1, SameNames
<1>2. ASSUME NEW t \in Tokens, InsertToken(t)
      PROVE  NamesInv'
  <2>1. UNCHANGED <<told, memory>>
    BY <1>2 DEF InsertToken, historyVars
  <2>2. ASSUME NEW u \in Tokens, NEW i \in DOMAIN osslID[u]
        PROVE  /\ i \in DOMAIN osslID'[u] /\ osslID'[u][i] \in Nat
               /\ osslID[u][i] <= osslID'[u][i]
    <3>1. osslID[u] \in Seq(Nat) /\ osslID[u][i] \in Nat
      BY <1>0
    <3>2. osslID'[u] \in {osslID[u], Append(osslID[u], 0)}
      BY <1>2 DEF InsertToken
    <3>3. i \in 1 .. Len(osslID[u])
      BY <3>1
    <3>4. i \in DOMAIN Append(osslID[u], 0) /\ Append(osslID[u], 0)[i] = osslID[u][i]
      BY <3>1, <3>3
    <3>5. i \in DOMAIN osslID'[u] /\ osslID'[u][i] = osslID[u][i]
      BY <3>2, <3>4
    <3> QED BY <3>1, <3>5
  <2> QED BY <2>1, <2>2, SameNames
<1>3. ASSUME NEW t \in Tokens, RemoveToken(t)
      PROVE  NamesInv'
  <2>1. memory' = [i \in {j \in DOMAIN memory : <<"key", j.token>> # <<"session", t>>}
                     |-> memory[i]]
    BY <1>3 DEF RemoveToken, OnRemoveToken, removeByProvider
  <2>2. \A j \in DOMAIN memory : <<"key", j.token>> # <<"session", t>>
    OBVIOUS
  <2>3. DOMAIN memory' = DOMAIN memory /\ \A i \in DOMAIN memory : memory'[i] = memory[i]
    BY <2>1, <2>2
  <2>4. UNCHANGED <<told, osslID>>
    BY <1>3 DEF RemoveToken, historyVars
  <2> QED BY <2>3, <2>4 DEF NamesInv
<1>4. CASE Close \/ \E t \in Tokens : AnnounceToken(t)
  BY <1>1, <1>4 DEF Close, AnnounceToken, storeVars, historyVars
<1>5. ASSUME NEW r \in Requests, Message(r)
      PROVE  NamesInv'
  BY <1>1, <1>5, MessageFacts DEF TypeInv, Asks, storeVars, historyVars
<1>6. CASE UNCHANGED vars
  BY <1>1, <1>6 DEF vars, storeVars, historyVars
<1> QED BY <1>2, <1>3, <1>4, <1>5, <1>6, ProgressNames, Zenon DEF Next

\* While its token's provider is the one that gave it, and no late answer of the one
\* before it took it over, a name that a client was told stands for the same key or
\* certificate, whatever is told to others and whichever tokens come and go, unless it
\* is one of the garbled names of software items; those are in the memory storage too.
THEOREM NamesAreHeld == Spec => []NamesHold
<1>1. Init => NamesInv
  BY DEF Init, NamesInv
<1>2. NamesInv => NamesHold
  <2> SUFFICES ASSUME NamesInv, NEW h \in told
               PROVE  /\ h.name \in DOMAIN memory
                      /\ memory[h.name].of = h.item.of /\ h.name.type # "garbled" =>
                           memory[h.name].is = h.item.is
    BY DEF NamesHold
  <2>1. h.name \in DOMAIN memory /\ [name |-> h.name, item |-> memory[h.name]] \in told
    BY DEF NamesInv
  <2> QED BY <2>1 DEF NamesInv
<1> QED BY <1>1, <1>2, NextNames, TypeCorrect, PTL DEF Spec

-----------------------------------------------------------------------------
(* keys in software *)

\* What a request read of the file holds the keys that are kept, but those that
\* were stored while another was, such as all that are being stored together.  Only
\* keys are digested.
KeysInv ==
  /\ KeysAreKept
  /\ \A r \in Writing : kept \subseteq req[r].read \cup raced
  /\ \A r \in Writing : req[r].at = "reload" => req[r].k \in req[r].read
  /\ \A q, r \in Writing : q # r => req[q].k \in raced
  /\ \A r \in Requests : req[r].at = "digest" => req[r].type = "key"

\* A step that leaves the file, and in which no request joins them.
LEMMA SameKeys ==
  ASSUME KeysInv, files'["key"] = files["key"], kept' = kept, raced \subseteq raced',
         Writing' \subseteq Writing, \A r \in Writing' : req'[r] = req[r],
         \A r \in Requests : req'[r].at = "digest" => req'[r] = req[r]
  PROVE  KeysInv'
  BY DEF KeysInv, KeysAreKept

\* Those that store a key, after the answer to a request or its start.
LEMMA AnsweredWriting ==
  ASSUME TypeInv, NEW r \in Pending, Answer(r)
  PROVE  /\ Writing' = Writing \ {r} /\ \A q \in Writing' : req'[q] = req[q]
         /\ \A q \in Requests : req'[q].at = "digest" => req'[q] = req[q]
  BY Answered DEF Writing, Pending

LEMMA StartedWriting ==
  ASSUME TypeInv, NEW r \in Requests, Asks(r), Starts(r)
  PROVE  /\ Writing' = Writing /\ \A q \in Writing' : req'[q] = req[q]
         /\ \A q \in Requests : req'[q].at = "digest" => req'[q] = req[q]
<1>1. /\ Pending' = Pending \cup {r} /\ r \notin Pending
      /\ \A q \in Pending : req'[q] = req[q]
      /\ req'[r].at \in {"crypto", "prompt"}
  BY Started DEF Asks, Pending
<1>2. \A q \in Requests : q \in Writing' <=> q \in Writing
  BY <1>1 DEF Writing, Pending
<1> QED BY <1>1, <1>2 DEF Writing, Pending

LEMMA WaitsWriting ==
  ASSUME TypeInv, NEW r \in Pending, NEW at \in {"digest", "reload"}, NEW k \in Numbers,
         NEW read \in SUBSET Numbers, Wait(r, at, k, read)
  PROVE  /\ Writing' = (IF req[r].type = "key" THEN Writing \cup {r} ELSE Writing \ {r})
         /\ \A q \in Writing' \ {r} : req'[q] = req[q]
         /\ \A q \in Requests \ {r} : req'[q].at = "digest" => req'[q] = req[q]
         /\ req'[r].at = at /\ req'[r].k = k /\ req'[r].read = read /\ req'[r].type = req[r].type
<1>1. /\ Pending' = Pending /\ \A q \in Pending \ {r} : req'[q] = req[q]
      /\ req'[r].at = at /\ req'[r].k = k /\ req'[r].read = read /\ req'[r].type = req[r].type
  BY Waits
<1>2. \A q \in Requests : q \in Writing' <=> IF q = r THEN req[r].type = "key" ELSE q \in Writing
  BY <1>1 DEF Writing, Pending
<1>3. r \in Requests
  BY DEF Pending
<1> QED BY <1>1, <1>2, <1>3 DEF Writing, Pending

LEMMA ProgressKeys ==
  ASSUME TypeInv, KeysInv, NEW r \in Requests,
         Progress(r) \/ \E right \in BOOLEAN : AnswerPrompt(r, right)
  PROVE  KeysInv'
<1>1. r \in Pending
  BY DEF Pending, Progress, Succeeds, Fails, ImportInSoftware, GetCertInSoftware, WriteKey, Reload,
         StoreFails, AnswerPrompt
<1>2. req[r].k \in Numbers /\ req[r].read \in SUBSET Numbers /\ files["key"] \in SUBSET Numbers
      /\ files \in [{"key", "x509"} -> SUBSET Numbers]
  BY <1>1, BusyFacts DEF Busy, TypeInv, TypeOK
<1>3. ASSUME Answer(r), UNCHANGED <<files, kept, raced>>
      PROVE  KeysInv'
  BY <1>1, <1>3, AnsweredWriting, SameKeys
<1>4. CASE \/ Succeeds(r) \/ Fails(r) \/ GetCertInSoftware(r) \/ StoreFails(r)
           \/ \E right \in BOOLEAN : AnswerPrompt(r, right)
  BY <1>3, <1>4
     DEF Succeeds, Fails, GetCertInSoftware, StoreFails, AnswerPrompt, Tell, storeVars, historyVars
<1>5. CASE ImportInSoftware(r)
  <2> DEFINE k == made + 1
  <2>1. r \in Making /\ r \notin Writing /\ UNCHANGED kept
    BY <1>5 DEF ImportInSoftware, Making, Writing
  <2>2. k \in Numbers
    BY <2>1, MadeFacts
  <2> HIDE DEF k
  <2>3. CASE Answer(r) /\ UNCHANGED <<files, raced>>
    BY <1>3, <2>1, <2>3
  <2>4. CASE /\ req[r].type = "key" /\ Wait(r, "digest", k, files["key"])
             /\ raced' = IF Writing = {} THEN raced
                         ELSE raced \cup {k} \cup {req[q].k : q \in Writing}
             /\ UNCHANGED files
    <3>1. /\ Writing' = Writing \cup {r} /\ \A q \in Writing : req'[q] = req[q]
          /\ \A q \in Requests \ {r} : req'[q].at = "digest" => req'[q] = req[q]
          /\ req'[r].at = "digest" /\ req'[r].k = k /\ req'[r].read = files["key"]
          /\ req'[r].type = "key"
      BY <1>1, <1>2, <2>1, <2>2, <2>4, WaitsWriting
    <3>2. raced \subseteq raced' /\ (Writing # {} => \A q \in Writing' : req'[q].k \in raced')
      BY <2>4, <3>1
    <3> QED BY <2>1, <2>4, <3>1, <3>2 DEF KeysInv, KeysAreKept
  <2>5. CASE /\ req[r].type = "x509" /\ Wait(r, "reload", k, {})
             /\ files' = [files EXCEPT !["x509"] = @ \cup {k}]
             /\ UNCHANGED raced
    <3>1. /\ Writing' = Writing \ {r} /\ \A q \in Writing' : req'[q] = req[q]
          /\ \A q \in Requests : req'[q].at = "digest" => req'[q] = req[q]
      BY <1>1, <2>2, <2>5, WaitsWriting
    <3> QED BY <1>2, <2>1, <2>5, <3>1, SameKeys
  <2> QED BY <1>5, <2>3, <2>4, <2>5 DEF ImportInSoftware, Tell, k
\* the key is written over what was there when the file was read
<1>6. CASE WriteKey(r)
  <2>1. /\ files' = [files EXCEPT !["key"] = WithKey(r)]
        /\ Wait(r, "reload", req[r].k, files'["key"])
        /\ UNCHANGED <<kept, raced>>
    BY <1>6 DEF WriteKey, historyVars
  <2>2. files'["key"] = req[r].read \cup {req[r].k} /\ files'["key"] \in SUBSET Numbers
    BY <1>2, <2>1 DEF WithKey
  <2>3. req[r].type = "key" /\ r \in Writing
    BY <1>6 DEF WriteKey, Writing, KeysInv
  <2> DEFINE k == req[r].k  read == files'["key"]
  <2>4. k \in Numbers /\ read \in SUBSET Numbers /\ Wait(r, "reload", k, read)
    BY <1>2, <2>1, <2>2
  <2> HIDE DEF k, read
  <2>5. /\ Writing' = (IF req[r].type = "key" THEN Writing \cup {r} ELSE Writing \ {r})
        /\ \A q \in Writing' \ {r} : req'[q] = req[q]
        /\ \A q \in Requests \ {r} : req'[q].at = "digest" => req'[q] = req[q]
        /\ req'[r].at = "reload" /\ req'[r].k = k /\ req'[r].read = read
    BY <1>1, <2>4, WaitsWriting
  <2>6. Writing' = Writing
    BY <2>3, <2>5
  <2> QED BY <2>1, <2>2, <2>3, <2>5, <2>6 DEF KeysInv, KeysAreKept, k, read
<1>7. CASE Reload(r)
  <2>1. /\ files' = (IF req[r].type = "key" THEN [files EXCEPT !["key"] = req[r].read] ELSE files)
        /\ kept' = (IF req[r].type = "key" THEN kept \cup {req[r].k} ELSE kept)
        /\ Answer(r) /\ UNCHANGED raced
    BY <1>7 DEF Reload, Tell
  <2>2. /\ Writing' = Writing \ {r} /\ \A q \in Writing' : req'[q] = req[q]
        /\ \A q \in Requests : req'[q].at = "digest" => req'[q] = req[q]
    BY <1>1, <2>1, AnsweredWriting
  <2>3. CASE req[r].type = "key"
    <3>1. r \in Writing /\ req[r].at = "reload"
      BY <1>7, <2>3 DEF Reload, Writing
    <3>2. files'["key"] = req[r].read /\ kept' = kept \cup {req[r].k}
      BY <1>2, <2>1, <2>3
    <3> QED BY <2>1, <2>2, <3>1, <3>2 DEF KeysInv, KeysAreKept
  <2>4. CASE req[r].type # "key"
    BY <1>3, <2>1, <2>4
  <2> QED BY <2>3, <2>4
<1> QED BY <1>4, <1>5, <1>6, <1>7 DEF Progress

LEMMA NextKeys == TypeInv /\ KeysInv /\ [Next]_vars => KeysInv'
<1> SUFFICES ASSUME TypeInv, KeysInv, [Next]_vars
             PROVE  KeysInv'
  OBVIOUS
<1>1. ASSUME UNCHANGED <<files, kept, raced, req>>
      PROVE  KeysInv'
  BY <1>1 DEF KeysInv, KeysAreKept, Writing
<1>2. CASE Close \/ \E t \in Tokens : InsertToken(t) \/ AnnounceToken(t) \/ RemoveToken(t)
  BY <1>1, <1>2 DEF Close, InsertToken, AnnounceToken, RemoveToken, storeVars, historyVars
<1>3. ASSUME NEW r \in Requests, Message(r)
      PROVE  KeysInv'
  <2>1. Asks(r) /\ (Starts(r) \/ Answer(r)) /\ UNCHANGED <<files, kept, raced>>
    BY <1>3, MessageFacts DEF TypeInv, Asks, storeVars, historyVars
  <2>2. CASE Starts(r)
    BY <2>1, <2>2, StartedWriting, SameKeys
  <2>3. CASE Answer(r)
    <3>1. req' = req
      BY <2>1, <2>3 DEF Answer, Asks, Idle, TypeInv, TypeOK, Busy
    <3> QED BY <1>1, <2>1, <3>1
  <2> QED BY <2>1, <2>2, <2>3
<1>4. CASE UNCHANGED vars
  BY <1>1, <1>4 DEF vars, storeVars, historyVars
<1> QED BY <1>2, <1>3, <1>4, ProgressKeys, Zenon DEF Next

\* A key that a client was told is stored in software stays in the file, unless
\* another was stored at the same time: the storage reads the whole file, waits for
\* a digest and writes the whole file, and again with the date of the last use.
THEOREM KeysStay == Spec => []KeysAreKept
<1>1. Init => KeysInv
  BY DEF Init, KeysInv, KeysAreKept, Writing, Idle
<1>2. KeysInv => KeysAreKept
  BY DEF KeysInv
<1> QED BY <1>1, <1>2, NextKeys, TypeCorrect, PTL DEF Spec

-----------------------------------------------------------------------------
(* logins *)

LEMMA NextLogins == TypeInv /\ LoginsAreReal /\ [Next]_vars => LoginsAreReal'
<1> SUFFICES ASSUME TypeInv, LoginsAreReal, [Next]_vars
             PROVE  LoginsAreReal'
  OBVIOUS
<1>1. ASSUME NEW r \in Requests, Message(r)
      PROVE  LoginsAreReal'
  BY <1>1, MessageFacts DEF TypeInv, Asks, Logs, LoginsAreReal
<1>2. ASSUME NEW r \in Requests, Progress(r)
      PROVE  LoginsAreReal'
  <2>1. UNCHANGED <<open, renamed, loggedIn>>
    BY <1>2 DEF Progress, Succeeds, Fails, ImportInSoftware, GetCertInSoftware, WriteKey, Reload,
                StoreFails, tokenVars
  <2> QED BY <2>1 DEF LoginsAreReal
<1>3. ASSUME NEW r \in Requests, NEW right \in BOOLEAN, AnswerPrompt(r, right)
      PROVE  LoginsAreReal'
  BY <1>3 DEF AnswerPrompt, PinReaches, LoginsAreReal, tokenVars
<1>4. ASSUME NEW t \in Tokens, InsertToken(t)
      PROVE  LoginsAreReal'
  BY <1>4 DEF InsertToken, LoginsAreReal
<1>5. ASSUME NEW t \in Tokens, AnnounceToken(t)
      PROVE  LoginsAreReal'
  BY <1>5 DEF AnnounceToken, LoginsAreReal
<1>6. ASSUME NEW t \in Tokens, RemoveToken(t)
      PROVE  LoginsAreReal'
  BY <1>6 DEF RemoveToken, Same, LoginsAreReal
<1>7. CASE Close
  BY <1>7 DEF Close, LoginsAreReal
<1>8. CASE UNCHANGED vars
  BY <1>8 DEF vars, tokenVars, LoginsAreReal
<1> QED BY <1>1, <1>2, <1>3, <1>4, <1>5, <1>6, <1>7, <1>8, Zenon DEF Next

\* A provider that claims to be logged in has a session, or was announced: the PIN
\* that is entered after its token was taken out, or put back, reaches no other.
THEOREM LoginsHold == Spec => []LoginsAreReal
<1>1. Init => LoginsAreReal
  BY DEF Init, LoginsAreReal
<1> QED BY <1>1, NextLogins, TypeCorrect, PTL DEF Spec
=============================================================================
