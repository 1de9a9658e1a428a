---------------------------- MODULE CryptoServices ----------------------------
(***************************************************************************)
(* The services for keys and certificates of clients (server/services:     *)
(* ProviderService, CryptoService, SubtleService, KeyStorageService and    *)
(* CertificateStorageService) over the providers of LocalProvider, with    *)
(* the memory storage that they share (memory_storage.ts, crypto_item.ts)  *)
(* and the software store that the providers fall back to (crypto/pkcs11,  *)
(* crypto/openssl).                                                        *)
(*                                                                         *)
(* The subscription of the services to the messages of clients is          *)
(* commented out (service.ts:38), and EasyHub does not create them: the    *)
(* requests are those that the subscription would deliver.                 *)
(*                                                                         *)
(* From the message to the call of a provider nothing waits for more than  *)
(* a settled promise, so this is one step; another is what follows the     *)
(* provider's answer.  A step of a token's insertion, announcement or      *)
(* removal (CardPipeline) can come between them.                           *)
(***************************************************************************)
EXTENDS Naturals, Sequences, FiniteSets

CONSTANTS
  Tokens,        \* the provider of a token is known by its key in the map
  Library,       \* the PKCS#11 library of each token
  Byte,          \* the values of a byte: 256 in the program
  Requests,      \* requests under way at a time
  MaxRequests,   \* bound: requests
  MaxInserts     \* bound: insertions of tokens

\* The model numbers software items with two bytes, of which the second is a character.
ASSUME ByteAssumption == Byte \in Nat \ {0} /\ 2 * MaxRequests < Byte * (Byte \div 2)
ASSUME BoundAssumption == {MaxRequests, MaxInserts} \subseteq Nat \ {0}

VARIABLES
  present,       \* tokens in their readers (external)
  inserts,       \* insertions of tokens so far
  cryptos,       \* LocalProvider.crypto: the provider's object by token, 0 for none
  renamed,       \* tokens whose provider's info.id is that of their session
  open,          \* tokens whose provider has a valid session (external)
  loggedIn,      \* tokens whose provider has logged in
  osslID,        \* Pkcs11Crypto.osslID, of every object of a token
  memory,        \* MemoryStorage.items
  files,         \* the software store's files for keys and for certificates
  req,           \* the requests
  asked,         \* requests so far
  made,          \* keys and certificates so far
  told,          \* history: what a name stood for when a client was told it
  kept,          \* history: keys in software that a client was told are stored
  raced          \* history: keys stored while another was

tokenVars == <<present, inserts, cryptos, renamed, open>>
historyVars == <<told, kept, raced>>
storeVars == <<osslID, memory, files, made>>
vars == <<tokenVars, loggedIn, storeVars, req, asked, historyVars>>

Numbers == 0 .. 2 * MaxRequests

\* The name of an item is a digest of its provider, the handles of its session
\* and object, its type and the item's id, which tells apart all keys and
\* certificates but keys in software: these have only the provider's counter, as
\* the text of its bytes.  A low byte in the upper half of its range is no text:
\* all of these become one character, and the names differ by the next byte only.
Own(t, type, k) == [token |-> t, type |-> type, n |-> k]
Soft(t, n) ==
  IF n % Byte < Byte \div 2 THEN [token |-> t, type |-> "soft", n |-> n]
  ELSE [token |-> t, type |-> "garbled", n |-> n \div Byte]

Names == [token : Tokens, type : {"key", "public", "x509", "soft", "garbled"}, n : Numbers]
Items == [is : Numbers, of : 1 .. MaxInserts]

Idle == [at |-> "idle"]
Busy == [at : {"crypto", "prompt", "digest", "reload"}, t : Tokens, of : 1 .. MaxInserts,
         live : BOOLEAN,
         work : {"answer", "make", "pair", "get", "import", "login"},
         type : {"key", "x509"}, k : Numbers, token : BOOLEAN, read : SUBSET Numbers]

TypeOK ==
  /\ present \in SUBSET Tokens /\ open \in SUBSET present
  /\ inserts \in 0 .. MaxInserts
  /\ cryptos \in [Tokens -> 0 .. MaxInserts]
  /\ renamed \in SUBSET {t \in Tokens : cryptos[t] > 0}
  /\ loggedIn \in SUBSET Tokens
  /\ osslID \in [Tokens -> Seq(Nat)]
  /\ \A t \in Tokens : cryptos[t] <= Len(osslID[t])
  /\ DOMAIN memory \subseteq Names /\ \A i \in DOMAIN memory : memory[i] \in Items
  /\ files \in [{"key", "x509"} -> SUBSET Numbers]
  /\ req \in [Requests -> Busy \cup {Idle}]
  /\ asked \in 0 .. MaxRequests /\ made \in Numbers
  /\ told \in SUBSET [name : Names, item : Items]
  /\ kept \in SUBSET Numbers /\ raced \in SUBSET Numbers

Init ==
  /\ present = {} /\ renamed = {} /\ open = {} /\ loggedIn = {}
  /\ inserts = 0
  /\ cryptos = [t \in Tokens |-> 0]
  /\ osslID = [t \in Tokens |-> <<>>]
  /\ memory = <<>>
  /\ files = [type \in {"key", "x509"} |-> {}]
  /\ req = [r \in Requests |-> Idle]
  /\ asked = 0 /\ made = 0
  /\ told = {} /\ kept = {} /\ raced = {}

-----------------------------------------------------------------------------
(* tokens *)

Same(t) == {u \in Tokens : Library[u] = Library[t]}

\* Every token of the library whose slot no provider in the map holds gets one,
\* unless its provider fails to open.
InsertToken(t) ==
  /\ t \notin present
  /\ inserts < MaxInserts
  /\ present' = present \cup {t}
  /\ inserts' = inserts + 1
  /\ \E fresh \in SUBSET {u \in Same(t) \cap present' : cryptos[u] = 0} :
       /\ osslID' = [u \in Tokens |-> IF u \in fresh THEN Append(osslID[u], 0) ELSE osslID[u]]
       /\ cryptos' = [u \in Tokens |-> IF u \in fresh THEN Len(osslID'[u]) ELSE cryptos[u]]
       /\ open' = open \cup fresh
  /\ UNCHANGED <<renamed, loggedIn, memory, files, made, req, asked, historyVars>>

\* update-token gives the provider's info the id of the session.
AnnounceToken(t) ==
  /\ t \in present /\ cryptos[t] # 0
  /\ renamed' = renamed \cup {t}
  /\ UNCHANGED <<present, inserts, cryptos, open, loggedIn, storeVars, req, asked, historyVars>>

\* Items carry the provider's key in the map: one that goes by the id of a
\* session, as ProviderService.onRemoveToken does, removes none.
removeByProvider(id) ==
  memory' = [i \in {j \in DOMAIN memory : <<"key", j.token>> # id} |-> memory[i]]

OnRemoveToken(t) == removeByProvider(<<"session", t>>)

\* The providers of all tokens of the library leave the map, but one that was
\* announced: it is not found.
RemoveToken(t) ==
  LET dropped == Same(t) \ renamed IN
  /\ t \in present
  /\ present' = present \ {t}
  /\ open' = open \ (dropped \cup {t})
  /\ cryptos' = [u \in Tokens |-> IF u \in dropped THEN 0 ELSE cryptos[u]]
  /\ loggedIn' = loggedIn \ dropped
  /\ OnRemoveToken(t)
  /\ UNCHANGED <<inserts, renamed, osslID, files, made, req, asked, historyVars>>

\* ProviderService.close
Close ==
  /\ \E t \in Tokens : cryptos[t] # 0
  /\ cryptos' = [t \in Tokens |-> 0]
  /\ open' = {} /\ renamed' = {} /\ loggedIn' = {}
  /\ UNCHANGED <<present, inserts, storeVars, req, asked, historyVars>>

-----------------------------------------------------------------------------
(* requests *)

Known(types) == {h.name : h \in {g \in told : g.name.type \in types}}
Keys == Known({"key", "public", "soft", "garbled"})
Certs == Known({"x509"})

\* Whether with a result or an error.
Answer(r) == req' = [req EXCEPT ![r] = Idle]

\* A request of a client reaches its handler.
Receive(r) ==
  /\ req[r].at = "idle"
  /\ asked < MaxRequests
  /\ asked' = asked + 1

Work(t, at, work, type, k, token) ==
  [at |-> at, t |-> t, of |-> cryptos[t], live |-> t \in open, work |-> work,
   type |-> type, k |-> k, token |-> token, read |-> {}]

\* getCrypto finds the provider, MemoryStorage.item the items, or they throw.
Found(t, names) == cryptos[t] # 0 /\ names \subseteq DOMAIN memory

\* The handler calls the provider of t, with the items of these names, and waits.
Call(r, t, names, work, type, k, token) ==
  /\ \/ /\ Found(t, names)
        /\ req' = [req EXCEPT ![r] = Work(t, "crypto", work, type, k, token)]
     \/ /\ ~ Found(t, names)
        /\ Answer(r)
  /\ UNCHANGED <<tokenVars, loggedIn, storeVars, historyVars>>

\* A client has the provider do work with the key, or the certificate, of a name.
CallWith(r, names) == \E i \in names : Call(r, i.token, {i}, "answer", "key", 0, FALSE)

(* SubtleService; a request that makes no key and gets none is like any other *)
Digest(r) == \E t \in Tokens : Call(r, t, {}, "answer", "key", 0, FALSE)
GenerateKey(r) ==
  \E t \in Tokens, work \in {"make", "pair"} : Call(r, t, {}, work, "key", 0, FALSE)
UseKey(r) == CallWith(r, Keys)
DeriveBits(r) ==
  \E i, j \in Keys : i.token = j.token /\ Call(r, i.token, {i, j}, "answer", "key", 0, FALSE)
DeriveKey(r) ==
  \E i, j \in Keys : i.token = j.token /\ Call(r, i.token, {i, j}, "make", "key", 0, FALSE)
WrapKey(r) == DeriveBits(r)
UnwrapKey(r) == \E i \in Keys : Call(r, i.token, {i}, "make", "key", 0, FALSE)
ExportKey(r) == CallWith(r, Keys)
ImportKey(r) ==
  \E t \in Tokens, token \in BOOLEAN : Call(r, t, {}, "import", "key", 0, token)

(* KeyStorageService and CertificateStorageService: an index names what the token came *)
(* with, what is stored in software, or what a client was told that is on the token.    *)
Indexed(t, type) ==
  {0} \cup files[type] \cup {h.item.is : h \in {g \in told : g.name.token = t}}

Get(r, type) ==
  \E t \in Tokens : \E k \in Indexed(t, type) : Call(r, t, {}, "get", type, k, FALSE)

GetKey(r) == Get(r, "key")
SetKey(r) == CallWith(r, Keys)
RemoveKey(r) == Digest(r)
ListKeys(r) == Digest(r) \/ UseKey(r)
ClearKeys(r) == Digest(r)

GetValue(r) == Digest(r)
GetCert(r) == Get(r, "x509")
SetCert(r) == CallWith(r, Certs)
RemoveCert(r) == Digest(r)
ImportCert(r) ==
  \E t \in Tokens, token \in BOOLEAN : Call(r, t, {}, "import", "x509", 0, token)
UseCert(r) == CallWith(r, Certs)
ListCerts(r) == Digest(r)
ClearCerts(r) == ListCerts(r)
GetChain(r) == UseCert(r)

\* Whatever they are asked for, these name something undefined, and throw.
GetCRL(r) == Answer(r) /\ UNCHANGED <<tokenVars, loggedIn, storeVars, historyVars>>

(* CryptoService *)
IsLoggedIn(r) == Answer(r) /\ UNCHANGED <<tokenVars, loggedIn, storeVars, historyVars>>

\* The reader asks for the PIN if it has a pad (external), or a prompt does, for
\* which the handler waits.
Login(r) == \E t \in Tokens, pad \in BOOLEAN :
  /\ \/ /\ pad \/ ~ Found(t, {}) \/ t \notin present
        /\ Answer(r)
        /\ loggedIn' \in {loggedIn, IF pad THEN loggedIn \cup (open \cap {t}) ELSE loggedIn}
     \/ /\ ~ pad /\ Found(t, {}) /\ t \in present
        /\ req' = [req EXCEPT ![r] = Work(t, "prompt", "login", "key", 0, FALSE)]
        /\ UNCHANGED loggedIn
  /\ UNCHANGED <<tokenVars, storeVars, historyVars>>

Logout(r) == \E t \in Tokens :
  /\ Answer(r)
  /\ loggedIn' = loggedIn \ (open \cap {t})
  /\ UNCHANGED <<tokenVars, storeVars, historyVars>>

\* The provider opens a new session (external), or fails to.
Reset(r) == \E t \in Tokens, ok \in BOOLEAN :
  LET done == ok /\ Found(t, {}) /\ t \in present IN
  /\ Answer(r)
  /\ open' = IF done THEN open \cup {t} ELSE open
  /\ loggedIn' = IF done THEN loggedIn \ {t} ELSE loggedIn
  /\ UNCHANGED <<present, inserts, cryptos, renamed, storeVars, historyVars>>

Message(r) ==
  /\ Receive(r)
  /\ \/ Digest(r) \/ GenerateKey(r) \/ UseKey(r) \/ DeriveBits(r) \/ DeriveKey(r)
     \/ WrapKey(r) \/ UnwrapKey(r) \/ ExportKey(r) \/ ImportKey(r)
     \/ GetKey(r) \/ SetKey(r) \/ RemoveKey(r) \/ ListKeys(r) \/ ClearKeys(r)
     \/ GetValue(r) \/ GetCert(r) \/ SetCert(r) \/ RemoveCert(r) \/ ImportCert(r)
     \/ UseCert(r) \/ ListCerts(r) \/ ClearCerts(r) \/ GetChain(r) \/ GetCRL(r)
     \/ IsLoggedIn(r) \/ Login(r) \/ Logout(r) \/ Reset(r)

-----------------------------------------------------------------------------
(* answers of the providers *)

\* Items under the names of new, over those that had them.
Over(new, old) ==
  [i \in DOMAIN new \cup DOMAIN old |-> IF i \in DOMAIN new THEN new[i] ELSE old[i]]

\* The items are added to the memory storage, and their names are answered.
Tell(r, new) ==
  /\ memory' = Over(new, memory)
  /\ told' = told \cup {[name |-> i, item |-> new[i]] : i \in DOMAIN new}
  /\ Answer(r)

Item(r, k) == [is |-> k, of |-> req[r].of]

\* The items of a key, or of a certificate and its public key, of a token; and
\* of such in software, numbered by the counter of the provider's object: an
\* imported certificate takes a number too.
Taken(r) == IF req[r].work = "import" /\ req[r].type = "x509" THEN 2 ELSE 1

OwnItems(r, type, k) ==
  [i \in IF type = "key" THEN {Own(req[r].t, "key", k)}
         ELSE {Own(req[r].t, "public", k), Own(req[r].t, "x509", k)} |-> Item(r, k)]

\* The counter's last number goes to the key.
SoftItems(r, type, k) ==
  LET key == Soft(req[r].t, osslID[req[r].t][req[r].of] + Taken(r)) IN
  [i \in IF type = "key" THEN {key} ELSE {key, Own(req[r].t, "x509", k)} |-> Item(r, k)]

\* Mutant: the counter is read, and not increased.
CountIDNot(r) == UNCHANGED osslID
CountID(r) == osslID' = [osslID EXCEPT ![req[r].t][req[r].of] = @ + Taken(r)]

\* The provider did what it was asked for, while it had a session; getItem may
\* have found nothing.
Succeeds(r) ==
  LET w == req[r] IN
  /\ w.at = "crypto" /\ w.live
  /\ \/ /\ w.work \in {"answer", "get"}
        /\ Answer(r)
        /\ UNCHANGED <<memory, made, told>>
     \/ /\ w.work = "get"
        /\ Tell(r, OwnItems(r, w.type, w.k))
        /\ UNCHANGED made
     \/ /\ w.work \in {"make", "import"}
        /\ made' = made + 1
        /\ Tell(r, OwnItems(r, w.type, made'))
     \/ /\ w.work = "pair"
        /\ made' = made + 2
        /\ Tell(r, Over(OwnItems(r, "key", made + 1), OwnItems(r, "key", made + 2)))
  /\ UNCHANGED <<tokenVars, loggedIn, osslID, files, asked, kept, raced>>

\* Its error is the answer, but to an import.
Fails(r) ==
  /\ req[r].at = "crypto" /\ req[r].work # "import"
  /\ Answer(r)
  /\ UNCHANGED <<tokenVars, loggedIn, storeVars, asked, historyVars>>

-----------------------------------------------------------------------------
(* software: what a token failed to import, or to read *)

Wait(r, at, k, read) ==
  req' = [req EXCEPT ![r] = [@ EXCEPT !.at = at, !.k = k, !.read = read]]

Writing == {r \in Requests : req[r].at \in {"digest", "reload"} /\ req[r].type = "key"}

\* The token's provider failed.  A key that is to be stored is digested between
\* the reading of the file and its writing; a certificate is added at once.
\* A certificate of the token that the provider cannot read is read in software.
ImportInSoftware(r) ==
  LET w == req[r]  k == made + 1 IN
  /\ w.at = "crypto" /\ w.work = "import"
  /\ made' = k
  /\ \/ /\ ~ w.token
        /\ Tell(r, SoftItems(r, w.type, k))
        /\ CountID(r)
        /\ UNCHANGED <<files, raced>>
     \/ /\ w.token /\ w.type = "key"
        /\ Wait(r, "digest", k, files["key"])
        /\ raced' = IF Writing = {} THEN raced
                    ELSE raced \cup {k} \cup {req[q].k : q \in Writing}
        /\ UNCHANGED <<files, memory, osslID, told>>
     \/ /\ w.token /\ w.type = "x509"
        /\ files' = [files EXCEPT !["x509"] = @ \cup {k}]
        /\ Wait(r, "reload", k, {})
        /\ UNCHANGED <<memory, osslID, told, raced>>
     \/ /\ Answer(r)
        /\ UNCHANGED <<files, memory, osslID, told, raced>>
  /\ UNCHANGED <<tokenVars, loggedIn, asked, kept>>

GetCertInSoftware(r) ==
  /\ req[r].at = "crypto" /\ req[r].live /\ req[r].work = "get" /\ req[r].type = "x509"
  /\ Tell(r, SoftItems(r, "x509", req[r].k))
  /\ CountID(r)
  /\ UNCHANGED <<tokenVars, loggedIn, files, made, asked, kept, raced>>

\* Mutant: the file is written with the new key alone.
WithKeyAlone(r) == {req[r].k}
WithKey(r) == req[r].read \cup {req[r].k}

\* OpenSSLKeyStorage.setItem writes what it read, with the key, and getItem reads it.
WriteKey(r) ==
  /\ req[r].at = "digest"
  /\ files' = [files EXCEPT !["key"] = WithKey(r)]
  /\ Wait(r, "reload", req[r].k, files'["key"])
  /\ UNCHANGED <<tokenVars, loggedIn, osslID, memory, made, asked, historyVars>>

\* getItem writes what it read again, with the date of the last use.
Reload(r) ==
  LET w == req[r] IN
  /\ w.at = "reload"
  /\ files' = IF w.type = "key" THEN [files EXCEPT !["key"] = w.read] ELSE files
  /\ Tell(r, SoftItems(r, w.type, w.k))
  /\ CountID(r)
  /\ kept' = IF w.type = "key" THEN kept \cup {w.k} ELSE kept
  /\ UNCHANGED <<tokenVars, loggedIn, made, asked, raced>>

\* A key that cannot be exported or imported again.
StoreFails(r) ==
  /\ req[r].at \in {"digest", "reload"}
  /\ Answer(r)
  /\ UNCHANGED <<tokenVars, loggedIn, storeVars, asked, historyVars>>

-----------------------------------------------------------------------------
(* the prompt of a login *)

\* Mutant: the provider in the map is logged in, not that which the PIN was for.
PinReachesMap(r, right) == right
PinReaches(r, right) == right /\ req[r].of = cryptos[req[r].t] /\ req[r].t \in open

\* The user enters a PIN, or closes the prompt.  The handler logs in the provider
\* that it got before, which fails without a session.
AnswerPrompt(r, right) ==
  /\ req[r].at = "prompt"
  /\ IF PinReaches(r, right)
     THEN loggedIn' = loggedIn \cup {req[r].t} /\ Answer(r)
     ELSE UNCHANGED loggedIn /\ Answer(r)
  /\ UNCHANGED <<tokenVars, storeVars, asked, historyVars>>

-----------------------------------------------------------------------------

Progress(r) ==
  \/ Succeeds(r) \/ Fails(r)
  \/ ImportInSoftware(r) \/ GetCertInSoftware(r) \/ WriteKey(r) \/ Reload(r) \/ StoreFails(r)

Next ==
  \/ \E t \in Tokens : InsertToken(t) \/ AnnounceToken(t) \/ RemoveToken(t)
  \/ Close
  \/ \E r \in Requests : Message(r) \/ Progress(r) \/ \E right \in BOOLEAN : AnswerPrompt(r, right)

Spec == Init /\ [][Next]_vars

-----------------------------------------------------------------------------
(* properties *)

\* While its token's provider is the one that gave it, and no answer of the one
\* before it came under that name since, a name that a client was told stands for
\* the same key or certificate, whatever other clients do and other tokens come
\* and go.  A garbled name stands for something, maybe for what came later.
NamesHold ==
  \A h \in told :
    cryptos[h.name.token] = h.item.of /\ h.name.token \in open =>
      /\ h.name \in DOMAIN memory
      /\ memory[h.name].of = h.item.of /\ h.name.type # "garbled" =>
           memory[h.name].is = h.item.is

\* A key that a client was told is stored in software is in the file, unless
\* another was stored at the same time: both read the file before either wrote it.
KeysAreKept == kept \subseteq files["key"] \cup raced

\* A provider that claims to be logged in has a session, unless its token was
\* taken out after it was announced, although the PIN may be entered at any time.
LoginsAreReal == loggedIn \subseteq open \cup renamed
=============================================================================
