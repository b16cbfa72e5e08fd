----------------------------- MODULE SignalKeys -----------------------------
(***************************************************************************)
(* The keys of one account (device 1, the only number the client uses) and *)
(* the first messages encrypted with them.                                 *)
(*                                                                         *)
(* A browser keeps the private keys in IndexedDB and uploads the public    *)
(* ones (hichat/src/services/signal.service.ts); the server hands out one  *)
(* bundle per first contact (SignalKeyRepository.ts); the sender builds a  *)
(* session on it (hooks/useEncryption.ts), and the browser opens the       *)
(* message with the private keys it has by then.                           *)
(*                                                                         *)
(* Key ids are always 1..PreKeyCount and the signed prekey's is always 1,  *)
(* so new keys overwrite old ones.  A key pair is named by the generation, *)
(* a number, in which it was made; 0 is no key.                            *)
(***************************************************************************)
EXTENDS Naturals, FiniteSetsExt

CONSTANTS
    Browsers,       \* of the owner of the keys, each with a vault of its own
    Pages,          \* runs of the client's key initialisation
    Sends,          \* messages to the owner
    Peers, PeerOf,  \* and who sends them
    Reads,          \* decryptions in progress
    PreKeyCount,
    MaxGenerations, \* bounds the generations
    MaxFaults,      \* runs cut off
    Nobody

ASSUME KeysAssumption ==
    /\ PeerOf \in [Sends -> Peers]
    /\ PreKeyCount \in Nat \ {0} /\ MaxGenerations \in Nat /\ MaxFaults \in Nat
    /\ IsFiniteSet(Pages) /\ IsFiniteSet(Sends)
    /\ Nobody \notin Browsers \cup Sends

VARIABLES
    vault,      \* IndexedDB of each browser
    published,  \* user_devices, signed_prekeys, one_time_prekeys
    page,       \* key initialisations in progress
    send,       \* each message, from the look-up of a session on
    session,    \* per sender, the message its session was built for
    trusted,    \* per sender, the identity it saved for the owner
    read,       \* decryptions in progress
    inbound,    \* per browser, the sessions it has with senders
    opened,     \* messages decrypted
    failed,     \* messages whose decryption failed
    made,       \* generations so far
    faults,
    met         \* history: what has overlapped

vars == <<vault, published, page, send, session, trusted, read, inbound, opened,
          failed, made, faults, met>>

Generations == 0..MaxGenerations
KeyIds == 1..PreKeyCount

Keys == [identity : Generations, signed : Generations, pre : [KeyIds -> Generations]]

NoKeys == [identity |-> 0, signed |-> 0, pre |-> [k \in KeyIds |-> 0]]

Bundle == [identity : Generations, signed : Generations, by : Generations,
           id : 0..PreKeyCount, pre : Generations]

NoBundle == [identity |-> 0, signed |-> 0, by |-> 0, id |-> 0, pre |-> 0]

PageLabels == {"idle", "load", "save", "count", "generate", "saveFirst",
               "storeSigned", "storePre", "upload"}
SendLabels == {"new", "device", "signed", "pre", "delete", "check", "process",
               "sent", "refused"}

PageType == [at : PageLabels, browser : Browsers \cup {Nobody}, own : Generations,
             identity : Generations, batch : Generations, next : 1..PreKeyCount + 1]
SendType == [at : SendLabels, bundle : Bundle, base : Sends \cup {Nobody}]
ReadType == [at : {"idle", "finish"}, message : Sends \cup {Nobody},
             browser : Browsers \cup {Nobody}, ok : BOOLEAN]

NoPage == [at |-> "idle", browser |-> Nobody, own |-> 0, identity |-> 0, batch |-> 0,
           next |-> 1]
NewSend == [at |-> "new", bundle |-> NoBundle, base |-> Nobody]
NoRead == [at |-> "idle", message |-> Nobody, browser |-> Nobody, ok |-> FALSE]

Writing(p) == p.at \in {"save", "saveFirst", "storeSigned", "storePre", "upload"}
Fetching(s) == s.at \in {"signed", "pre", "delete"}

\* Two writers of keys; a writer and a reader of them; two fetches.
Overlaps(pages, sends, reads) ==
    LET writers == {p \in Pages : Writing(pages[p])}
        fetches == {s \in Sends : Fetching(sends[s])}
        readers == fetches \cup {r \in Reads : reads[r].at = "finish"}
    IN {o \in {"writers", "readers", "fetches"} :
            \/ o = "writers" /\ Cardinality(writers) > 1
            \/ o = "readers" /\ writers # {} /\ readers # {}
            \/ o = "fetches" /\ Cardinality(fetches) > 1}

Watch == met' = met \cup Overlaps(page', send', read')

Init == /\ vault = [b \in Browsers |-> NoKeys]
        /\ published = NoKeys
        /\ page = [p \in Pages |-> NoPage]
        /\ send = [s \in Sends |-> NewSend]
        /\ session = [p \in Peers |-> Nobody]
        /\ trusted = [p \in Peers |-> 0]
        /\ read = [r \in Reads |-> NoRead]
        /\ inbound = [b \in Browsers |-> {}]
        /\ opened = {} /\ failed = {}
        /\ made = 0 /\ faults = 0 /\ met = {}

-----------------------------------------------------------------------------
(* The owner's page: loadOrGenerateUserKeys and syncSignalKeysIfNeeded, or *)
(* initializeSignalKeys after a registration.  One action per await.       *)

browserSide == <<vault, made>>
senderSide == <<send, session, trusted>>
readerSide == <<read, inbound, opened, failed>>

PageStep(p, from, to) ==
    /\ page[p].at = from
    /\ page' = [page EXCEPT ![p] = to]
    /\ UNCHANGED <<senderSide, readerSide>>
    /\ Watch

PageGoto(p, from, label) == PageStep(p, from, [page[p] EXCEPT !.at = label])

Vault(p) == vault[page[p].browser]

\* Chat.jsx runs it on every change of room, user or status, in every tab.
OpenPage(p, b, label) ==
    /\ PageStep(p, "idle", [NoPage EXCEPT !.at = label, !.browser = b])
    /\ UNCHANGED <<vault, published, made, faults>>

\* Login.jsx runs it once, when the account has just been made.
Register(p, b) ==
    /\ made = 0 /\ faults = 0 /\ \A q \in Pages : page[q].at = "idle"
    /\ OpenPage(p, b, "generate")

\* An identity that is missing is made; another page may be making one, too.
MakeIdentity(p, from, label) ==
    /\ page[p].at = from /\ Vault(p).identity = 0
    /\ made < MaxGenerations
    /\ made' = made + 1
    /\ PageStep(p, from, [page[p] EXCEPT !.at = label, !.own = made'])
    /\ UNCHANGED <<vault, published, faults>>

\* saveIdentity's two awaits, the key pair's and the registration id's, are one step: who
\* reads an identity asks for both and takes one without the other for none.
SaveIdentity(p, from, to) ==
    /\ PageStep(p, from, to)
    /\ vault' = [vault EXCEPT ![page[p].browser].identity = page[p].own]
    /\ UNCHANGED <<published, made, faults>>

LoadIdentity(p) ==
    /\ PageGoto(p, "load", "count")
    /\ Vault(p).identity # 0
    /\ UNCHANGED <<vault, published, made, faults>>

\* A request that fails counts as a pool that is empty.
Count(p) ==
    /\ \/ PageGoto(p, "count", "generate")
       \/ /\ \E k \in KeyIds : published.pre[k] # 0
          /\ PageStep(p, "count", NoPage)
    /\ UNCHANGED <<vault, published, made, faults>>

\* generateSignalPreKeyBundle reads the identity again, then makes a batch.
Batch(p, from, identity, batch) ==
    PageStep(p, from, [page[p] EXCEPT !.at = "storeSigned", !.identity = identity,
                          !.batch = batch, !.own = 0])

Generate(p) ==
    /\ made < MaxGenerations
    /\ made' = made + 1
    /\ Batch(p, "generate", Vault(p).identity, made')
    /\ Vault(p).identity # 0
    /\ UNCHANGED <<vault, published, faults>>

\* The batch is of the same generation as the identity: no key of another kind is
\* compared with either.
GenerateFirst(p) ==
    /\ Batch(p, "saveFirst", page[p].own, page[p].own)
    /\ vault' = [vault EXCEPT ![page[p].browser].identity = page[p].own]
    /\ UNCHANGED <<published, made, faults>>

StoreSigned(p) ==
    /\ PageGoto(p, "storeSigned", "storePre")
    /\ vault' = [vault EXCEPT ![page[p].browser].signed = page[p].batch]
    /\ UNCHANGED <<published, made, faults>>

\* for (let i = 0; i < preKeyCount; i++), keys from 1 on
Last(p) == page[p].next = PreKeyCount

\* mutant: i <= preKeyCount
StorePreOneMore(p) ==
    /\ PageStep(p, "storePre", [page[p] EXCEPT !.next = @ + 1,
                                   !.at = IF page[p].next > PreKeyCount THEN "upload"
                                          ELSE "storePre"])
    /\ vault' = [vault EXCEPT ![page[p].browser].pre[page[p].next] = page[p].batch]
    /\ UNCHANGED <<published, made, faults>>

\* mutant: the last key of the batch is not stored
StorePreButLast(p) ==
    /\ PageStep(p, "storePre", [page[p] EXCEPT !.next = @ + 1,
                                   !.at = IF Last(p) THEN "upload" ELSE "storePre"])
    /\ vault' = IF Last(p) THEN vault
                ELSE [vault EXCEPT ![page[p].browser].pre[page[p].next] = page[p].batch]
    /\ UNCHANGED <<published, made, faults>>

StorePre(p) ==
    /\ PageStep(p, "storePre", [page[p] EXCEPT !.next = @ + 1,
                                   !.at = IF Last(p) THEN "upload" ELSE "storePre"])
    /\ vault' = [vault EXCEPT ![page[p].browser].pre[page[p].next] = page[p].batch]
    /\ UNCHANGED <<published, made, faults>>

\* mutant: ON CONFLICT DO NOTHING for one-time prekeys
SavedIfAbsent(p) ==
    [identity |-> page[p].identity, signed |-> page[p].batch,
     pre |-> [k \in KeyIds |-> IF published.pre[k] = 0 THEN page[p].batch
                               ELSE published.pre[k]]]

\* saveKeyBundle: ON CONFLICT ... DO UPDATE, in one transaction
Saved(p) == [identity |-> page[p].identity, signed |-> page[p].batch,
             pre |-> [k \in KeyIds |-> page[p].batch]]

Upload(p) ==
    /\ published' = Saved(p)
    /\ PageStep(p, "upload", NoPage)
    /\ UNCHANGED <<vault, made, faults>>

\* The page is closed, or the upload is rejected.
CutOff(p) ==
    /\ page[p].at # "idle"
    /\ faults < MaxFaults
    /\ faults' = faults + 1
    /\ page' = [page EXCEPT ![p] = NoPage]
    /\ UNCHANGED <<vault, published, made, senderSide, readerSide>>
    /\ Watch

-----------------------------------------------------------------------------
(* A sender: encryptMessage of useEncryption and of signal.service.ts,     *)
(* with fetchAndConsumePreKeyBundle, whose statements are read one by one  *)
(* (READ COMMITTED).                                                       *)

Me(s) == PeerOf[s]
Its(s) == send[s].bundle

SendStep(s, from, to) ==
    /\ send[s].at = from
    /\ send' = [send EXCEPT ![s] = to]
    /\ UNCHANGED <<browserSide, page, readerSide, faults>>
    /\ Watch

Fetched(s, from, label, bundle) ==
    /\ SendStep(s, from, [send[s] EXCEPT !.at = label, !.bundle = bundle])
    /\ UNCHANGED <<published, session, trusted>>

\* With a session the message is sent under it.
UnderSession(s, from) ==
    /\ session[Me(s)] # Nobody
    /\ SendStep(s, from, [at |-> "sent", base |-> session[Me(s)],
                          bundle |-> Its(session[Me(s)])])
    /\ UNCHANGED <<published, session, trusted>>

BeginSend(s) ==
    /\ session[Me(s)] = Nobody
    /\ Fetched(s, "new", "device", NoBundle)

FetchDevice(s) ==
    Fetched(s, "device", IF published.identity = 0 THEN "refused" ELSE "signed",
            [NoBundle EXCEPT !.identity = published.identity])

FetchSigned(s) ==
    Fetched(s, "signed", "pre",
            [Its(s) EXCEPT !.signed = published.signed, !.by = published.identity])

\* ORDER BY key_id ASC LIMIT 1
Offered == {k \in KeyIds : published.pre[k] # 0}

FetchPre(s) ==
    \/ /\ Offered = {}
       /\ Fetched(s, "pre", "check", Its(s))
    \/ /\ Offered # {}
       /\ LET k == Min(Offered)
          IN Fetched(s, "pre", "delete", [Its(s) EXCEPT !.id = k, !.pre = published.pre[k]])

\* mutant: the key stays in the pool
ConsumeNothing(s) == published' = published

Consume(s) == published' = [published EXCEPT !.pre[Its(s).id] = 0]

FetchDelete(s) ==
    /\ SendStep(s, "delete", [send[s] EXCEPT !.at = "check"])
    /\ Consume(s)
    /\ UNCHANGED <<session, trusted>>

NoSessionYet(s) ==
    /\ session[Me(s)] = Nobody
    /\ Fetched(s, "check", "process", Its(s))

\* processPreKey: an identity other than the saved one, or a signature by another
\* identity, is refused.
Accepts(s) == /\ trusted[Me(s)] \in {0, Its(s).identity}
              /\ Its(s).by = Its(s).identity

Process(s) ==
    /\ Accepts(s)
    /\ SendStep(s, "process", [send[s] EXCEPT !.at = "sent", !.base = s])
    /\ session' = [session EXCEPT ![Me(s)] = s]
    /\ trusted' = [trusted EXCEPT ![Me(s)] = Its(s).identity]
    /\ UNCHANGED published

Refuse(s) ==
    /\ ~Accepts(s)
    /\ Fetched(s, "process", "refused", Its(s))

-----------------------------------------------------------------------------
(* decryptMessage: the library looks for the session, else for the keys,   *)
(* and deletes the one-time key when it has succeeded.                     *)

Waiting == {s \in Sends : send[s].at = "sent"} \ (opened \cup failed)

HasKeys(s, b) ==
    /\ vault[b].identity = Its(s).identity
    /\ vault[b].signed = Its(s).signed
    /\ Its(s).id # 0 => vault[b].pre[Its(s).id] = Its(s).pre

\* Decryptions of one sender's messages queue up.
Receive(r, s, b) ==
    /\ read[r].at = "idle"
    /\ s \in Waiting
    /\ \A q \in Reads : read[q].at = "finish" => Me(read[q].message) # Me(s)
    /\ read' = [read EXCEPT ![r] = [at |-> "finish", message |-> s, browser |-> b,
                      ok |-> send[s].base \in inbound[b] \/ HasKeys(s, b)]]
    /\ UNCHANGED <<browserSide, published, page, senderSide, inbound, opened, failed,
                   faults>>
    /\ Watch

\* removePreKey goes by the id.
Without(keys, k) == IF k = 0 THEN keys ELSE [keys EXCEPT !.pre[k] = 0]

Finish(r) ==
    LET s == read[r].message
        b == read[r].browser
        first == send[s].base \notin inbound[b]
    IN
    /\ read[r].at = "finish"
    /\ read' = [read EXCEPT ![r] = NoRead]
    /\ \/ /\ read[r].ok
          /\ opened' = opened \cup {s}
          /\ inbound' = [inbound EXCEPT ![b] = @ \cup {send[s].base}]
          /\ vault' = IF first THEN [vault EXCEPT ![b] = Without(@, Its(s).id)] ELSE vault
          /\ failed' = failed
       \/ /\ ~read[r].ok
          /\ failed' = failed \cup {s}
          /\ UNCHANGED <<vault, inbound, opened>>
    /\ UNCHANGED <<published, page, senderSide, made, faults>>
    /\ Watch

-----------------------------------------------------------------------------
Page(p) ==
    \/ \E b \in Browsers : OpenPage(p, b, "load") \/ Register(p, b)
    \/ MakeIdentity(p, "load", "save")
    \/ SaveIdentity(p, "save", [page[p] EXCEPT !.at = "count", !.own = 0])
    \/ LoadIdentity(p) \/ Count(p)
    \/ MakeIdentity(p, "generate", "saveFirst") \/ GenerateFirst(p)
    \/ Generate(p) \/ StoreSigned(p) \/ StorePre(p) \/ Upload(p)
    \/ CutOff(p)

Send(s) ==
    \/ UnderSession(s, "new") \/ BeginSend(s)
    \/ FetchDevice(s) \/ FetchSigned(s) \/ FetchPre(s) \/ FetchDelete(s)
    \/ UnderSession(s, "check") \/ NoSessionYet(s) \/ Process(s) \/ Refuse(s)

Read(r) == Finish(r) \/ \E s \in Sends, b \in Browsers : Receive(r, s, b)

Next == \/ \E p \in Pages : Page(p)
        \/ \E s \in Sends : Send(s)
        \/ \E r \in Reads : Read(r)

Spec == Init /\ [][Next]_vars

-----------------------------------------------------------------------------
(* Every run, message and key has its shape.                               *)
TypeOK ==
    /\ vault \in [Browsers -> Keys]
    /\ published \in Keys
    /\ page \in [Pages -> PageType]
    /\ send \in [Sends -> SendType]
    /\ session \in [Peers -> Sends \cup {Nobody}]
    /\ trusted \in [Peers -> Generations]
    /\ read \in [Reads -> ReadType]
    /\ inbound \in [Browsers -> SUBSET Sends]
    /\ opened \subseteq Sends /\ failed \subseteq Sends
    /\ made \in Generations /\ faults \in 0..MaxFaults
    /\ met \subseteq {"writers", "readers", "fetches"}

\* Between runs, what the server hands out some browser can use: unless two runs
\* overlapped, or a decryption did with a run, or a run was cut off, it has the
\* private key of every published key, in the same generation.
PublishedIsHeld ==
    /\ met \cap {"writers", "readers"} = {} /\ faults = 0
    /\ \A p \in Pages : ~Writing(page[p])
    /\ published.identity # 0
    => \E b \in Browsers : /\ vault[b].identity = published.identity
                           /\ vault[b].signed = published.signed
                           /\ \A k \in Offered : vault[b].pre[k] = published.pre[k]

\* the message's session rests on a one-time key that another's rests on too
Shared(s) == \E t \in Sends \ {send[s].base} :
                /\ send[t].base = t
                /\ Its(t).id # 0 /\ Its(t).id = Its(s).id /\ Its(t).pre = Its(s).pre

\* A message that cannot be opened is one whose keys were overwritten since, or
\* whose one-time key was handed out twice; nothing else loses a first contact.
FailureIsExplained ==
    met \cap {"writers", "readers"} = {} /\ faults = 0 =>
        \A s \in failed : \/ Shared(s)
                          \/ \E b \in Browsers : vault[b].signed # Its(s).signed

HandedOut(s) == send[s].at \in {"check", "process", "sent", "refused"}
                    /\ send[s].base \in {s, Nobody} /\ Its(s).id # 0

\* A one-time key goes to one sender, unless their fetches overlapped.
HandedOutOnce ==
    "fetches" \notin met =>
        \A s, t \in Sends : s # t /\ HandedOut(s) /\ HandedOut(t) =>
            <<Its(s).id, Its(s).pre>> # <<Its(t).id, Its(t).pre>>

-----------------------------------------------------------------------------
(* What the documents say and the code does not do.                        *)

\* A first message reaches its recipient "without requiring both parties to be
\* online simultaneously": it can be opened whenever it arrives.
FirstMessageOpens == failed = {}
=============================================================================
