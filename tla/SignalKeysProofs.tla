-------------------------- MODULE SignalKeysProofs --------------------------
(***************************************************************************)
(* The safety of SignalKeys for any browsers, runs of the key              *)
(* initialisation, messages, senders and any number of keys.               *)
(*                                                                         *)
(* The keys of a message are followed from the run that makes them to the  *)
(* decryption that removes one.  A batch in the making is a generation     *)
(* nobody has seen (Generated), so what a run writes and publishes is never *)
(* taken for what was handed out before; a key that was handed out has     *)
(* left the pool (Taken), and while it is about to, nobody else has it     *)
(* (TakenAlone).  As long as runs and decryptions kept apart (Calm), each  *)
(* browser that has the signed prekey the server has holds every key on    *)
(* offer (HeldOrReplaced), and each that has the signed prekey of a message *)
(* can open it, or has used its one-time key for another (Opens).          *)
(***************************************************************************)
EXTENDS SignalKeys, FiniteSetTheorems, WellFoundedInduction, TLAPS

\* The runs that have made a batch nobody else has seen, and its generation.
Making(p) == p.at \in {"saveFirst", "storeSigned", "storePre", "upload"}
Mine(p) == IF p.at = "saveFirst" THEN p.own ELSE p.batch

Storing(p) == p.at \in {"storeSigned", "storePre", "upload"}

PageShaped(p) ==
    /\ p.at # "idle" => p.browser \in Browsers
    /\ p.at = "storePre" => p.next \in KeyIds
    /\ p.at \notin {"storePre", "upload", "idle"} => p.next = 1
    /\ p.at \in {"save", "saveFirst"} => p.own # 0
    /\ Storing(p) => p.identity # 0

\* The generations the server has, or has given to a sender.
Out == {published.signed} \cup {published.pre[k] : k \in KeyIds}
          \cup {Its(s).signed : s \in Sends} \cup {Its(s).pre : s \in Sends}

\* A batch in the making is nowhere but in its own browser.
Unseen(p) ==
    /\ Mine(page[p]) \in 1..made
    /\ Mine(page[p]) \notin Out
    /\ \A b \in Browsers : vault[b].signed = Mine(page[p]) =>
          b = page[p].browser /\ page[p].at \in {"storePre", "upload"}

Generated ==
    /\ \A g \in Out : g <= made
    /\ \A b \in Browsers : vault[b].signed <= made
    /\ \A p \in Pages : Making(page[p]) => Unseen(p)
    /\ \A p, q \in Pages : p # q /\ Making(page[p]) /\ Making(page[q]) =>
          Mine(page[p]) # Mine(page[q])

\* What the server has is of one batch.
PublishedShaped ==
    /\ published.identity = 0 <=> published.signed = 0
    /\ \A k \in KeyIds : published.pre[k] \in {0, published.signed}

\* It has a signed prekey.
Bundled(s) == send[s].at \in {"pre", "delete", "check", "process", "sent"}
Done(s) == send[s].at \in {"check", "process", "sent", "refused"}

SendShaped(s) ==
    /\ send[s].at \in {"new", "device", "signed", "pre"} => Its(s).id = 0
    /\ send[s].at = "delete" => Its(s).id # 0
    /\ Its(s).id # 0 => Its(s).pre # 0
    /\ send[s].at = "sent" => /\ send[s].base \in Sends
                              /\ send[send[s].base] = send[s]
    /\ send[s].at # "sent" => send[s].base = Nobody
    /\ send[s].at \in {"signed", "pre", "delete", "check", "process", "sent"} =>
          /\ Its(s).identity # 0
          /\ published.identity # 0
    /\ Bundled(s) => Its(s).signed # 0

\* A key that was handed out is in the pool no more.
Taken(s) == Done(s) /\ Its(s).id # 0 => published.pre[Its(s).id] # Its(s).pre

SessionShaped(x) == session[x] # Nobody =>
    /\ send[session[x]].at = "sent"
    /\ send[session[x]].base = session[x]

ReadShaped(r) == read[r].at = "finish" =>
    /\ read[r].message \in Sends /\ read[r].browser \in Browsers
    /\ send[read[r].message].at = "sent"

SameKey(s, t) == <<Its(s).id, Its(s).pre>> = <<Its(t).id, Its(t).pre>>

\* While a fetch is about to delete a key, nobody has been given it.
TakenAlone ==
    "fetches" \notin met =>
        \A s, t \in Sends : send[s].at = "delete" /\ Done(t) => ~SameKey(s, t)

-----------------------------------------------------------------------------
(* What holds while runs and decryptions have kept apart.                  *)

Calm == met \cap {"writers", "readers"} = {} /\ faults = 0

\* What a run has put into its browser.
Put(p) ==
    LET g == page[p]
        v == vault[g.browser]
    IN /\ g.at \in {"save", "saveFirst"} => v.identity = 0
       /\ Storing(g) => v.identity = g.identity
       /\ g.at \in {"storePre", "upload"} => v.signed = g.batch
       /\ g.at = "storePre" => \A k \in 1..g.next - 1 : v.pre[k] = g.batch
       /\ g.at = "upload" => \A k \in KeyIds : v.pre[k] = g.batch

Holds(b) == /\ vault[b].identity = published.identity
            /\ \A k \in Offered : vault[b].pre[k] = published.pre[k]

\* What the server hands out, each browser has that has the signed prekey.
HeldOrReplaced ==
    /\ published.signed # 0 =>
          \A b \in Browsers : vault[b].signed = published.signed => Holds(b)
    /\ published.signed # 0 /\ (\A p \in Pages : ~Storing(page[p])) =>
          \E b \in Browsers : vault[b].signed = published.signed

\* A fetch sees one batch.
OfOneBatch(s) ==
    /\ Fetching(send[s]) => Its(s).identity = published.identity
    /\ send[s].at \in {"pre", "delete"} => Its(s).signed = published.signed
    /\ Its(s).id # 0 => Its(s).pre = Its(s).signed

UsedIn(b, s) == \E x \in inbound[b] : x \in Sends /\ send[x].base = x /\ SameKey(x, s)

\* A browser that has the signed prekey of a message can open it, or has used its key.
Opens(s, b) ==
    /\ Bundled(s)
    /\ vault[b].signed = Its(s).signed
    => /\ vault[b].identity = Its(s).identity
       /\ Its(s).id # 0 => vault[b].pre[Its(s).id] = Its(s).pre \/ UsedIn(b, s)

\* The key a decryption has found is there until it is removed.
Found(r) ==
    LET s == read[r].message  b == read[r].browser
    IN read[r].at = "finish" /\ read[r].ok /\ Its(s).id # 0 =>
          \/ send[s].base \in inbound[b]
          \/ vault[b].pre[Its(s).id] \in {0, Its(s).pre}

Explained(s) == Shared(s) \/ \E b \in Browsers : vault[b].signed # Its(s).signed

Quiet ==
    /\ \A p \in Pages : Put(p)
    /\ HeldOrReplaced
    /\ \A s \in Sends : OfOneBatch(s)
    /\ \A s \in Sends, b \in Browsers : Opens(s, b)
    /\ \A r \in Reads : Found(r)
    /\ \A s \in failed : Explained(s)
    /\ \A r \in Reads : read[r].at = "finish" /\ ~read[r].ok => Explained(read[r].message)

Inv ==
    /\ TypeOK
    /\ Overlaps(page, send, read) \subseteq met
    /\ \A p \in Pages : PageShaped(page[p])
    /\ Generated
    /\ PublishedShaped
    /\ \A s \in Sends : SendShaped(s) /\ Taken(s)
    /\ \A x \in Peers : SessionShaped(x)
    /\ \A r \in Reads : ReadShaped(r)
    /\ \A s \in failed : send[s].at = "sent"
    /\ TakenAlone
    /\ HandedOutOnce
    /\ Calm => Quiet

-----------------------------------------------------------------------------
(* The types of the parts of a step.                                       *)

LEMMA Numbers ==
  /\ PreKeyCount \in Nat \ {0} /\ MaxGenerations \in Nat /\ MaxFaults \in Nat
  /\ 0 \in Generations /\ \A g \in Generations : g \in Nat
  /\ \A k \in KeyIds : k \in Nat /\ k # 0 /\ k \in 0..PreKeyCount
  /\ \A k \in 0..PreKeyCount : k # 0 => k \in KeyIds
  /\ 1 \in KeyIds
  BY KeysAssumption DEF Generations, KeyIds

LEMMA Members ==
  /\ \A l \in {"idle", "load", "save", "count", "generate", "saveFirst",
               "storeSigned", "storePre", "upload"} : l \in PageLabels
  /\ \A l \in {"new", "device", "signed", "pre", "delete", "check", "process",
               "sent", "refused"} : l \in SendLabels
  BY DEF PageLabels, SendLabels

LEMMA Empty ==
  /\ NoPage \in PageType /\ NoPage.at = "idle" /\ NoPage.own = 0 /\ NoPage.next = 1
  /\ NoKeys \in Keys /\ NoKeys.identity = 0 /\ NoKeys.signed = 0
  /\ \A k \in KeyIds : NoKeys.pre[k] = 0
  /\ NoBundle \in Bundle /\ NoBundle.id = 0 /\ NoBundle.pre = 0 /\ NoBundle.signed = 0
  /\ NewSend \in SendType /\ NewSend.at = "new" /\ NewSend.base = Nobody
  /\ NewSend.bundle = NoBundle
  /\ NoRead \in ReadType /\ NoRead.at = "idle"
<1>1. 1 \in 1..PreKeyCount + 1 /\ 0 \in 0..PreKeyCount
  BY KeysAssumption
<1>2. NoPage \in PageType
  BY <1>1, Numbers, Members DEF NoPage, PageType
<1>3. NoKeys \in Keys
  BY Numbers DEF NoKeys, Keys
<1>4. NoBundle \in Bundle
  BY <1>1, Numbers DEF NoBundle, Bundle
<1>5. NewSend \in SendType
  BY <1>4, Members DEF NewSend, SendType
<1>6. NoRead \in ReadType
  BY DEF NoRead, ReadType
<1>. QED
  BY <1>2, <1>3, <1>4, <1>5, <1>6 DEF NoPage, NoKeys, NoBundle, NewSend, NoRead

LEMMA PageFields ==
  ASSUME NEW r \in PageType
  PROVE  /\ r.at \in PageLabels /\ r.browser \in Browsers \cup {Nobody}
         /\ r.own \in Generations /\ r.identity \in Generations
         /\ r.batch \in Generations /\ r.next \in 1..PreKeyCount + 1
  BY DEF PageType

LEMMA PageGoes ==
  ASSUME NEW r \in PageType, NEW a \in PageLabels
  PROVE  /\ [r EXCEPT !.at = a] \in PageType /\ [r EXCEPT !.at = a].at = a
         /\ [r EXCEPT !.at = a].browser = r.browser /\ [r EXCEPT !.at = a].own = r.own
         /\ [r EXCEPT !.at = a].identity = r.identity
         /\ [r EXCEPT !.at = a].batch = r.batch /\ [r EXCEPT !.at = a].next = r.next
  BY DEF PageType

Batched(r, i, g) == [r EXCEPT !.at = "storeSigned", !.identity = i, !.batch = g, !.own = 0]

LEMMA PageBatches ==
  ASSUME NEW r \in PageType, NEW i \in Generations, NEW g \in Generations
  PROVE  LET q == Batched(r, i, g)
         IN /\ q \in PageType /\ q.at = "storeSigned" /\ q.identity = i /\ q.batch = g
            /\ q.browser = r.browser /\ q.next = r.next
<1>. DEFINE t == [r EXCEPT !.at = "storeSigned", !.identity = i]
<1>1. t \in PageType /\ t.at = "storeSigned" /\ t.identity = i
      /\ t.browser = r.browser /\ t.next = r.next
  BY Members DEF PageType
<1>2. Batched(r, i, g) = [t EXCEPT !.batch = g, !.own = 0]
  BY DEF Batched
<1>. HIDE DEF t
<1>. QED  BY <1>1, <1>2, Numbers DEF PageType

LEMMA PageStores ==
  ASSUME NEW r \in PageType, r.next \in KeyIds, NEW a \in PageLabels
  PROVE  LET q == [r EXCEPT !.next = @ + 1, !.at = a]
         IN /\ q \in PageType /\ q.at = a /\ q.next = r.next + 1 /\ q.browser = r.browser
            /\ q.own = r.own /\ q.identity = r.identity /\ q.batch = r.batch
<1>1. r.next + 1 \in 1..PreKeyCount + 1
  BY Numbers DEF KeyIds
<1>. QED  BY <1>1 DEF PageType

LEMMA KeysFields ==
  ASSUME NEW v \in Keys
  PROVE  /\ v.identity \in Generations /\ v.signed \in Generations
         /\ v.pre \in [KeyIds -> Generations]
         /\ \A k \in KeyIds : v.pre[k] \in Generations
  BY DEF Keys

LEMMA KeysSet ==
  ASSUME NEW v \in Keys, NEW g \in Generations
  PROVE  /\ [v EXCEPT !.identity = g] \in Keys
         /\ [v EXCEPT !.identity = g].identity = g
         /\ [v EXCEPT !.identity = g].signed = v.signed
         /\ [v EXCEPT !.identity = g].pre = v.pre
         /\ [v EXCEPT !.signed = g] \in Keys
         /\ [v EXCEPT !.signed = g].identity = v.identity
         /\ [v EXCEPT !.signed = g].signed = g
         /\ [v EXCEPT !.signed = g].pre = v.pre
  BY DEF Keys

LEMMA KeysSetPre ==
  ASSUME NEW v \in Keys, NEW k \in KeyIds, NEW g \in Generations
  PROVE  LET w == [v EXCEPT !.pre[k] = g]
         IN /\ w \in Keys /\ w.identity = v.identity /\ w.signed = v.signed
            /\ w.pre[k] = g /\ \A i \in KeyIds : i # k => w.pre[i] = v.pre[i]
<1>. DEFINE f == [v.pre EXCEPT ![k] = g]
<1>1. f \in [KeyIds -> Generations] /\ f[k] = g /\ \A i \in KeyIds : i # k => f[i] = v.pre[i]
  BY KeysFields
<1>2. [v EXCEPT !.pre[k] = g] = [v EXCEPT !.pre = f]
  OBVIOUS
<1>. HIDE DEF f
<1>. QED  BY <1>1, <1>2 DEF Keys

LEMMA BundleFields ==
  ASSUME NEW r \in SendType
  PROVE  /\ r.at \in SendLabels /\ r.bundle \in Bundle /\ r.base \in Sends \cup {Nobody}
         /\ r.bundle.identity \in Generations /\ r.bundle.signed \in Generations
         /\ r.bundle.by \in Generations /\ r.bundle.id \in 0..PreKeyCount
         /\ r.bundle.pre \in Generations
         /\ r.bundle.id # 0 => r.bundle.id \in KeyIds
  BY Numbers DEF SendType, Bundle

LEMMA SendGoes ==
  ASSUME NEW r \in SendType, NEW a \in SendLabels, NEW c \in Bundle
  PROVE  LET q == [r EXCEPT !.at = a, !.bundle = c]
         IN q \in SendType /\ q.at = a /\ q.bundle = c /\ q.base = r.base
  BY DEF SendType

LEMMA LeastExists ==
  ASSUME NEW S \in SUBSET Nat, S # {}
  PROVE  \E x \in S : \A y \in S : x <= y
<1>. DEFINE R == {p \in Nat \X Nat : p[1] < p[2]}
<1>1. PICK x \in S : \A y \in S : <<y, x>> \notin R
  <2>1. IsWellFoundedOn(R, Nat)
    BY NatLessThanWellFounded DEF OpToRel
  <2>. HIDE DEF R
  <2>. QED  BY <2>1, WFMin
<1>2. ASSUME NEW y \in S, y < x
      PROVE  FALSE
  <2>1. <<y, x>> \in Nat \X Nat /\ <<y, x>>[1] = y /\ <<y, x>>[2] = x
    OBVIOUS
  <2>2. <<y, x>> \in R
    BY <2>1, <1>2
  <2>. QED  BY <1>1, <2>2
<1>. QED  BY <1>2

LEMMA OfferedLeast ==
  ASSUME Offered # {}
  PROVE  Min(Offered) \in KeyIds /\ published.pre[Min(Offered)] # 0
<1>1. Offered \in SUBSET Nat
  BY Numbers DEF Offered
<1>2. Min(Offered) \in Offered
  BY <1>1, LeastExists DEF Min
<1>. QED  BY <1>2 DEF Offered

-----------------------------------------------------------------------------
(* What has overlapped.                                                    *)

LEMMA TwoMany ==
  ASSUME NEW T, IsFiniteSet(T), NEW x \in T, NEW y \in T, x # y
  PROVE  Cardinality(T) > 1
<1>1. IsFiniteSet({x}) /\ Cardinality({x}) = 1 /\ y \notin {x}
  BY FS_Singleton
<1>2. Cardinality({x} \cup {y}) = 1 + 1
  BY <1>1, FS_AddElement
<1>3. Cardinality({x} \cup {y}) <= Cardinality(T) /\ Cardinality(T) \in Nat
  <2>1. {x} \cup {y} \subseteq T
    OBVIOUS
  <2>. QED  BY <2>1, FS_Subset, FS_CardinalityType
<1>. QED  BY <1>2, <1>3

LEMMA WritersMeet ==
  ASSUME NEW pages, NEW sends, NEW reads, NEW p \in Pages, NEW q \in Pages, p # q,
         Writing(pages[p]), Writing(pages[q])
  PROVE  "writers" \in Overlaps(pages, sends, reads)
<1>. DEFINE W == {i \in Pages : Writing(pages[i])}
<1>1. IsFiniteSet(W)
  BY KeysAssumption, FS_Subset
<1>2. p \in W /\ q \in W
  OBVIOUS
<1>. HIDE DEF W
<1>3. Cardinality(W) > 1
  BY <1>1, <1>2, TwoMany
<1>. USE DEF W
<1>. QED  BY <1>3 DEF Overlaps

LEMMA FetchesMeet ==
  ASSUME NEW pages, NEW sends, NEW reads, NEW s \in Sends, NEW t \in Sends, s # t,
         Fetching(sends[s]), Fetching(sends[t])
  PROVE  "fetches" \in Overlaps(pages, sends, reads)
<1>. DEFINE F == {i \in Sends : Fetching(sends[i])}
<1>1. IsFiniteSet(F)
  BY KeysAssumption, FS_Subset
<1>2. s \in F /\ t \in F
  OBVIOUS
<1>. HIDE DEF F
<1>3. Cardinality(F) > 1
  BY <1>1, <1>2, TwoMany
<1>. USE DEF F
<1>. QED  BY <1>3 DEF Overlaps

LEMMA ReadersMeet ==
  ASSUME NEW pages, NEW sends, NEW reads, NEW p \in Pages, Writing(pages[p]),
         \/ \E s \in Sends : Fetching(sends[s])
         \/ \E r \in Reads : reads[r].at = "finish"
  PROVE  "readers" \in Overlaps(pages, sends, reads)
  BY DEF Overlaps

\* While runs and decryptions keep apart, a run that writes is the only one, and nobody
\* fetches keys or decrypts.
LEMMA WriterAlone ==
  ASSUME Inv, Calm, NEW p \in Pages, Writing(page[p])
  PROVE  /\ \A q \in Pages : Writing(page[q]) => q = p
         /\ \A s \in Sends : ~Fetching(send[s])
         /\ \A r \in Reads : read[r].at # "finish"
<1>1. "writers" \notin Overlaps(page, send, read) /\ "readers" \notin Overlaps(page, send, read)
  BY DEF Inv, Calm
<1>. QED  BY <1>1, WritersMeet, ReadersMeet

-----------------------------------------------------------------------------
LEMMA InitInv == Init => Inv
<1>. SUFFICES ASSUME Init PROVE Inv
  OBVIOUS
<1>. USE DEF Init
<1>1. TypeOK
  <2>1. 0 \in Generations /\ 0 \in 0..MaxFaults
    BY Numbers
  <2>. QED  BY <2>1, Empty DEF TypeOK
<1>2. \A p \in Pages : page[p] = NoPage
  OBVIOUS
<1>3. \A s \in Sends : send[s] = NewSend /\ Its(s) = NoBundle
  BY Empty DEF Its
<1>4. Overlaps(page, send, read) \subseteq met
  <2>1. /\ \A p \in Pages : ~Writing(page[p])
        /\ \A s \in Sends : ~Fetching(send[s])
    BY <1>2, <1>3, Empty DEF Writing, Fetching
  <2>2. Cardinality({p \in Pages : Writing(page[p])}) = 0
    <3>1. {p \in Pages : Writing(page[p])} = {}
      BY <2>1
    <3>. QED  BY <3>1, FS_EmptySet
  <2>3. Cardinality({s \in Sends : Fetching(send[s])}) = 0
    <3>1. {s \in Sends : Fetching(send[s])} = {}
      BY <2>1
    <3>. QED  BY <3>1, FS_EmptySet
  <2>4. ~(Cardinality({p \in Pages : Writing(page[p])}) > 1)
        /\ ~(Cardinality({s \in Sends : Fetching(send[s])}) > 1)
    BY <2>2, <2>3
  <2>5. {p \in Pages : Writing(page[p])} = {}
    BY <2>1
  <2>. QED  BY <2>4, <2>5 DEF Overlaps
<1>5. \A p \in Pages : PageShaped(page[p]) /\ ~Making(page[p]) /\ ~Storing(page[p])
  BY <1>2, Empty DEF PageShaped, Making, Storing
<1>6. Generated
  <2>1. \A g \in Out : g = 0
    BY <1>3, Empty DEF Out
  <2>. QED  BY <1>5, <2>1, Empty DEF Generated
<1>7. PublishedShaped
  BY Empty DEF PublishedShaped
<1>8. \A s \in Sends : SendShaped(s) /\ Taken(s) /\ ~Done(s)
  BY <1>3, Empty DEF SendShaped, Taken, Done, Bundled
<1>9. \A x \in Peers : SessionShaped(x)
  BY DEF SessionShaped
<1>10. \A r \in Reads : ReadShaped(r) /\ read[r].at # "finish"
  BY Empty DEF ReadShaped
<1>11. TakenAlone /\ HandedOutOnce
  BY <1>3, <1>8, Empty DEF TakenAlone, HandedOutOnce, HandedOut
<1>12. Quiet
  <2>1. \A p \in Pages : Put(p)
    BY <1>2, Empty DEF Put, Storing
  <2>2. HeldOrReplaced
    BY Empty DEF HeldOrReplaced
  <2>3. \A s \in Sends : OfOneBatch(s)
    BY <1>3, Empty DEF OfOneBatch, Fetching
  <2>4. \A s \in Sends, b \in Browsers : Opens(s, b)
    BY <1>3, Empty DEF Opens, Bundled
  <2>. QED  BY <1>10, <2>1, <2>2, <2>3, <2>4 DEF Quiet, Found
<1>. QED
  BY <1>1, <1>4, <1>5, <1>6, <1>7, <1>8, <1>9, <1>10, <1>11, <1>12 DEF Inv

-----------------------------------------------------------------------------
(* Steps of a page.                                                        *)

\* What every step does to the history.
Stepped ==
    /\ Overlaps(page', send', read') \subseteq met'
    /\ met \subseteq met' /\ met' \subseteq {"writers", "readers", "fetches"}

LEMMA Watched ==
  ASSUME Inv, Watch
  PROVE  Stepped
  BY DEF Inv, TypeOK, Watch, Stepped, Overlaps

LEMMA CalmBefore ==
  ASSUME Inv, Stepped, faults' \in Nat, faults <= faults', Calm'
  PROVE  Calm
  BY KeysAssumption DEF Inv, TypeOK, Stepped, Calm

\* Page p goes on as q, the others stay, and so do senders and decryptions.
Moves(p, q) ==
    /\ q \in PageType /\ PageShaped(q)
    /\ page' \in [Pages -> PageType] /\ page'[p] = q
    /\ \A o \in Pages : o # p => page'[o] = page[o]
    /\ UNCHANGED <<senderSide, readerSide>>
    /\ Stepped

LEMMA PageMoves ==
  ASSUME Inv, NEW p \in Pages, NEW from, NEW q \in PageType, PageShaped(q),
         PageStep(p, from, q)
  PROVE  Moves(p, q) /\ page[p].at = from /\ page[p] \in PageType /\ PageShaped(page[p])
<1>1. page \in [Pages -> PageType] /\ PageShaped(page[p])
  BY DEF Inv, TypeOK
<1>2. Stepped
  BY Watched DEF PageStep
<1>. QED  BY <1>1, <1>2 DEF PageStep, Moves

LEMMA PagesShaped ==
  ASSUME Inv, NEW p \in Pages, NEW q, Moves(p, q)
  PROVE  \A o \in Pages : PageShaped(page'[o])
  BY DEF Inv, Moves

\* Senders and decryptions see only what the server has.
LEMMA SendersKept ==
  ASSUME Inv, UNCHANGED <<senderSide, readerSide>>, Stepped,
         published'.identity = 0 => published.identity = 0,
         \A k \in KeyIds : \/ published'.pre[k] = published.pre[k]
                           \/ \A s \in Sends : Its(s).pre # published'.pre[k]
  PROVE  /\ (\A s \in Sends : SendShaped(s) /\ Taken(s))'
         /\ (\A x \in Peers : SessionShaped(x))'
         /\ (\A r \in Reads : ReadShaped(r))'
         /\ (\A s \in failed : send[s].at = "sent")'
         /\ TakenAlone' /\ HandedOutOnce'
<1>. USE DEF senderSide, readerSide
<1>1. ASSUME NEW s \in Sends
      PROVE  SendShaped(s)' /\ Taken(s)'
  <2>1. SendShaped(s) /\ Taken(s)
    BY DEF Inv
  <2>2. SendShaped(s)'
    BY <2>1 DEF SendShaped, Bundled, Its
  <2>3. Its(s).id # 0 => Its(s).id \in KeyIds
    BY BundleFields DEF Inv, TypeOK, Its
  <2>4. Taken(s)'
    BY <2>1, <2>3 DEF Taken, Done, Its
  <2>. QED  BY <2>2, <2>4
<1>2. ASSUME NEW x \in Peers
      PROVE  SessionShaped(x)'
  BY DEF Inv, SessionShaped
<1>3. ASSUME NEW r \in Reads
      PROVE  ReadShaped(r)'
  BY DEF Inv, ReadShaped
<1>4. (\A s \in failed : send[s].at = "sent")'
  BY DEF Inv
<1>5. "fetches" \notin met' => "fetches" \notin met
  BY DEF Stepped
<1>6. TakenAlone'
  BY <1>5 DEF Inv, TakenAlone, Done, SameKey, Its
<1>7. HandedOutOnce'
  BY <1>5 DEF Inv, HandedOutOnce, HandedOut, Its
<1>. QED  BY <1>1, <1>2, <1>3, <1>4, <1>6, <1>7

\* A generation is made, goes into the browser that made it, and is published.
LEMMA GeneratedByPage ==
  ASSUME Inv, NEW p \in Pages, NEW q, Moves(p, q), made' \in Generations, made <= made',
         \A g \in Out' : g \in Out \/ (Making(page[p]) /\ g = Mine(page[p]) /\ ~Making(q)),
         \A b \in Browsers :
            \/ vault'[b].signed = vault[b].signed
            \/ /\ vault'[b].signed = Mine(page[p]) /\ b = page[p].browser
               /\ Making(page[p]) /\ q.at \in {"storePre", "upload"},
         Making(q) =>
            \/ /\ Making(page[p]) /\ Mine(q) = Mine(page[p])
               /\ q.browser = page[p].browser
               /\ page[p].at \in {"storePre", "upload"} => q.at \in {"storePre", "upload"}
            \/ made' = made + 1 /\ Mine(q) = made'
  PROVE  Generated'
<1>1. made \in Nat /\ made' \in Nat
  BY Numbers DEF Inv, TypeOK
<1>2. Generated
  BY DEF Inv
<1>3. \A o \in Pages : o # p => page'[o] = page[o]
  BY DEF Moves
<1>4. page'[p] = q
  BY DEF Moves
<1>5. \A o \in Pages : Making(page[o]) => Mine(page[o]) \in 1..made /\ Mine(page[o]) \notin Out
  BY <1>2 DEF Generated, Unseen
<1>6. vault \in [Browsers -> Keys] /\ \A b \in Browsers : vault[b].signed \in Nat
  BY KeysFields, Numbers DEF Inv, TypeOK
<1>7. \A g \in Out : g \in Nat /\ g <= made
  <2>1. \A k \in KeyIds : published.signed \in Nat /\ published.pre[k] \in Nat
    BY KeysFields, Numbers DEF Inv, TypeOK
  <2>2. published.signed \in Nat
    BY KeysFields, Numbers DEF Inv, TypeOK
  <2>3. \A s \in Sends : Its(s).signed \in Nat /\ Its(s).pre \in Nat
    BY BundleFields, Numbers DEF Inv, TypeOK, Its
  <2>4. \A g \in Out : g \in Nat
    BY <2>1, <2>2, <2>3 DEF Out
  <2>. QED  BY <1>2, <2>4 DEF Generated
<1>8. \A g \in Out' : g <= made'
  BY <1>1, <1>5, <1>7
<1>9. \A b \in Browsers : vault'[b].signed <= made'
  BY <1>1, <1>2, <1>5, <1>6 DEF Generated
<1>10. \A o \in Pages : o # p /\ Making(page[o]) /\ Making(page[p]) =>
          Mine(page[o]) # Mine(page[p])
  BY <1>2 DEF Generated
<1>11. ASSUME NEW o \in Pages, Making(page'[o])
       PROVE  Unseen(o)'
  <2>1. CASE o # p
    <3>1. page'[o] = page[o] /\ Unseen(o)
      BY <1>2, <1>3, <1>11, <2>1 DEF Generated
    <3>2. Mine(page[o]) \in 1..made' /\ Mine(page[o]) \notin Out'
      BY <1>1, <1>5, <1>10, <1>11, <2>1, <3>1
    <3>3. \A b \in Browsers : vault'[b].signed = Mine(page[o]) =>
              b = page[o].browser /\ page[o].at \in {"storePre", "upload"}
      BY <1>10, <1>11, <2>1, <3>1 DEF Unseen
    <3>. QED  BY <3>1, <3>2, <3>3 DEF Unseen
  <2>2. CASE o = p /\ Making(page[p]) /\ Mine(q) = Mine(page[p])
                /\ q.browser = page[p].browser
                /\ (page[p].at \in {"storePre", "upload"} => q.at \in {"storePre", "upload"})
    <3>1. Unseen(p)
      BY <1>2, <2>2 DEF Generated
    <3>2. Mine(q) \in 1..made' /\ Mine(q) \notin Out'
      BY <1>1, <1>4, <1>5, <1>11, <2>2
    <3>3. \A b \in Browsers : vault'[b].signed = Mine(q) =>
              b = q.browser /\ q.at \in {"storePre", "upload"}
      BY <2>2, <3>1 DEF Unseen
    <3>. QED  BY <1>4, <2>2, <3>2, <3>3 DEF Unseen
  <2>3. CASE o = p /\ made' = made + 1 /\ Mine(q) = made'
    <3>1. Mine(q) \in 1..made' /\ Mine(q) \notin Out'
      BY <1>1, <1>5, <1>7, <2>3
    <3>2. \A b \in Browsers : vault'[b].signed # Mine(q)
      BY <1>1, <1>2, <1>5, <1>6, <2>3 DEF Generated
    <3>. QED  BY <1>4, <2>3, <3>1, <3>2 DEF Unseen
  <2>. QED  BY <1>4, <1>11, <2>1, <2>2, <2>3
<1>12. ASSUME NEW o \in Pages, o # p, Making(page'[o]), Making(page'[p])
       PROVE  Mine(page'[o]) # Mine(page'[p])
  BY <1>1, <1>3, <1>4, <1>5, <1>10, <1>12
<1>13. \A o, n \in Pages : o # n /\ Making(page'[o]) /\ Making(page'[n]) =>
          Mine(page'[o]) # Mine(page'[n])
  BY <1>2, <1>3, <1>12 DEF Generated
<1>. QED  BY <1>8, <1>9, <1>11, <1>13 DEF Generated

\* The run writes nothing.
LEMMA QuietKept ==
  ASSUME Inv, NEW p \in Pages, NEW q, Moves(p, q), UNCHANGED <<vault, published>>,
         Calm' => Calm /\ Put(p)' /\ (Storing(page[p]) => Storing(q))
  PROVE  Calm' => Quiet'
<1>. SUFFICES ASSUME Calm' PROVE Quiet'
  OBVIOUS
<1>. USE DEF Moves, senderSide, readerSide
<1>1. Quiet
  BY DEF Inv
<1>2. (\A o \in Pages : Put(o))'
  <2>. SUFFICES ASSUME NEW o \in Pages PROVE Put(o)'
    OBVIOUS
  <2>1. CASE o = p
    BY <2>1
  <2>2. CASE o # p
    <3>1. page'[o] = page[o] /\ Put(o)
      BY <1>1, <2>2 DEF Quiet
    <3>. QED  BY <3>1 DEF Put
  <2>. QED  BY <2>1, <2>2
<1>3. HeldOrReplaced'
  <2>1. (\A o \in Pages : ~Storing(page'[o])) => \A o \in Pages : ~Storing(page[o])
    OBVIOUS
  <2>2. \A b \in Browsers : Holds(b)' <=> Holds(b)
    BY DEF Holds, Offered
  <2>. QED  BY <1>1, <2>1, <2>2 DEF Quiet, HeldOrReplaced
<1>4. (\A s \in Sends : OfOneBatch(s))'
  BY <1>1 DEF Quiet, OfOneBatch, Its
<1>5. (\A s \in Sends, b \in Browsers : Opens(s, b))'
  <2>. SUFFICES ASSUME NEW s \in Sends, NEW b \in Browsers PROVE Opens(s, b)'
    OBVIOUS
  <2>1. Opens(s, b) /\ Its(s)' = Its(s)
    BY <1>1 DEF Quiet, Its
  <2>2. UsedIn(b, s)' <=> UsedIn(b, s)
    BY DEF UsedIn, SameKey, Its
  <2>. QED  BY <2>1, <2>2 DEF Opens, Bundled
<1>6. (\A r \in Reads : Found(r))'
  BY <1>1 DEF Quiet, Found, Its
<1>7. \A s : Explained(s)' <=> Explained(s)
  BY DEF Explained, Shared, Its
<1>. QED  BY <1>1, <1>2, <1>3, <1>4, <1>5, <1>6, <1>7 DEF Quiet

LEMMA PageInv ==
  ASSUME Inv, NEW p \in Pages, NEW q, Moves(p, q),
         vault' \in [Browsers -> Keys], published' \in Keys, made' \in Generations,
         faults' \in 0..MaxFaults,
         published'.identity = 0 => published.identity = 0,
         \A k \in KeyIds : \/ published'.pre[k] = published.pre[k]
                           \/ \A s \in Sends : Its(s).pre # published'.pre[k],
         PublishedShaped', Generated', Calm' => Quiet'
  PROVE  Inv'
<1>1. TypeOK'
  BY DEF Inv, TypeOK, Moves, senderSide, readerSide, Stepped
<1>2. \A o \in Pages : PageShaped(page'[o])
  BY PagesShaped
<1>3. UNCHANGED <<senderSide, readerSide>> /\ Stepped
  BY DEF Moves
<1>4. /\ (\A s \in Sends : SendShaped(s) /\ Taken(s))'
      /\ (\A x \in Peers : SessionShaped(x))'
      /\ (\A r \in Reads : ReadShaped(r))'
      /\ (\A s \in failed : send[s].at = "sent")'
      /\ TakenAlone' /\ HandedOutOnce'
  BY <1>3, SendersKept
<1>5. (Overlaps(page, send, read) \subseteq met)'
  BY <1>3 DEF Stepped
<1>. QED  BY <1>1, <1>2, <1>4, <1>5 DEF Inv

\* The page reads and goes on.
LEMMA PageOnly ==
  ASSUME Inv, NEW p \in Pages, NEW q, Moves(p, q), UNCHANGED <<vault, published>>,
         made' \in Generations, made <= made', faults' \in 0..MaxFaults, faults <= faults',
         Making(q) =>
            \/ /\ Making(page[p]) /\ Mine(q) = Mine(page[p])
               /\ q.browser = page[p].browser
               /\ page[p].at \in {"storePre", "upload"} => q.at \in {"storePre", "upload"}
            \/ made' = made + 1 /\ Mine(q) = made',
         faults' = 0 => Put(p)' /\ (Storing(page[p]) => Storing(q))
  PROVE  Inv'
<1>1. \A g \in Out' : g \in Out
  BY DEF Out, Its, Moves, senderSide
<1>2. Generated'
  <2>1. \A g \in Out' : g \in Out \/ (Making(page[p]) /\ g = Mine(page[p]) /\ ~Making(q))
    BY <1>1
  <2>2. \A b \in Browsers :
            \/ vault'[b].signed = vault[b].signed
            \/ /\ vault'[b].signed = Mine(page[p]) /\ b = page[p].browser
               /\ Making(page[p]) /\ q.at \in {"storePre", "upload"}
    OBVIOUS
  <2>. QED  BY <2>1, <2>2, GeneratedByPage
<1>3. Calm' => Calm
  <2>1. faults' \in Nat
    BY KeysAssumption
  <2>. QED  BY <2>1, CalmBefore DEF Moves
<1>4. Calm' => Quiet'
  <2>1. Calm' => Calm /\ Put(p)' /\ (Storing(page[p]) => Storing(q))
    BY <1>3 DEF Calm
  <2>. QED  BY <2>1, QuietKept
<1>5. PublishedShaped'
  BY DEF Inv, PublishedShaped
<1>6. vault' \in [Browsers -> Keys] /\ published' \in Keys
  BY DEF Inv, TypeOK
<1>. QED  BY <1>2, <1>4, <1>5, <1>6, PageInv

LEMMA Counters ==
  ASSUME Inv
  PROVE  /\ made \in Generations /\ made \in Nat /\ made <= made
         /\ faults \in 0..MaxFaults /\ faults \in Nat /\ faults <= faults
         /\ made < MaxGenerations => made + 1 \in Generations /\ made <= made + 1
  BY KeysAssumption DEF Inv, TypeOK, Generations

LEMMA OpenPageInv ==
  ASSUME Inv, NEW p \in Pages, NEW b \in Browsers, NEW label \in {"load", "generate"},
         OpenPage(p, b, label)
  PROVE  Inv'
<1>. DEFINE q == [NoPage EXCEPT !.at = label, !.browser = b]
<1>1. q \in PageType /\ q.at = label /\ q.browser = b /\ q.next = 1
  BY Empty, Members DEF PageType
<1>2. PageStep(p, "idle", q) /\ UNCHANGED <<vault, published, made, faults>>
  BY DEF OpenPage
<1>. HIDE DEF q
<1>3. PageShaped(q) /\ ~Making(q) /\ ~Storing(q)
  BY <1>1 DEF PageShaped, Making, Storing
<1>4. Moves(p, q) /\ page[p].at = "idle"
  BY <1>1, <1>2, <1>3, PageMoves
<1>5. Put(p)' /\ ~Storing(page[p])
  BY <1>1, <1>4 DEF Put, Storing, Moves
<1>. QED  BY <1>2, <1>3, <1>4, <1>5, Counters, PageOnly

LEMMA MakeIdentityInv ==
  ASSUME Inv, NEW p \in Pages, NEW from, NEW label,
         <<from, label>> \in {<<"load", "save">>, <<"generate", "saveFirst">>},
         MakeIdentity(p, from, label)
  PROVE  Inv'
<1>. DEFINE q == [page[p] EXCEPT !.at = label, !.own = made']
<1>1. page[p] \in PageType /\ made' \in Generations /\ made' = made + 1 /\ made <= made'
      /\ faults' = faults /\ faults' \in 0..MaxFaults /\ faults <= faults' /\ made' # 0
  BY Counters DEF MakeIdentity, Inv, TypeOK
<1>2. label \in PageLabels /\ label \in {"save", "saveFirst"}
  BY Members
<1>3. q \in PageType /\ q.at = label /\ q.own = made' /\ q.browser = page[p].browser
      /\ q.next = page[p].next
  <2>1. PICK g \in Generations : g = made'
    BY <1>1
  <2>2. q = [page[p] EXCEPT !.at = label, !.own = g]
    BY <2>1
  <2>. HIDE DEF q
  <2>. QED  BY <1>1, <1>2, <2>1, <2>2 DEF PageType
<1>4. PageStep(p, from, q) /\ Vault(p).identity = 0 /\ UNCHANGED <<vault, published>>
      /\ page[p].at = from
  BY DEF MakeIdentity
<1>. HIDE DEF q
<1>5. PageShaped(q)
  <2>1. PageShaped(page[p])
    BY DEF Inv
  <2>. QED  BY <1>1, <1>2, <1>3, <1>4, <2>1 DEF PageShaped, Storing
<1>6. Moves(p, q)
  BY <1>3, <1>4, <1>5, PageMoves
<1>7. Making(q) => made' = made + 1 /\ Mine(q) = made'
  BY <1>1, <1>2, <1>3 DEF Making, Mine
<1>8. Put(p)' /\ ~Storing(page[p])
  BY <1>2, <1>3, <1>4, <1>6 DEF Put, Storing, Moves, Vault
<1>. QED  BY <1>1, <1>4, <1>6, <1>7, <1>8, PageOnly

LEMMA PageReadsInv ==
  ASSUME Inv, NEW p \in Pages, LoadIdentity(p) \/ Count(p)
  PROVE  Inv'
<1>. DEFINE q(a) == [page[p] EXCEPT !.at = a]
<1>0. page[p] \in PageType /\ PageShaped(page[p])
  BY DEF Inv, TypeOK
<1>1. ASSUME NEW a \in {"count", "generate"}
      PROVE  q(a) \in PageType /\ PageShaped(q(a)) /\ q(a).at = a
  <2>. DEFINE r == q(a)
  <2>1. r \in PageType /\ r.at = a /\ r.browser = page[p].browser /\ r.next = page[p].next
    BY <1>0, Members, PageGoes
  <2>2. PICK from \in {"load", "count"} : page[p].at = from
    BY DEF LoadIdentity, Count, PageGoto, PageStep
  <2>. HIDE DEF r
  <2>3. PageShaped(r)
    BY <1>0, <2>1, <2>2 DEF PageShaped, Storing
  <2>. USE DEF r
  <2>. QED  BY <2>1, <2>3
<1>2. NoPage \in PageType /\ PageShaped(NoPage) /\ NoPage.at = "idle"
  BY Empty DEF PageShaped, Storing
<1>3. \E r \in {q("count"), q("generate"), NoPage}, from \in {"load", "count"} :
         PageStep(p, from, r)
  BY DEF LoadIdentity, Count, PageGoto
<1>4. PICK r \in {q("count"), q("generate"), NoPage}, from \in {"load", "count"} :
         PageStep(p, from, r)
  BY <1>3
<1>5. r \in PageType /\ PageShaped(r) /\ r.at \in {"count", "generate", "idle"}
  BY <1>1, <1>2
<1>. HIDE DEF q
<1>6. Moves(p, r) /\ page[p].at = from
  BY <1>4, <1>5, PageMoves
<1>7. UNCHANGED <<vault, published, made, faults>>
  BY DEF LoadIdentity, Count
<1>8. ~Making(r) /\ Put(p)' /\ ~Storing(page[p])
  BY <1>5, <1>6 DEF Making, Put, Storing, Moves
<1>. QED  BY <1>6, <1>7, <1>8, Counters, PageOnly

LEMMA GenerateInv ==
  ASSUME Inv, NEW p \in Pages, Generate(p)
  PROVE  Inv'
<1>. DEFINE q == Batched(page[p], Vault(p).identity, made')
<1>1. page[p] \in PageType /\ PageShaped(page[p]) /\ vault \in [Browsers -> Keys]
  BY DEF Inv, TypeOK
<1>2. /\ made' \in Generations /\ made' = made + 1 /\ made <= made'
      /\ UNCHANGED <<vault, published, faults>>
  BY Counters DEF Generate
<1>3. page[p].at = "generate" /\ Vault(p).identity # 0
  BY DEF Generate, Batch, PageStep
<1>4. page[p].browser \in Browsers /\ page[p].next = 1
  BY <1>1, <1>3 DEF PageShaped
<1>5. Vault(p).identity \in Generations
  BY <1>1, <1>4, KeysFields DEF Vault
<1>6. q \in PageType /\ q.at = "storeSigned" /\ q.identity = Vault(p).identity
      /\ q.batch = made' /\ q.browser = page[p].browser /\ q.next = page[p].next
  <2>1. PICK g \in Generations : g = made'
    BY <1>2
  <2>. QED  BY <1>1, <1>5, <2>1, PageBatches
<1>step. PageStep(p, "generate", q)
  BY DEF Generate, Batch, Batched
<1>. HIDE DEF q
<1>7. PageShaped(q)
  BY <1>3, <1>4, <1>6 DEF PageShaped, Storing
<1>8. Moves(p, q)
  BY <1>step, <1>6, <1>7, PageMoves
<1>9. made' = made + 1 /\ Mine(q) = made'
  BY <1>2, <1>6 DEF Mine
<1>10. Put(p)' /\ Storing(q)
  BY <1>2, <1>6, <1>8 DEF Put, Storing, Moves, Vault
<1>. QED  BY <1>2, <1>8, <1>9, <1>10, Counters, PageOnly

LEMMA CutOffInv ==
  ASSUME Inv, NEW p \in Pages, CutOff(p)
  PROVE  Inv'
<1>1. NoPage \in PageType /\ PageShaped(NoPage) /\ ~Making(NoPage)
  BY Empty DEF PageShaped, Storing, Making
<1>2. PageStep(p, page[p].at, NoPage)
  BY DEF CutOff, PageStep
<1>3. Moves(p, NoPage)
  BY <1>1, <1>2, PageMoves
<1>4. faults' \in 0..MaxFaults /\ faults <= faults' /\ faults' # 0
  BY Counters, KeysAssumption DEF CutOff
<1>5. UNCHANGED <<vault, published, made>>
  BY DEF CutOff
<1>. QED  BY <1>1, <1>3, <1>4, <1>5, Counters, PageOnly

-----------------------------------------------------------------------------
(* A page writes to its browser.                                           *)

LEMMA QuietWritten ==
  ASSUME Inv, NEW p \in Pages, NEW q, Moves(p, q), Writing(page[p]), published' = published,
         NEW w \in Keys, vault' = [vault EXCEPT ![page[p].browser] = w],
         page[p].browser \in Browsers, Calm, Put(p)',
         Storing(page[p]) => Storing(q),
         w.signed = vault[page[p].browser].signed \/ Storing(q),
         \A s \in Sends : Bundled(s) => w.signed # Its(s).signed,
         published.signed # 0 => w.signed # published.signed
  PROVE  Quiet'
<1>. DEFINE b == page[p].browser
<1>. USE DEF Moves, senderSide, readerSide
<1>1. Quiet
  BY DEF Inv
<1>2. /\ \A o \in Pages : Writing(page[o]) => o = p
      /\ \A r \in Reads : read[r].at # "finish"
  BY WriterAlone
<1>3. vault \in [Browsers -> Keys]
  BY DEF Inv, TypeOK
<1>4. vault'[b] = w /\ \A c \in Browsers : c # b => vault'[c] = vault[c]
  BY <1>3
<1>5. (\A o \in Pages : Put(o))'
  <2>. SUFFICES ASSUME NEW o \in Pages PROVE Put(o)'
    OBVIOUS
  <2>1. CASE o = p
    BY <2>1
  <2>2. CASE o # p
    <3>1. page'[o] = page[o] /\ ~Writing(page[o])
      BY <1>2, <2>2
    <3>. QED  BY <3>1 DEF Put, Writing, Storing
  <2>. QED  BY <2>1, <2>2
<1>. HIDE DEF b
<1>6. HeldOrReplaced'
  <2>1. ASSUME published.signed # 0, NEW c \in Browsers, vault'[c].signed = published.signed
        PROVE  Holds(c)'
    <3>1. c # b
      BY <1>4, <2>1
    <3>2. vault'[c] = vault[c] /\ Holds(c)
      BY <1>1, <1>4, <2>1, <3>1 DEF Quiet, HeldOrReplaced
    <3>. QED  BY <3>2 DEF Holds, Offered
  <2>2. ASSUME published.signed # 0, \A o \in Pages : ~Storing(page'[o])
        PROVE  \E c \in Browsers : vault'[c].signed = published.signed
    <3>1. \A o \in Pages : ~Storing(page[o])
      BY <2>2
    <3>2. \A c \in Browsers : vault'[c].signed = vault[c].signed
      BY <1>4, <2>2 DEF b
    <3>. QED  BY <1>1, <2>2, <3>1, <3>2 DEF Quiet, HeldOrReplaced
  <2>. QED  BY <2>1, <2>2 DEF HeldOrReplaced
<1>7. (\A s \in Sends : OfOneBatch(s))'
  BY <1>1 DEF Quiet, OfOneBatch, Its
<1>8. \A s \in Sends : Its(s)' = Its(s)
  BY DEF Its
<1>9. (\A s \in Sends, c \in Browsers : Opens(s, c))'
  <2>. SUFFICES ASSUME NEW s \in Sends, NEW c \in Browsers,
                       Bundled(s),
                       vault'[c].signed = Its(s).signed
                PROVE  /\ vault'[c].identity = Its(s).identity
                       /\ Its(s).id # 0 => \/ vault'[c].pre[Its(s).id] = Its(s).pre
                                           \/ UsedIn(c, s)'
    BY <1>8 DEF Opens, Bundled
  <2>1. w.signed # Its(s).signed
    OBVIOUS
  <2>2. c # b
    BY <1>4, <2>1
  <2>3. vault'[c] = vault[c] /\ Opens(s, c)
    BY <1>1, <1>4, <2>2 DEF Quiet
  <2>4. UsedIn(c, s)' <=> UsedIn(c, s)
    BY DEF UsedIn, SameKey, Its
  <2>. QED  BY <2>3, <2>4 DEF Opens, Bundled
<1>10. (\A r \in Reads : Found(r))'
  BY <1>2 DEF Found
<1>11. ASSUME NEW s \in failed
       PROVE  Explained(s)'
  <2>1. s \in Sends /\ w.signed # Its(s).signed
    BY DEF Inv, TypeOK, Bundled
  <2>2. Explained(s)
    BY <1>1 DEF Quiet
  <2>3. Shared(s)' <=> Shared(s)
    BY DEF Shared, Its
  <2>4. \A c \in Browsers : vault[c].signed # Its(s).signed => vault'[c].signed # Its(s).signed
    BY <1>4, <2>1
  <2>. QED  BY <1>8, <2>1, <2>2, <2>3, <2>4 DEF Explained
<1>. QED  BY <1>2, <1>5, <1>6, <1>7, <1>9, <1>10, <1>11 DEF Quiet

\* What a run writes is not what the server has, nor what a sender was given.
LEMMA PageWrites ==
  ASSUME Inv, NEW p \in Pages, NEW q, Moves(p, q), Writing(page[p]),
         NEW w \in Keys, vault' = [vault EXCEPT ![page[p].browser] = w],
         page[p].browser \in Browsers, UNCHANGED <<published, made, faults>>,
         Calm => Put(p)', Storing(page[p]) => Storing(q),
         Making(q) =>
            /\ Making(page[p]) /\ Mine(q) = Mine(page[p]) /\ q.browser = page[p].browser
            /\ page[p].at \in {"storePre", "upload"} => q.at \in {"storePre", "upload"},
         \/ /\ w.signed = vault[page[p].browser].signed
            /\ Calm => \/ vault[page[p].browser].identity = 0
                       \/ Storing(q) /\ vault[page[p].browser].signed = Mine(page[p])
         \/ /\ w.signed = Mine(page[p]) /\ Making(page[p])
            /\ Storing(q) /\ q.at \in {"storePre", "upload"}
  PROVE  Inv'
<1>1. vault \in [Browsers -> Keys]
  BY DEF Inv, TypeOK
<1>2. vault' \in [Browsers -> Keys] /\ vault'[page[p].browser] = w
      /\ \A c \in Browsers : c # page[p].browser => vault'[c] = vault[c]
  BY <1>1
<1>3. Out' = Out
  BY DEF Out, Its, Moves, senderSide
<1>4. Generated'
  <2>1. \A c \in Browsers :
            \/ vault'[c].signed = vault[c].signed
            \/ /\ vault'[c].signed = Mine(page[p]) /\ c = page[p].browser
               /\ Making(page[p]) /\ q.at \in {"storePre", "upload"}
    BY <1>2
  <2>2. \A g \in Out' : g \in Out \/ (Making(page[p]) /\ g = Mine(page[p]) /\ ~Making(q))
    BY <1>3
  <2>3. made' \in Generations /\ made <= made'
    BY Counters
  <2>. QED  BY <2>1, <2>2, <2>3, GeneratedByPage
<1>5. Calm' => Calm
  BY Counters, CalmBefore DEF Moves
<1>6. ASSUME Calm
      PROVE  /\ \A s \in Sends : Bundled(s) => w.signed # Its(s).signed
             /\ published.signed # 0 => w.signed # published.signed
  <2>1. CASE w.signed = Mine(page[p]) /\ Storing(q)
    <3>1. Mine(page[p]) \notin Out
      BY <2>1 DEF Storing, Making, Inv, Generated, Unseen
    <3>. QED  BY <2>1, <3>1 DEF Out
  <2>2. CASE w.signed = vault[page[p].browser].signed /\ vault[page[p].browser].identity = 0
    <3>. DEFINE b == page[p].browser
    <3>1. Quiet
      BY <1>6 DEF Inv
    <3>2. published.signed # 0 => vault[b].signed # published.signed
      BY <2>2, <3>1 DEF Quiet, HeldOrReplaced, Holds, Inv, PublishedShaped
    <3>3. ASSUME NEW s \in Sends, Bundled(s), vault[b].signed = Its(s).signed
          PROVE  FALSE
      <4>1. SendShaped(s) /\ ~Fetching(send[s]) /\ Opens(s, b)
        BY <3>1, WriterAlone, <1>6 DEF Inv, Quiet
      <4>. QED  BY <2>2, <3>3, <4>1 DEF SendShaped, Opens, Bundled
    <3>. QED  BY <2>2, <3>2, <3>3
  <2>. QED  BY <1>6, <2>1, <2>2
<1>7. Calm' => Quiet'
  BY <1>5, <1>6, QuietWritten
<1>8. PublishedShaped' /\ published' \in Keys
  BY DEF Inv, TypeOK, PublishedShaped
<1>. QED  BY <1>2, <1>4, <1>7, <1>8, Counters, PageInv

LEMMA SaveIdentityInv ==
  ASSUME Inv, NEW p \in Pages,
         SaveIdentity(p, "save", [page[p] EXCEPT !.at = "count", !.own = 0])
  PROVE  Inv'
<1>. DEFINE q == [page[p] EXCEPT !.at = "count", !.own = 0]
            w == [Vault(p) EXCEPT !.identity = page[p].own]
<1>1. page[p] \in PageType /\ PageShaped(page[p]) /\ vault \in [Browsers -> Keys]
  BY DEF Inv, TypeOK
<1>2. page[p].at = "save" /\ PageStep(p, "save", q)
  BY DEF SaveIdentity, PageStep
<1>3. page[p].browser \in Browsers /\ page[p].next = 1 /\ Vault(p) \in Keys
  BY <1>1, <1>2 DEF PageShaped, Vault
<1>4. vault' = [vault EXCEPT ![page[p].browser] = w]
  BY DEF SaveIdentity, Vault
<1>5. q \in PageType /\ q.at = "count" /\ q.next = page[p].next /\ q.browser = page[p].browser
  BY <1>1, Members, Numbers DEF PageType
<1>6. w \in Keys /\ w.signed = Vault(p).signed
  BY <1>1, <1>3, PageFields, KeysSet
<1>. HIDE DEF q, w
<1>7. PageShaped(q) /\ ~Making(q) /\ ~Storing(page[p]) /\ Writing(page[p])
  BY <1>2, <1>3, <1>5 DEF PageShaped, Making, Storing, Writing
<1>8. Moves(p, q)
  BY <1>2, <1>5, <1>7, PageMoves
<1>9. Put(p)'
  BY <1>5, <1>8 DEF Put, Storing, Moves
<1>10. Calm => Vault(p).identity = 0
  BY <1>2 DEF Inv, Quiet, Put, Vault
<1>11. UNCHANGED <<published, made, faults>>
  BY DEF SaveIdentity
<1>. QED
  BY <1>3, <1>4, <1>6, <1>7, <1>8, <1>9, <1>10, <1>11, PageWrites DEF Vault

LEMMA GenerateFirstInv ==
  ASSUME Inv, NEW p \in Pages, GenerateFirst(p)
  PROVE  Inv'
<1>. DEFINE q == Batched(page[p], page[p].own, page[p].own)
            w == [Vault(p) EXCEPT !.identity = page[p].own]
<1>1. page[p] \in PageType /\ PageShaped(page[p]) /\ vault \in [Browsers -> Keys]
  BY DEF Inv, TypeOK
<1>2. page[p].at = "saveFirst" /\ PageStep(p, "saveFirst", q)
  BY DEF GenerateFirst, Batch, PageStep, Batched
<1>3. page[p].browser \in Browsers /\ page[p].next = 1 /\ Vault(p) \in Keys
      /\ page[p].own # 0
  BY <1>1, <1>2 DEF PageShaped, Vault
<1>4. vault' = [vault EXCEPT ![page[p].browser] = w]
  BY DEF GenerateFirst, Vault
<1>5. q \in PageType /\ q.at = "storeSigned" /\ q.identity = page[p].own
      /\ q.batch = page[p].own /\ q.next = page[p].next /\ q.browser = page[p].browser
  BY <1>1, PageFields, PageBatches
<1>6. w \in Keys /\ w.signed = Vault(p).signed /\ w.identity = page[p].own
  BY <1>1, <1>3, PageFields, KeysSet
<1>. HIDE DEF q, w
<1>7. PageShaped(q) /\ ~Storing(page[p]) /\ Writing(page[p]) /\ Making(page[p])
  BY <1>2, <1>3, <1>5 DEF PageShaped, Making, Storing, Writing
<1>8. Moves(p, q)
  BY <1>2, <1>5, <1>7, PageMoves
<1>9. Put(p)'
  <2>1. vault'[page[p].browser] = w
    BY <1>1, <1>3, <1>4
  <2>. QED  BY <1>5, <1>6, <1>8, <2>1 DEF Put, Storing, Moves
<1>10. Calm => Vault(p).identity = 0
  BY <1>2 DEF Inv, Quiet, Put, Vault
<1>11. UNCHANGED <<published, made, faults>>
  BY DEF GenerateFirst
<1>12. Mine(q) = Mine(page[p])
  BY <1>2, <1>5 DEF Mine
<1>13. page[p].at \notin {"storePre", "upload"}
  BY <1>2
<1>. QED
  BY <1>3, <1>4, <1>5, <1>6, <1>7, <1>8, <1>9, <1>10, <1>11, <1>12, <1>13, PageWrites
  DEF Vault

LEMMA StoreSignedInv ==
  ASSUME Inv, NEW p \in Pages, StoreSigned(p)
  PROVE  Inv'
<1>. DEFINE q == [page[p] EXCEPT !.at = "storePre"]
            w == [Vault(p) EXCEPT !.signed = page[p].batch]
<1>1. page[p] \in PageType /\ PageShaped(page[p]) /\ vault \in [Browsers -> Keys]
  BY DEF Inv, TypeOK
<1>2. page[p].at = "storeSigned" /\ PageStep(p, "storeSigned", q)
  BY DEF StoreSigned, PageGoto, PageStep
<1>3. page[p].browser \in Browsers /\ page[p].next = 1 /\ Vault(p) \in Keys
      /\ page[p].identity # 0
  BY <1>1, <1>2 DEF PageShaped, Vault, Storing
<1>4. vault' = [vault EXCEPT ![page[p].browser] = w]
  BY DEF StoreSigned, Vault
<1>5. q \in PageType /\ q.at = "storePre" /\ q.identity = page[p].identity
      /\ q.batch = page[p].batch /\ q.next = page[p].next /\ q.browser = page[p].browser
  BY <1>1, Members, PageGoes
<1>6. w \in Keys /\ w.signed = page[p].batch /\ w.identity = Vault(p).identity
  BY <1>1, <1>3, PageFields, KeysSet
<1>. HIDE DEF q, w
<1>7. PageShaped(q) /\ Storing(q) /\ Writing(page[p]) /\ Making(page[p])
  BY <1>2, <1>3, <1>5, Numbers DEF PageShaped, Making, Storing, Writing
<1>8. Moves(p, q)
  BY <1>2, <1>5, <1>7, PageMoves
<1>9. Calm => Put(p)'
  <2>1. vault'[page[p].browser] = w
    BY <1>1, <1>3, <1>4
  <2>2. Calm => Vault(p).identity = page[p].identity
    BY <1>2 DEF Inv, Quiet, Put, Vault, Storing
  <2>3. page'[p] = q
    BY <1>8 DEF Moves
  <2>4. \A k \in 1..q.next - 1 : FALSE
    BY <1>3, <1>5
  <2>. QED  BY <1>5, <1>6, <2>1, <2>2, <2>3, <2>4 DEF Put, Storing
<1>11. UNCHANGED <<published, made, faults>>
  BY DEF StoreSigned
<1>12. Mine(q) = Mine(page[p]) /\ Mine(page[p]) = page[p].batch
  BY <1>2, <1>5 DEF Mine
<1>. QED
  BY <1>3, <1>4, <1>5, <1>6, <1>7, <1>8, <1>9, <1>11, <1>12, PageWrites DEF Vault

LEMMA StorePreInv ==
  ASSUME Inv, NEW p \in Pages, StorePre(p)
  PROVE  Inv'
<1>. DEFINE a == IF Last(p) THEN "upload" ELSE "storePre"
            q == [page[p] EXCEPT !.next = @ + 1, !.at = a]
            w == [Vault(p) EXCEPT !.pre[page[p].next] = page[p].batch]
<1>1. page[p] \in PageType /\ PageShaped(page[p]) /\ vault \in [Browsers -> Keys]
  BY DEF Inv, TypeOK
<1>2. page[p].at = "storePre" /\ PageStep(p, "storePre", q)
  BY DEF StorePre, PageStep
<1>3. page[p].browser \in Browsers /\ page[p].next \in KeyIds /\ Vault(p) \in Keys
      /\ page[p].identity # 0
  BY <1>1, <1>2 DEF PageShaped, Vault, Storing
<1>4. vault' = [vault EXCEPT ![page[p].browser] = w]
  BY DEF StorePre, Vault
<1>5. a \in PageLabels
  BY Members
<1>6. q \in PageType /\ q.at = a /\ q.identity = page[p].identity
      /\ q.batch = page[p].batch /\ q.next = page[p].next + 1 /\ q.browser = page[p].browser
  BY <1>1, <1>3, <1>5, PageStores
<1>7. /\ w \in Keys /\ w.signed = Vault(p).signed /\ w.identity = Vault(p).identity
      /\ w.pre[page[p].next] = page[p].batch
      /\ \A i \in KeyIds : i # page[p].next => w.pre[i] = Vault(p).pre[i]
  BY <1>1, <1>3, PageFields, KeysSetPre
<1>. HIDE DEF q, w
<1>8. PageShaped(q)
  <2>1. ~Last(p) => page[p].next + 1 \in KeyIds
    BY <1>3, KeysAssumption DEF Last, KeyIds
  <2>. QED  BY <1>3, <1>6, <2>1 DEF PageShaped, Storing
<1>9. Storing(q) /\ Writing(page[p]) /\ Making(page[p])
      /\ q.at \in {"storePre", "upload"}
  BY <1>2, <1>6 DEF Making, Storing, Writing
<1>10. Moves(p, q)
  BY <1>2, <1>6, <1>8, PageMoves
<1>11. Calm => Put(p)'
  <2>. SUFFICES ASSUME Calm PROVE Put(p)'
    OBVIOUS
  <2>1. vault'[page[p].browser] = w
    BY <1>1, <1>3, <1>4
  <2>2. /\ Vault(p).identity = page[p].identity /\ Vault(p).signed = page[p].batch
        /\ \A k \in 1..page[p].next - 1 : Vault(p).pre[k] = page[p].batch
    BY <1>2 DEF Inv, Quiet, Put, Vault, Storing
  <2>3. page'[p] = q
    BY <1>10 DEF Moves
  <2>4. \A k \in 1..page[p].next : w.pre[k] = page[p].batch
    <3>. SUFFICES ASSUME NEW k \in 1..page[p].next, k # page[p].next
                  PROVE  w.pre[k] = page[p].batch
      BY <1>7
    <3>1. k \in 1..page[p].next - 1 /\ k \in KeyIds
      BY <1>3, KeysAssumption DEF KeyIds
    <3>. QED  BY <1>7, <2>2, <3>1
  <2>5. q.next - 1 = page[p].next
    BY <1>3, <1>6 DEF KeyIds
  <2>6. Last(p) => KeyIds = 1..page[p].next
    BY DEF Last, KeyIds
  <2>7. q.at = "upload" => \A k \in KeyIds : w.pre[k] = page[p].batch
    BY <1>6, <2>4, <2>6
  <2>. QED  BY <1>6, <1>7, <2>1, <2>2, <2>3, <2>4, <2>5, <2>7 DEF Put, Storing
<1>12. UNCHANGED <<published, made, faults>>
  BY DEF StorePre
<1>13. Mine(q) = Mine(page[p]) /\ Mine(page[p]) = page[p].batch
  BY <1>2, <1>6 DEF Mine
<1>14. Calm => Vault(p).signed = page[p].batch
  BY <1>2 DEF Inv, Quiet, Put, Vault
<1>. QED
  BY <1>3, <1>4, <1>6, <1>7, <1>9, <1>10, <1>11, <1>12, <1>13, <1>14, PageWrites
  DEF Vault

\* The batch is published, all of it at once.
LEMMA UploadInv ==
  ASSUME Inv, NEW p \in Pages, Upload(p)
  PROVE  Inv'
<1>1. page[p] \in PageType /\ PageShaped(page[p]) /\ vault \in [Browsers -> Keys]
      /\ published \in Keys
  BY DEF Inv, TypeOK
<1>2. page[p].at = "upload" /\ PageStep(p, "upload", NoPage) /\ published' = Saved(p)
      /\ UNCHANGED <<vault, made, faults>>
  BY DEF Upload, PageStep
<1>3. page[p].browser \in Browsers /\ page[p].identity # 0
  BY <1>1, <1>2 DEF PageShaped, Storing
<1>4. /\ published' \in Keys
      /\ published'.identity = page[p].identity /\ published'.signed = page[p].batch
      /\ \A k \in KeyIds : published'.pre[k] = page[p].batch
  BY <1>1, <1>2, PageFields DEF Saved, Keys
<1>5. NoPage \in PageType /\ PageShaped(NoPage) /\ ~Making(NoPage) /\ ~Writing(NoPage)
      /\ ~Storing(NoPage)
  BY Empty DEF PageShaped, Storing, Making, Writing
<1>6. Moves(p, NoPage)
  BY <1>2, <1>5, PageMoves
<1>same. UNCHANGED <<send, session, trusted, read, inbound, opened, failed>>
  BY <1>6 DEF Moves, senderSide, readerSide
<1>7. Making(page[p]) /\ Writing(page[p]) /\ Storing(page[p]) /\ Mine(page[p]) = page[p].batch
  BY <1>2 DEF Making, Writing, Storing, Mine
<1>8. page[p].batch \notin Out /\ page[p].batch # 0
  BY <1>7, Counters DEF Inv, Generated, Unseen
<1>9. \A s \in Sends : Its(s).pre # page[p].batch /\ Its(s).signed # page[p].batch
  BY <1>8 DEF Out
<1>10. Generated'
  <2>1. \A g \in Out' : g \in Out \/ g = page[p].batch
    BY <1>4, <1>same DEF Out, Its
  <2>2. \A g \in Out' :
           g \in Out \/ (Making(page[p]) /\ g = Mine(page[p]) /\ ~Making(NoPage))
    BY <1>5, <1>7, <2>1
  <2>3. made' \in Generations /\ made <= made'
    BY <1>2, Counters
  <2>4. \A b \in Browsers : vault'[b].signed = vault[b].signed
    BY <1>2
  <2>. QED  BY <1>5, <1>6, <2>2, <2>3, <2>4, GeneratedByPage
<1>11. PublishedShaped'
  BY <1>3, <1>4, <1>8 DEF PublishedShaped
<1>12. Calm' => Quiet'
  <2>. SUFFICES ASSUME Calm' PROVE Quiet'
    OBVIOUS
  <2>1. Calm
    BY <1>2, <1>6, Counters, CalmBefore DEF Moves
  <2>2. Quiet
    BY <2>1 DEF Inv
  <2>3. /\ \A o \in Pages : Writing(page[o]) => o = p
        /\ \A s \in Sends : ~Fetching(send[s])
    BY <1>7, <2>1, WriterAlone
  <2>4. page'[p] = NoPage /\ \A o \in Pages : ~Writing(page'[o])
    BY <1>5, <1>6, <2>3 DEF Moves
  <2>5. (\A o \in Pages : Put(o))'
    BY <2>4 DEF Put, Writing, Storing
  <2>6. HeldOrReplaced'
    <3>0. PICK b \in Browsers : b = page[p].browser
      BY <1>3
    <3>1. /\ vault[b].identity = page[p].identity /\ vault[b].signed = page[p].batch
          /\ \A k \in KeyIds : vault[b].pre[k] = page[p].batch
      BY <1>2, <2>2, <3>0 DEF Quiet, Put, Storing
    <3>2. \A c \in Browsers : vault[c].signed = page[p].batch => c = b
      BY <1>7, <3>0 DEF Inv, Generated, Unseen
    <3>3. Holds(b)'
      BY <1>2, <1>4, <3>1 DEF Holds, Offered
    <3>4. \A c \in Browsers : vault'[c].signed = published'.signed => Holds(c)'
      BY <1>2, <1>4, <3>2, <3>3
    <3>5. vault'[b].signed = published'.signed /\ b \in Browsers
      BY <1>2, <1>4, <3>1
    <3>. QED  BY <3>4, <3>5 DEF HeldOrReplaced
  <2>7. (\A s \in Sends : OfOneBatch(s))'
    <3>. SUFFICES ASSUME NEW s \in Sends PROVE OfOneBatch(s)'
      OBVIOUS
    <3>1. OfOneBatch(s) /\ ~Fetching(send[s])
      BY <2>2, <2>3 DEF Quiet
    <3>. QED  BY <1>same, <3>1 DEF OfOneBatch, Fetching, Its
  <2>8. (\A s \in Sends, b \in Browsers : Opens(s, b))'
    <3>. SUFFICES ASSUME NEW s \in Sends, NEW b \in Browsers PROVE Opens(s, b)'
      OBVIOUS
    <3>1. Opens(s, b) /\ Its(s)' = Its(s) /\ vault'[b] = vault[b]
      BY <1>2, <1>same, <2>2 DEF Quiet, Its
    <3>2. UsedIn(b, s)' <=> UsedIn(b, s)
      BY <1>same DEF UsedIn, SameKey, Its
    <3>. QED  BY <1>same, <3>1, <3>2 DEF Opens, Bundled
  <2>9. (\A r \in Reads : Found(r))'
    BY <1>2, <1>same, <2>2 DEF Quiet, Found, Its
  <2>10. \A s : Explained(s)' <=> Explained(s)
    BY <1>2, <1>same DEF Explained, Shared, Its
  <2>. QED  BY <1>same, <2>2, <2>5, <2>6, <2>7, <2>8, <2>9, <2>10 DEF Quiet
<1>13. \A k \in KeyIds : \A s \in Sends : Its(s).pre # published'.pre[k]
  BY <1>4, <1>9
<1>. QED
  BY <1>1, <1>2, <1>3, <1>4, <1>6, <1>10, <1>11, <1>12, <1>13, Counters, PageInv

-----------------------------------------------------------------------------
(* Steps of a sender.                                                      *)

\* Message s goes on as r, the others stay, and so do pages and decryptions.
Sending(s, r) ==
    /\ r \in SendType /\ send[s].at \notin {"sent", "refused"}
    /\ send' \in [Sends -> SendType] /\ send'[s] = r
    /\ \A t \in Sends : t # s => send'[t] = send[t]
    /\ UNCHANGED <<vault, made, page, read, inbound, opened, failed, faults>>
    /\ Stepped

\* Keys may leave the pool.
Consuming ==
    /\ published' \in Keys
    /\ published'.identity = published.identity /\ published'.signed = published.signed
    /\ \A k \in KeyIds : published'.pre[k] \in {0, published.pre[k]}

LEMMA SendMoves ==
  ASSUME Inv, NEW s \in Sends, NEW from, NEW r \in SendType, SendStep(s, from, r),
         from \notin {"sent", "refused"}
  PROVE  /\ Sending(s, r) /\ send[s].at = from /\ send[s] \in SendType
         /\ SendShaped(s) /\ Taken(s)
<1>1. send \in [Sends -> SendType] /\ SendShaped(s) /\ Taken(s)
  BY DEF Inv, TypeOK
<1>2. Stepped
  BY Watched DEF SendStep
<1>. QED  BY <1>1, <1>2 DEF SendStep, Sending, browserSide, readerSide

\* A message that is sent stays as it is.
LEMMA SentStays ==
  ASSUME NEW s \in Sends, NEW r, Sending(s, r), NEW t \in Sends, send[t].at = "sent"
  PROVE  t # s /\ send'[t] = send[t]
  BY DEF Sending

LEMMA OutBySend ==
  ASSUME Inv, NEW s \in Sends, NEW r, Sending(s, r), Consuming,
         r.bundle.signed \in Out \cup {0}, r.bundle.pre \in Out \cup {0}
  PROVE  Generated'
<1>1. \A g \in Out' : g \in Out \cup {0}
  <2>1. \A t \in Sends : Its(t)' = Its(t) \/ Its(t)' = r.bundle
    BY DEF Sending, Its
  <2>2. published'.signed \in Out
    BY DEF Consuming, Out
  <2>3. \A k \in KeyIds : published'.pre[k] \in Out \cup {0}
    BY DEF Consuming, Out
  <2>4. \A t \in Sends : Its(t).signed \in Out /\ Its(t).pre \in Out
    BY DEF Out
  <2>. QED  BY <2>1, <2>2, <2>3, <2>4 DEF Out
<1>2. Generated /\ made \in Nat
  BY Counters DEF Inv
<1>3. \A g \in Out' : g <= made
  BY <1>1, <1>2 DEF Generated
<1>4. ASSUME NEW p \in Pages, Making(page[p])
      PROVE  Unseen(p)'
  <2>1. Unseen(p)
    BY <1>2, <1>4 DEF Generated
  <2>2. Mine(page[p]) \notin Out'
    BY <1>1, <1>2, <2>1 DEF Unseen
  <2>. QED  BY <2>1, <2>2 DEF Unseen, Sending
<1>. QED  BY <1>2, <1>3, <1>4 DEF Generated, Sending

LEMMA SendsShaped ==
  ASSUME Inv, NEW s \in Sends, NEW r, Sending(s, r), Consuming,
         SendShaped(s)', Taken(s)',
         \A x \in Peers : \/ session'[x] = session[x]
                          \/ session'[x] = s /\ r.at = "sent" /\ r.base = s
  PROVE  /\ (\A t \in Sends : SendShaped(t) /\ Taken(t))'
         /\ (\A x \in Peers : SessionShaped(x))'
         /\ (\A c \in Reads : ReadShaped(c))'
         /\ (\A t \in failed : send[t].at = "sent")'
<1>1. ASSUME NEW t \in Sends, t # s
      PROVE  SendShaped(t)' /\ Taken(t)'
  <2>1. send'[t] = send[t] /\ Its(t)' = Its(t)
    BY <1>1 DEF Sending, Its
  <2>2. SendShaped(t) /\ Taken(t)
    BY DEF Inv
  <2>3. send[t].at = "sent" => send'[send[t].base] = send[t]
    BY <2>2, SentStays DEF SendShaped
  <2>4. SendShaped(t)'
    BY <2>1, <2>2, <2>3 DEF SendShaped, Consuming, Bundled
  <2>5. Its(t).id # 0 => Its(t).id \in KeyIds /\ Its(t).pre # 0
    BY <2>2, BundleFields DEF Inv, TypeOK, Its, SendShaped
  <2>6. Taken(t)'
    BY <2>1, <2>2, <2>5 DEF Taken, Done, Consuming
  <2>. QED  BY <2>4, <2>6
<1>2. ASSUME NEW x \in Peers
      PROVE  SessionShaped(x)'
  <2>1. SessionShaped(x) /\ session[x] \in Sends \cup {Nobody}
    BY DEF Inv, TypeOK
  <2>2. CASE session'[x] = session[x]
    BY <2>1, <2>2, SentStays DEF SessionShaped
  <2>3. CASE session'[x] = s /\ r.at = "sent" /\ r.base = s
    BY <2>3 DEF SessionShaped, Sending
  <2>. QED  BY <2>2, <2>3
<1>3. ASSUME NEW c \in Reads
      PROVE  ReadShaped(c)'
  <2>1. ReadShaped(c) /\ read' = read
    BY DEF Inv, Sending
  <2>. QED  BY <2>1, SentStays DEF ReadShaped
<1>4. (\A t \in failed : send[t].at = "sent")'
  BY SentStays DEF Inv, TypeOK, Sending
<1>. QED  BY <1>1, <1>2, <1>3, <1>4

\* A key is given out when its fetch has deleted it, and nobody else had it.
LEMMA SendsApart ==
  ASSUME Inv, NEW s \in Sends, NEW r, Sending(s, r),
         r.at = "delete" => \A t \in Sends : Done(t) =>
            <<Its(t).id, Its(t).pre>> # <<r.bundle.id, r.bundle.pre>>,
         Done(s)' /\ r.bundle.id # 0 =>
            \/ \E u \in Sends : Done(u) /\ Its(u) = r.bundle
            \/ send[s].at = "delete",
         HandedOut(s)' => Its(s) = r.bundle /\ (HandedOut(s) \/ send[s].at = "delete")
  PROVE  TakenAlone' /\ HandedOutOnce'
<1>. SUFFICES ASSUME "fetches" \notin met'
              PROVE  /\ \A t, u \in Sends :
                           send'[t].at = "delete" /\ Done(u)' => ~SameKey(t, u)'
                     /\ \A t, u \in Sends : t # u /\ HandedOut(t)' /\ HandedOut(u)' =>
                           <<Its(t)'.id, Its(t)'.pre>> # <<Its(u)'.id, Its(u)'.pre>>
  BY DEF TakenAlone, HandedOutOnce
<1>1. "fetches" \notin met /\ "fetches" \notin Overlaps(page, send, read)
  BY DEF Inv, Sending, Stepped
<1>2. \A t \in Sends : send[t].at = "delete" /\ send[s].at = "delete" => t = s
  BY <1>1, FetchesMeet DEF Fetching
<1>3. Its(s)' = r.bundle /\ send'[s] = r
  BY DEF Its, Sending
<1>4. \A t \in Sends : t # s =>
         Its(t)' = Its(t) /\ send'[t] = send[t] /\ (Done(t)' <=> Done(t))
            /\ (HandedOut(t)' <=> HandedOut(t))
  BY DEF Its, Sending, Done, HandedOut
<1>5. \A t, u \in Sends : send[t].at = "delete" /\ Done(u) => ~SameKey(t, u)
  BY <1>1 DEF Inv, TakenAlone
<1>6. \A t, u \in Sends : t # u /\ HandedOut(t) /\ HandedOut(u) =>
         <<Its(t).id, Its(t).pre>> # <<Its(u).id, Its(u).pre>>
  BY <1>1 DEF Inv, HandedOutOnce
<1>7. ASSUME NEW t \in Sends, NEW u \in Sends, send'[t].at = "delete", Done(u)'
      PROVE  ~SameKey(t, u)'
  <2>1. CASE t = s
    <3>1. u # s
      BY <1>3, <1>7, <2>1 DEF Done
    <3>. QED  BY <1>3, <1>4, <1>7, <2>1, <3>1 DEF SameKey
  <2>2. CASE t # s /\ u = s
    <3>1. send[t].at = "delete" /\ Its(t)' = Its(t) /\ Its(t).id # 0
      BY <1>4, <1>7, <2>2 DEF Inv, SendShaped
    <3>2. CASE r.bundle.id = 0
      BY <1>3, <2>2, <3>1, <3>2 DEF SameKey
    <3>3. CASE \E v \in Sends : Done(v) /\ Its(v) = r.bundle
      BY <1>3, <1>5, <2>2, <3>1, <3>3 DEF SameKey
    <3>4. CASE send[s].at = "delete"
      BY <1>2, <2>2, <3>1, <3>4
    <3>. QED  BY <1>7, <2>2, <3>2, <3>3, <3>4
  <2>3. CASE t # s /\ u # s
    BY <1>4, <1>5, <1>7, <2>3 DEF SameKey
  <2>. QED  BY <2>1, <2>2, <2>3
<1>8. ASSUME NEW t \in Sends, t # s, HandedOut(s)', HandedOut(t)'
      PROVE  <<Its(t).id, Its(t).pre>> # <<r.bundle.id, r.bundle.pre>>
  <2>1. HandedOut(t) /\ Done(t)
    BY <1>4, <1>8 DEF HandedOut, Done
  <2>. QED  BY <1>5, <1>6, <1>8, <2>1 DEF SameKey
<1>9. ASSUME NEW t \in Sends, NEW u \in Sends, t # u, HandedOut(t)', HandedOut(u)'
      PROVE  <<Its(t)'.id, Its(t)'.pre>> # <<Its(u)'.id, Its(u)'.pre>>
  <2>1. CASE t = s
    BY <1>3, <1>4, <1>8, <1>9, <2>1
  <2>2. CASE u = s
    BY <1>3, <1>4, <1>8, <1>9, <2>2
  <2>3. CASE t # s /\ u # s
    BY <1>4, <1>6, <1>9, <2>3
  <2>. QED  BY <2>1, <2>2, <2>3
<1>. QED  BY <1>7, <1>9

\* A browser that has used a key for a message has still.
LEMMA UsedStays ==
  ASSUME Inv, NEW s \in Sends, NEW r, Sending(s, r), NEW b \in Browsers,
         NEW x \in inbound[b], x \in Sends, send[x].base = x
  PROVE  x \in inbound'[b] /\ send'[x].base = x /\ Its(x)' = Its(x)
<1>1. send[x].at = "sent"
  BY KeysAssumption DEF Inv, SendShaped
<1>2. x # s /\ send'[x] = send[x]
  BY <1>1, SentStays
<1>. QED  BY <1>2 DEF Sending, Its

LEMMA SendsQuiet ==
  ASSUME Inv, NEW s \in Sends, NEW r, Sending(s, r), Consuming, Calm,
         OfOneBatch(s)',
         \A b \in Browsers :
            /\ r.at \in {"pre", "delete", "check", "process", "sent"}
            /\ vault[b].signed = r.bundle.signed
            => /\ vault[b].identity = r.bundle.identity
               /\ r.bundle.id # 0 =>
                     \/ vault[b].pre[r.bundle.id] = r.bundle.pre
                     \/ \E x \in inbound[b] :
                           /\ x \in Sends /\ send[x].base = x
                           /\ <<Its(x).id, Its(x).pre>> = <<r.bundle.id, r.bundle.pre>>
  PROVE  Quiet'
<1>1. Quiet
  BY DEF Inv
<1>2. /\ vault' = vault /\ page' = page /\ read' = read /\ inbound' = inbound
      /\ failed' = failed /\ send'[s] = r /\ \A t \in Sends : t # s => send'[t] = send[t]
  BY DEF Sending
<1>3. (\A p \in Pages : Put(p))'
  BY <1>1, <1>2 DEF Quiet, Put
<1>4. HeldOrReplaced'
  <2>1. \A b \in Browsers : Holds(b) => Holds(b)'
    BY <1>2 DEF Holds, Offered, Consuming
  <2>. QED  BY <1>1, <1>2, <2>1 DEF Quiet, HeldOrReplaced, Consuming
<1>5. ASSUME NEW t \in Sends
      PROVE  OfOneBatch(t)'
  <2>1. CASE t # s
    BY <1>1, <1>2, <2>1 DEF Quiet, OfOneBatch, Its, Consuming
  <2>. QED  BY <2>1
<1>6. ASSUME NEW t \in Sends, NEW b \in Browsers
      PROVE  Opens(t, b)'
  <2>1. CASE t # s
    <3>1. Its(t)' = Its(t) /\ Opens(t, b) /\ (Bundled(t)' <=> Bundled(t))
      BY <1>1, <1>2, <2>1 DEF Quiet, Its, Bundled
    <3>2. UsedIn(b, t) => UsedIn(b, t)'
      BY <3>1, UsedStays DEF UsedIn, SameKey
    <3>. QED  BY <1>2, <3>1, <3>2 DEF Opens
  <2>2. CASE t = s
    <3>1. Its(t)' = r.bundle
      BY <1>2, <2>2 DEF Its
    <3>2. (\E x \in inbound[b] :
              /\ x \in Sends /\ send[x].base = x
              /\ <<Its(x).id, Its(x).pre>> = <<r.bundle.id, r.bundle.pre>>)
            => UsedIn(b, t)'
      BY <3>1, UsedStays DEF UsedIn, SameKey
    <3>. QED  BY <1>2, <2>2, <3>1, <3>2 DEF Opens, Bundled
  <2>. QED  BY <2>1, <2>2
<1>7. ASSUME NEW t \in Sends, send[t].at = "sent"
      PROVE  send'[t] = send[t] /\ Its(t)' = Its(t)
  BY <1>7, SentStays DEF Its
<1>8. (\A c \in Reads : Found(c))'
  <2>. SUFFICES ASSUME NEW c \in Reads, read[c].at = "finish" PROVE Found(c)'
    BY <1>2 DEF Found
  <2>1. read[c].message \in Sends /\ send[read[c].message].at = "sent"
    BY DEF Inv, ReadShaped
  <2>. QED  BY <1>1, <1>2, <1>7, <2>1 DEF Quiet, Found
<1>9. ASSUME NEW t \in Sends, send[t].at = "sent", Explained(t)
      PROVE  Explained(t)'
  <2>1. ASSUME Shared(t)
        PROVE  Shared(t)'
    <3>1. PICK x \in Sends \ {send[t].base} :
             /\ send[x].base = x
             /\ Its(x).id # 0 /\ Its(x).id = Its(t).id /\ Its(x).pre = Its(t).pre
      BY <2>1 DEF Shared
    <3>2. send[x].at = "sent"
      BY <3>1, KeysAssumption DEF Inv, SendShaped
    <3>. QED  BY <1>7, <1>9, <3>1, <3>2 DEF Shared
  <2>. QED  BY <1>2, <1>7, <1>9, <2>1 DEF Explained
<1>10. \A t \in failed : Explained(t)'
  BY <1>1, <1>9 DEF Inv, TypeOK, Quiet
<1>11. ASSUME NEW c \in Reads, read[c].at = "finish", ~read[c].ok
       PROVE  Explained(read[c].message)'
  <2>1. PICK t : t = read[c].message
    OBVIOUS
  <2>2. t \in Sends /\ send[t].at = "sent" /\ Explained(t)
    BY <1>1, <1>11, <2>1 DEF Inv, ReadShaped, Quiet
  <2>3. Explained(t)'
    BY <1>9, <2>2
  <2>. QED  BY <1>2, <2>1, <2>3
<1>. QED
  BY <1>2, <1>3, <1>4, <1>5, <1>6, <1>8, <1>10, <1>11 DEF Quiet

LEMMA SendInv ==
  ASSUME Inv, NEW s \in Sends, NEW r, Sending(s, r), Consuming,
         session' \in [Peers -> Sends \cup {Nobody}], trusted' \in [Peers -> Generations],
         \A x \in Peers : \/ session'[x] = session[x]
                          \/ session'[x] = s /\ r.at = "sent" /\ r.base = s,
         r.bundle.signed \in Out \cup {0}, r.bundle.pre \in Out \cup {0},
         SendShaped(s)', Taken(s)', TakenAlone', HandedOutOnce', Calm => Quiet'
  PROVE  Inv'
<1>1. TypeOK'
  BY DEF Inv, TypeOK, Sending, Consuming, Stepped
<1>2. PublishedShaped'
  BY DEF Inv, PublishedShaped, Consuming
<1>3. Generated'
  BY OutBySend
<1>4. /\ (\A t \in Sends : SendShaped(t) /\ Taken(t))'
      /\ (\A x \in Peers : SessionShaped(x))'
      /\ (\A c \in Reads : ReadShaped(c))'
      /\ (\A t \in failed : send[t].at = "sent")'
  BY SendsShaped
<1>5. \A p \in Pages : PageShaped(page'[p])
  BY DEF Inv, Sending
<1>6. Calm' => Calm
  BY Counters, CalmBefore DEF Sending
<1>7. (Overlaps(page, send, read) \subseteq met)'
  BY DEF Sending, Stepped
<1>. QED  BY <1>1, <1>2, <1>3, <1>4, <1>5, <1>6, <1>7 DEF Inv

LEMMA Unconsumed ==
  ASSUME Inv, UNCHANGED published
  PROVE  Consuming
  BY DEF Inv, TypeOK, Consuming

\* A statement of a fetch, and what the sender makes of the bundle.
LEMMA FetchedInv ==
  ASSUME Inv, NEW s \in Sends, NEW from, from \notin {"sent", "refused"},
         NEW label \in SendLabels \ {"sent"}, NEW c \in Bundle, Fetched(s, from, label, c),
         c.signed \in Out \cup {0}, c.pre \in Out \cup {0},
         label \in {"new", "device", "signed", "pre"} => c.id = 0,
         label = "delete" => c.id \in KeyIds /\ published.pre[c.id] = c.pre,
         c.id # 0 => c.pre # 0,
         label \in {"signed", "pre", "delete", "check", "process"} =>
            c.identity # 0 /\ published.identity # 0,
         label \in {"pre", "delete", "check", "process"} => c.signed # 0,
         label \in {"check", "process", "refused"} /\ c.id # 0 => c = Its(s) /\ Done(s),
         Calm => /\ label \in {"signed", "pre", "delete"} => c.identity = published.identity
                 /\ label \in {"pre", "delete"} => c.signed = published.signed
                 /\ c.id # 0 => c.pre = c.signed,
         Calm => \/ c = Its(s) /\ Bundled(s)
                 \/ \A b \in Browsers :
                       /\ label \in {"pre", "delete", "check", "process"}
                       /\ vault[b].signed = c.signed
                       => /\ vault[b].identity = c.identity
                          /\ c.id # 0 => vault[b].pre[c.id] = c.pre
  PROVE  Inv'
<1>1. send[s] \in SendType /\ SendShaped(s) /\ Taken(s)
  BY DEF Inv, TypeOK
<1>2. PICK r : r = [send[s] EXCEPT !.at = label, !.bundle = c]
  OBVIOUS
<1>3. r \in SendType /\ r.at = label /\ r.bundle = c /\ r.base = send[s].base
  BY <1>1, <1>2 DEF SendType
<1>4. SendStep(s, from, r) /\ UNCHANGED <<published, session, trusted>>
  BY <1>2 DEF Fetched
<1>5. Sending(s, r) /\ send[s].at = from
  BY <1>3, <1>4, SendMoves
<1>6. r.base = Nobody
  BY <1>1, <1>3, <1>5 DEF SendShaped
<1>7. Consuming
  BY <1>4, Unconsumed
<1>8. send'[s] = r /\ Its(s)' = c
  BY <1>3, <1>5 DEF Sending, Its
<1>9. SendShaped(s)'
  BY <1>3, <1>4, <1>6, <1>8, Numbers DEF SendShaped, Bundled
<1>10. Taken(s)'
  BY <1>1, <1>3, <1>4, <1>8 DEF Taken, Done
<1>11. TakenAlone' /\ HandedOutOnce'
  <2>1. ASSUME r.at = "delete", NEW t \in Sends, Done(t)
        PROVE  <<Its(t).id, Its(t).pre>> # <<r.bundle.id, r.bundle.pre>>
    <3>1. Its(t).id # 0 => published.pre[Its(t).id] # Its(t).pre
      BY <2>1 DEF Inv, Taken
    <3>. QED  BY <1>3, <2>1, <3>1, Numbers
  <2>2. Done(s)' /\ r.bundle.id # 0 => Done(s) /\ Its(s) = r.bundle
    BY <1>3, <1>8 DEF Done
  <2>3. HandedOut(s)' => Its(s) = r.bundle /\ HandedOut(s)
    BY <1>3, <1>6, <1>8, <2>2 DEF HandedOut, Done
  <2>. QED  BY <1>5, <2>1, <2>2, <2>3, SendsApart
<1>12. Calm => Quiet'
  <2>. SUFFICES ASSUME Calm PROVE Quiet'
    OBVIOUS
  <2>1. OfOneBatch(s)'
    BY <1>3, <1>4, <1>8 DEF OfOneBatch, Fetching
  <2>2. ASSUME NEW b \in Browsers, r.at \in {"pre", "delete", "check", "process", "sent"},
               vault[b].signed = r.bundle.signed
        PROVE  /\ vault[b].identity = r.bundle.identity
               /\ r.bundle.id # 0 =>
                     \/ vault[b].pre[r.bundle.id] = r.bundle.pre
                     \/ \E x \in inbound[b] :
                           /\ x \in Sends /\ send[x].base = x
                           /\ <<Its(x).id, Its(x).pre>> = <<r.bundle.id, r.bundle.pre>>
    <3>1. CASE c = Its(s) /\ Bundled(s)
      <4>1. Opens(s, b)
        BY DEF Inv, Quiet
      <4>. QED  BY <1>3, <2>2, <3>1, <4>1 DEF Opens, UsedIn, SameKey
    <3>2. CASE \A d \in Browsers :
                  /\ label \in {"pre", "delete", "check", "process"}
                  /\ vault[d].signed = c.signed
                  => /\ vault[d].identity = c.identity
                     /\ c.id # 0 => vault[d].pre[c.id] = c.pre
      BY <1>3, <2>2, <3>2
    <3>. QED  BY <3>1, <3>2
  <2>. QED  BY <1>5, <1>7, <2>1, <2>2, SendsQuiet
<1>13. session' \in [Peers -> Sends \cup {Nobody}] /\ trusted' \in [Peers -> Generations]
       /\ \A x \in Peers : session'[x] = session[x]
  BY <1>4 DEF Inv, TypeOK
<1>. QED
  BY <1>3, <1>5, <1>7, <1>9, <1>10, <1>11, <1>12, <1>13, SendInv

LEMMA InOut ==
  ASSUME Inv
  PROVE  /\ published.signed \in Out /\ \A k \in KeyIds : published.pre[k] \in Out
         /\ \A s \in Sends : Its(s).signed \in Out /\ Its(s).pre \in Out
         /\ published \in Keys /\ \A s \in Sends : Its(s) \in Bundle
         /\ published.identity \in Generations /\ published.signed \in Generations
         /\ \A k \in KeyIds : published.pre[k] \in Generations
         /\ \A s \in Sends : SendShaped(s)
  BY KeysFields, BundleFields DEF Out, Inv, TypeOK, Its

LEMMA BeginSendInv ==
  ASSUME Inv, NEW s \in Sends, BeginSend(s)
  PROVE  Inv'
<1>1. Fetched(s, "new", "device", NoBundle)
  BY DEF BeginSend
<1>2. "device" \in SendLabels \ {"sent"}
  BY Members
<1>. QED  BY <1>1, <1>2, Empty, FetchedInv

LEMMA FetchDeviceInv ==
  ASSUME Inv, NEW s \in Sends, FetchDevice(s)
  PROVE  Inv'
<1>1. PICK c : c = [NoBundle EXCEPT !.identity = published.identity]
  OBVIOUS
<1>2. c \in Bundle /\ c.identity = published.identity /\ c.id = 0 /\ c.pre = 0 /\ c.signed = 0
  BY <1>1, Empty, InOut DEF Bundle
<1>3. PICK label \in {"refused", "signed"} :
         label = IF published.identity = 0 THEN "refused" ELSE "signed"
  OBVIOUS
<1>4. label \in SendLabels \ {"sent"}
  BY Members
<1>5. Fetched(s, "device", label, c)
  BY <1>1, <1>3 DEF FetchDevice
<1>. QED  BY <1>2, <1>3, <1>4, <1>5, FetchedInv

LEMMA FetchSignedInv ==
  ASSUME Inv, NEW s \in Sends, FetchSigned(s)
  PROVE  Inv'
<1>1. PICK c : c = [Its(s) EXCEPT !.signed = published.signed, !.by = published.identity]
  OBVIOUS
<1>2. Fetched(s, "signed", "pre", c) /\ send[s].at = "signed"
  BY <1>1 DEF FetchSigned, Fetched, SendStep
<1>3. /\ c \in Bundle /\ c.identity = Its(s).identity /\ c.id = Its(s).id
      /\ c.pre = Its(s).pre /\ c.signed = published.signed
  BY <1>1, InOut DEF Bundle
<1>4. Its(s).id = 0 /\ Its(s).identity # 0 /\ published.identity # 0 /\ published.signed # 0
  BY <1>2, InOut DEF SendShaped, Inv, PublishedShaped
<1>5. ASSUME Calm
      PROVE  /\ c.identity = published.identity
             /\ \A b \in Browsers : vault[b].signed = c.signed => vault[b].identity = c.identity
  <2>1. OfOneBatch(s) /\ HeldOrReplaced
    BY <1>5 DEF Inv, Quiet
  <2>. QED  BY <1>2, <1>3, <1>4, <2>1 DEF OfOneBatch, Fetching, HeldOrReplaced, Holds
<1>6. "pre" \in SendLabels \ {"sent"}
  BY Members
<1>. QED  BY <1>2, <1>3, <1>4, <1>5, <1>6, InOut, FetchedInv

LEMMA FetchPreInv ==
  ASSUME Inv, NEW s \in Sends, FetchPre(s)
  PROVE  Inv'
<1>1. send[s].at = "pre"
  BY DEF FetchPre, Fetched, SendStep
<1>2. Its(s).id = 0 /\ Its(s).identity # 0 /\ published.identity # 0 /\ Its(s).signed # 0
  BY <1>1, InOut DEF SendShaped, Bundled
<1>3. Calm => /\ Its(s).identity = published.identity /\ Its(s).signed = published.signed
              /\ HeldOrReplaced
  BY <1>1 DEF Inv, Quiet, OfOneBatch, Fetching
<1>4. CASE Fetched(s, "pre", "check", Its(s))
  <2>1. "check" \in SendLabels \ {"sent"} /\ Bundled(s)
    BY <1>1, Members DEF Bundled
  <2>. QED  BY <1>1, <1>2, <1>4, <2>1, InOut, FetchedInv
<1>5. CASE /\ Offered # {}
           /\ LET k == Min(Offered)
              IN Fetched(s, "pre", "delete", [Its(s) EXCEPT !.id = k, !.pre = published.pre[k]])
  <2>1. PICK k \in KeyIds : k = Min(Offered) /\ published.pre[k] # 0
    BY <1>5, OfferedLeast
  <2>2. PICK c : c = [Its(s) EXCEPT !.id = k, !.pre = published.pre[k]]
    OBVIOUS
  <2>3. Fetched(s, "pre", "delete", c)
    BY <1>5, <2>1, <2>2
  <2>4. /\ c \in Bundle /\ c.identity = Its(s).identity /\ c.id = k
        /\ c.pre = published.pre[k] /\ c.signed = Its(s).signed
    BY <2>2, InOut, Numbers DEF Bundle
  <2>5. ASSUME Calm
        PROVE  /\ c.pre = c.signed
               /\ \A b \in Browsers : vault[b].signed = c.signed =>
                     vault[b].identity = c.identity /\ vault[b].pre[k] = c.pre
    <3>1. published.pre[k] = published.signed
      BY <2>1 DEF Inv, PublishedShaped
    <3>2. \A b \in Browsers : vault[b].signed = published.signed => Holds(b)
      BY <1>2, <1>3, <2>5 DEF HeldOrReplaced
    <3>. QED  BY <1>3, <2>1, <2>4, <2>5, <3>1, <3>2 DEF Holds, Offered
  <2>6. "delete" \in SendLabels \ {"sent"}
    BY Members
  <2>. QED  BY <1>2, <1>3, <2>1, <2>3, <2>4, <2>5, <2>6, InOut, FetchedInv
<1>. QED  BY <1>4, <1>5 DEF FetchPre

\* The bundle is as it was: the sender goes on, or gives up.
LEMMA SameBundleInv ==
  ASSUME Inv, NEW s \in Sends, NoSessionYet(s) \/ Refuse(s)
  PROVE  Inv'
<1>1. PICK from \in {"check", "process"}, label \in {"process", "refused"} :
         Fetched(s, from, label, Its(s))
  BY DEF NoSessionYet, Refuse
<1>2. send[s].at = from /\ Done(s) /\ Bundled(s)
  BY <1>1 DEF Fetched, SendStep, Done, Bundled
<1>3. /\ Its(s).identity # 0 /\ published.identity # 0 /\ Its(s).signed # 0
      /\ Its(s).id # 0 => Its(s).pre # 0
  BY <1>2, InOut DEF SendShaped, Bundled
<1>4. Calm => (Its(s).id # 0 => Its(s).pre = Its(s).signed)
  BY DEF Inv, Quiet, OfOneBatch
<1>5. label \in SendLabels \ {"sent"} /\ from \notin {"sent", "refused"}
      /\ label \notin {"new", "device", "signed", "pre", "delete"}
  BY Members
<1>. QED  BY <1>1, <1>2, <1>3, <1>4, <1>5, InOut, FetchedInv

\* The key leaves the pool, and the sender has it.
LEMMA FetchDeleteInv ==
  ASSUME Inv, NEW s \in Sends, FetchDelete(s)
  PROVE  Inv'
<1>1. PICK r : r = [send[s] EXCEPT !.at = "check"]
  OBVIOUS
<1>2. send[s] \in SendType /\ SendShaped(s)
  BY DEF Inv, TypeOK
<1>3. r \in SendType /\ r.at = "check" /\ r.bundle = Its(s) /\ r.base = send[s].base
  BY <1>1, <1>2, Members DEF SendType, Its
<1>4. SendStep(s, "delete", r) /\ UNCHANGED <<session, trusted>>
  BY <1>1 DEF FetchDelete
<1>5. Sending(s, r) /\ send[s].at = "delete"
  BY <1>3, <1>4, SendMoves
<1>6. /\ Its(s).id \in KeyIds /\ Its(s).pre # 0 /\ Its(s).identity # 0
      /\ published.identity # 0 /\ Its(s).signed # 0 /\ send[s].base = Nobody
  BY <1>2, <1>5, BundleFields DEF SendShaped, Bundled, Its
<1>7. published' \in Keys /\ published'.identity = published.identity
      /\ published'.signed = published.signed /\ published'.pre[Its(s).id] = 0
      /\ \A k \in KeyIds : k # Its(s).id => published'.pre[k] = published.pre[k]
  BY <1>6, InOut, KeysSetPre, Numbers DEF FetchDelete, Consume
<1>8. Consuming
  BY <1>7 DEF Consuming
<1>9. send'[s] = r /\ Its(s)' = Its(s)
  BY <1>3, <1>5 DEF Sending, Its
<1>10. SendShaped(s)' /\ Taken(s)'
  <2>1. SendShaped(s)'
    BY <1>3, <1>6, <1>7, <1>9 DEF SendShaped, Bundled
  <2>2. Taken(s)'
    BY <1>6, <1>7, <1>9 DEF Taken
  <2>. QED  BY <2>1, <2>2
<1>11. TakenAlone' /\ HandedOutOnce'
  BY <1>3, <1>5, SendsApart
<1>12. Calm => Quiet'
  <2>. SUFFICES ASSUME Calm PROVE Quiet'
    OBVIOUS
  <2>1. OfOneBatch(s) /\ \A b \in Browsers : Opens(s, b)
    BY DEF Inv, Quiet
  <2>2. OfOneBatch(s)'
    BY <1>3, <1>9, <2>1 DEF OfOneBatch, Fetching
  <2>. QED
    BY <1>3, <1>5, <1>8, <2>1, <2>2, SendsQuiet DEF Opens, UsedIn, SameKey, Bundled
<1>13. session' \in [Peers -> Sends \cup {Nobody}] /\ trusted' \in [Peers -> Generations]
       /\ \A x \in Peers : session'[x] = session[x]
  BY <1>4 DEF Inv, TypeOK
<1>. QED
  BY <1>3, <1>5, <1>8, <1>10, <1>11, <1>12, <1>13, InOut, SendInv

\* The session is built.
LEMMA ProcessInv ==
  ASSUME Inv, NEW s \in Sends, Process(s)
  PROVE  Inv'
<1>1. PICK r : r = [send[s] EXCEPT !.at = "sent", !.base = s]
  OBVIOUS
<1>2. send[s] \in SendType /\ SendShaped(s) /\ Taken(s)
  BY DEF Inv, TypeOK
<1>3. r \in SendType /\ r.at = "sent" /\ r.bundle = Its(s) /\ r.base = s
  BY <1>1, <1>2, Members DEF SendType, Its
<1>4. SendStep(s, "process", r) /\ UNCHANGED published
  BY <1>1 DEF Process
<1>5. Sending(s, r) /\ send[s].at = "process"
  BY <1>3, <1>4, SendMoves
<1>6. /\ Its(s).id # 0 => Its(s).pre # 0
      /\ Its(s).identity # 0 /\ published.identity # 0 /\ Its(s).signed # 0
      /\ send[s].base = Nobody /\ Done(s)
  BY <1>2, <1>5 DEF SendShaped, Bundled, Done
<1>7. Consuming
  BY <1>4, Unconsumed
<1>8. send'[s] = r /\ Its(s)' = Its(s)
  BY <1>3, <1>5 DEF Sending, Its
<1>9. SendShaped(s)' /\ Taken(s)'
  <2>1. SendShaped(s)'
    BY <1>3, <1>4, <1>6, <1>8 DEF SendShaped, Bundled
  <2>2. Taken(s)'
    BY <1>2, <1>4, <1>6, <1>8 DEF Taken
  <2>. QED  BY <2>1, <2>2
<1>10. TakenAlone' /\ HandedOutOnce'
  <2>1. HandedOut(s)' => HandedOut(s)
    BY <1>5, <1>6, <1>8 DEF HandedOut
  <2>. QED  BY <1>3, <1>5, <1>6, <2>1, SendsApart
<1>11. Calm => Quiet'
  <2>. SUFFICES ASSUME Calm PROVE Quiet'
    OBVIOUS
  <2>1. OfOneBatch(s) /\ \A b \in Browsers : Opens(s, b)
    BY DEF Inv, Quiet
  <2>2. OfOneBatch(s)'
    BY <1>3, <1>8, <2>1 DEF OfOneBatch, Fetching
  <2>. QED
    BY <1>3, <1>5, <1>7, <2>1, <2>2, SendsQuiet DEF Opens, UsedIn, SameKey, Bundled
<1>12. /\ session' = [session EXCEPT ![Me(s)] = s]
       /\ trusted' = [trusted EXCEPT ![Me(s)] = Its(s).identity]
  BY DEF Process
<1>13. Me(s) \in Peers /\ Its(s).identity \in Generations
  BY <1>2, KeysAssumption, BundleFields DEF Me, Its
<1>14. session' \in [Peers -> Sends \cup {Nobody}] /\ trusted' \in [Peers -> Generations]
       /\ \A x \in Peers : session'[x] = session[x] \/ session'[x] = s
  BY <1>12, <1>13 DEF Inv, TypeOK
<1>. QED
  BY <1>3, <1>5, <1>7, <1>9, <1>10, <1>11, <1>14, InOut, SendInv

\* Another message's session is used, and with it that message's bundle.
LEMMA UnderSessionInv ==
  ASSUME Inv, NEW s \in Sends, NEW from \in {"new", "check"}, UnderSession(s, from)
  PROVE  Inv'
<1>1. PICK t : t = session[Me(s)]
  OBVIOUS
<1>2. Me(s) \in Peers /\ t # Nobody
  BY <1>1, KeysAssumption DEF UnderSession, Me
<1>3. t \in Sends /\ send[t].at = "sent" /\ send[t].base = t
  BY <1>1, <1>2 DEF Inv, TypeOK, SessionShaped
<1>4. PICK r : r = [at |-> "sent", base |-> t, bundle |-> Its(t)]
  OBVIOUS
<1>5. r \in SendType /\ r.at = "sent" /\ r.base = t /\ r.bundle = Its(t)
  BY <1>3, <1>4, Members, InOut DEF SendType
<1>6. SendStep(s, from, r) /\ UNCHANGED <<published, session, trusted>>
  BY <1>1, <1>4 DEF UnderSession
<1>7. Sending(s, r) /\ send[s].at = from
  BY <1>5, <1>6, SendMoves
<1>8. Consuming
  BY <1>6, Unconsumed
<1>9. send'[s] = r /\ Its(s)' = Its(t) /\ t # s /\ send'[t] = send[t]
  BY <1>3, <1>5, <1>7 DEF Sending, Its
<1>10. r = send[t]
  <2>1. send[t] \in SendType
    BY <1>3 DEF Inv, TypeOK
  <2>2. send[t] = [at |-> send[t].at, bundle |-> send[t].bundle, base |-> send[t].base]
    BY <2>1 DEF SendType
  <2>. QED  BY <1>3, <1>4, <2>2 DEF Its
<1>11. SendShaped(t) /\ Taken(t) /\ Done(t) /\ Bundled(t)
  BY <1>3 DEF Inv, Done, Bundled
<1>12. SendShaped(s)' /\ Taken(s)'
  <2>1. SendShaped(s)'
    BY <1>3, <1>5, <1>6, <1>9, <1>10, <1>11 DEF SendShaped, Bundled
  <2>2. Taken(s)'
    BY <1>6, <1>9, <1>11 DEF Taken
  <2>. QED  BY <2>1, <2>2
<1>13. TakenAlone' /\ HandedOutOnce'
  <2>1. ~HandedOut(s)'
    BY <1>2, <1>5, <1>9 DEF HandedOut
  <2>. QED  BY <1>3, <1>5, <1>7, <1>11, <2>1, SendsApart
<1>14. Calm => Quiet'
  <2>. SUFFICES ASSUME Calm PROVE Quiet'
    OBVIOUS
  <2>1. OfOneBatch(t) /\ \A b \in Browsers : Opens(t, b)
    BY <1>3 DEF Inv, Quiet
  <2>2. OfOneBatch(s)'
    BY <1>5, <1>9, <2>1 DEF OfOneBatch, Fetching
  <2>. QED
    BY <1>5, <1>7, <1>8, <1>11, <2>1, <2>2, SendsQuiet DEF Opens, UsedIn, SameKey
<1>15. session' \in [Peers -> Sends \cup {Nobody}] /\ trusted' \in [Peers -> Generations]
       /\ \A x \in Peers : session'[x] = session[x]
  BY <1>6 DEF Inv, TypeOK
<1>. QED
  BY <1>3, <1>5, <1>7, <1>8, <1>12, <1>13, <1>14, <1>15, InOut, SendInv

-----------------------------------------------------------------------------
(* Decryptions.                                                            *)

LEMMA ReadFields ==
  ASSUME Inv, NEW r \in Reads, read[r].at = "finish"
  PROVE  /\ read[r].message \in Sends /\ read[r].browser \in Browsers
         /\ read[r].ok \in BOOLEAN /\ send[read[r].message].at = "sent"
         /\ SendShaped(read[r].message)
  BY DEF Inv, TypeOK, ReadType, ReadShaped

\* Neither pages nor senders see a decryption; what it may do to a browser is remove a
\* one-time key.
LEMMA ReadInv ==
  ASSUME Inv, UNCHANGED <<published, page, senderSide, made, faults>>, Stepped,
         vault' \in [Browsers -> Keys], read' \in [Reads -> ReadType],
         inbound' \in [Browsers -> SUBSET Sends], opened' \subseteq Sends,
         failed' \subseteq Sends,
         \A b \in Browsers : vault'[b].signed = vault[b].signed,
         \A c \in Reads : ReadShaped(c)',
         \A s \in failed' : send[s].at = "sent",
         Calm' => Quiet'
  PROVE  Inv'
<1>. USE DEF senderSide
<1>1. TypeOK'
  BY DEF Inv, TypeOK, Stepped
<1>2. Generated'
  <2>1. Out' = Out
    BY DEF Out, Its
  <2>2. \A p \in Pages : Unseen(p) => Unseen(p)'
    BY <2>1 DEF Unseen
  <2>. QED  BY <2>1, <2>2 DEF Inv, Generated
<1>3. PublishedShaped'
  BY DEF Inv, PublishedShaped
<1>4. (\A s \in Sends : SendShaped(s) /\ Taken(s))'
  BY DEF Inv, SendShaped, Taken, Done, Bundled, Its
<1>5. (\A x \in Peers : SessionShaped(x))'
  BY DEF Inv, SessionShaped
<1>6. "fetches" \notin met' => "fetches" \notin met
  BY DEF Stepped
<1>7. TakenAlone'
  BY <1>6 DEF Inv, TakenAlone, Done, SameKey, Its
<1>8. HandedOutOnce'
  BY <1>6 DEF Inv, HandedOutOnce, HandedOut, Its
<1>9. (Overlaps(page, send, read) \subseteq met)' /\ (\A p \in Pages : PageShaped(page[p]))'
  BY DEF Inv, Stepped
<1>. QED
  BY <1>1, <1>2, <1>3, <1>4, <1>5, <1>7, <1>8, <1>9 DEF Inv

LEMMA ReceiveInv ==
  ASSUME Inv, NEW r \in Reads, NEW s \in Sends, NEW b \in Browsers, Receive(r, s, b)
  PROVE  Inv'
<1>. DEFINE ok == send[s].base \in inbound[b] \/ HasKeys(s, b)
            n == [at |-> "finish", message |-> s, browser |-> b, ok |-> ok]
<1>1. /\ UNCHANGED <<vault, made, published, page, send, session, trusted, inbound,
                     opened, failed, faults>>
      /\ Watch /\ read' = [read EXCEPT ![r] = n] /\ send[s].at = "sent"
  BY DEF Receive, browserSide, senderSide, Waiting
<1>2. Stepped
  BY <1>1, Watched
<1>3. n \in ReadType /\ n.at = "finish" /\ n.message = s /\ n.browser = b /\ n.ok = ok
  BY DEF ReadType
<1>. HIDE DEF n
<1>4. read \in [Reads -> ReadType]
  BY DEF Inv, TypeOK
<1>5. read' \in [Reads -> ReadType] /\ read'[r] = n
      /\ \A c \in Reads : c # r => read'[c] = read[c]
  BY <1>1, <1>3, <1>4
<1>6. ASSUME NEW c \in Reads
      PROVE  ReadShaped(c)'
  <2>1. CASE c = r
    BY <1>1, <1>3, <1>5, <2>1 DEF ReadShaped
  <2>2. CASE c # r
    BY <1>1, <1>5, <2>2 DEF Inv, ReadShaped
  <2>. QED  BY <2>1, <2>2
<1>7. Calm' => Quiet'
  <2>. SUFFICES ASSUME Calm' PROVE Quiet'
    OBVIOUS
  <2>1. Quiet
    <3>1. Calm
      BY <1>1, <1>2, Counters, CalmBefore
    <3>. QED  BY <3>1 DEF Inv
  <2>2. (\A p \in Pages : Put(p))'
    BY <1>1, <2>1 DEF Quiet, Put
  <2>3. HeldOrReplaced'
    <3>1. \A d \in Browsers : Holds(d)' <=> Holds(d)
      BY <1>1 DEF Holds, Offered
    <3>. QED  BY <1>1, <2>1, <3>1 DEF Quiet, HeldOrReplaced
  <2>4. (\A t \in Sends : OfOneBatch(t))'
    BY <1>1, <2>1 DEF Quiet, OfOneBatch, Its
  <2>5. (\A t \in Sends, d \in Browsers : Opens(t, d))'
    <3>. SUFFICES ASSUME NEW t \in Sends, NEW d \in Browsers PROVE Opens(t, d)'
      OBVIOUS
    <3>1. UsedIn(d, t)' <=> UsedIn(d, t)
      BY <1>1 DEF UsedIn, SameKey, Its
    <3>2. Opens(t, d)
      BY <2>1 DEF Quiet
    <3>. QED  BY <1>1, <3>1, <3>2 DEF Opens, Bundled, Its
  <2>6. ASSUME NEW c \in Reads
        PROVE  Found(c)'
    <3>1. CASE c = r
      BY <1>1, <1>3, <1>5, <3>1 DEF Found, HasKeys, Its
    <3>2. CASE c # r
      <4>1. Found(c)
        BY <2>1 DEF Quiet
      <4>. QED  BY <1>1, <1>5, <3>2, <4>1 DEF Found, Its
    <3>. QED  BY <3>1, <3>2
  <2>7. \A t : Explained(t)' <=> Explained(t)
    BY <1>1 DEF Explained, Shared, Its
  <2>8. ~ok => Explained(s)
    <3>. SUFFICES ASSUME ~ok, vault[b].signed = Its(s).signed
                  PROVE  Shared(s)
      BY DEF Explained
    <3>1. Opens(s, b) /\ Bundled(s)
      BY <1>1, <2>1 DEF Quiet, Bundled
    <3>2. Its(s).id # 0 /\ UsedIn(b, s)
      BY <3>1 DEF Opens, HasKeys
    <3>3. PICK x \in inbound[b] : x \in Sends /\ send[x].base = x /\ SameKey(x, s)
      BY <3>2 DEF UsedIn
    <3>4. x # send[s].base
      BY <3>3
    <3>. QED  BY <3>2, <3>3, <3>4 DEF Shared, SameKey
  <2>9. ASSUME NEW c \in Reads, read'[c].at = "finish", ~read'[c].ok
        PROVE  Explained(read'[c].message)
    <3>1. CASE c = r
      BY <1>3, <1>5, <2>8, <2>9, <3>1
    <3>2. CASE c # r
      BY <1>5, <2>1, <2>9, <3>2 DEF Quiet
    <3>. QED  BY <3>1, <3>2
  <2>10. ASSUME NEW c \in Reads, read'[c].at = "finish", ~read'[c].ok
         PROVE  Explained(read[c].message)'
    <3>1. PICK t : t = read'[c].message
      OBVIOUS
    <3>2. Explained(t)'
      BY <2>7, <2>9, <2>10, <3>1
    <3>. QED  BY <3>1, <3>2
  <2>11. (\A t \in failed : Explained(t))'
    BY <1>1, <2>1, <2>7 DEF Quiet
  <2>. QED  BY <2>2, <2>3, <2>4, <2>5, <2>6, <2>10, <2>11 DEF Quiet
<1>8. /\ vault' \in [Browsers -> Keys] /\ inbound' \in [Browsers -> SUBSET Sends]
      /\ opened' \subseteq Sends /\ failed' \subseteq Sends
      /\ \A d \in Browsers : vault'[d].signed = vault[d].signed
      /\ \A t \in failed' : send[t].at = "sent"
      /\ UNCHANGED <<published, page, senderSide, made, faults>>
  BY <1>1 DEF Inv, TypeOK, senderSide
<1>. QED  BY <1>2, <1>5, <1>6, <1>7, <1>8, ReadInv

LEMMA WithoutKey ==
  ASSUME NEW v \in Keys, NEW k \in 0..PreKeyCount
  PROVE  /\ Without(v, k) \in Keys
         /\ Without(v, k).identity = v.identity /\ Without(v, k).signed = v.signed
         /\ k # 0 => Without(v, k).pre[k] = 0
         /\ \A i \in KeyIds : i # k => Without(v, k).pre[i] = v.pre[i]
  BY Numbers, KeysSetPre DEF Without

\* What a decryption leaves behind, whether it succeeded or not.
FinishEffect(s, b, ok) ==
    /\ \A d \in Browsers : d # b => vault'[d] = vault[d] /\ inbound'[d] = inbound[d]
    /\ \/ /\ ~ok /\ failed' = failed \cup {s}
          /\ UNCHANGED <<vault, inbound>>
       \/ /\ ok /\ failed' = failed
          /\ inbound'[b] = inbound[b] \cup {send[s].base}
          /\ \/ vault' = vault
             \/ /\ send[s].base \notin inbound[b] /\ Its(s).id # 0
                /\ vault'[b].identity = vault[b].identity
                /\ vault'[b].signed = vault[b].signed
                /\ vault'[b].pre[Its(s).id] = 0
                /\ \A i \in KeyIds : i # Its(s).id => vault'[b].pre[i] = vault[b].pre[i]

LEMMA FinishMoves ==
  ASSUME Inv, NEW r \in Reads, Finish(r)
  PROVE  /\ read[r].at = "finish"
         /\ read' \in [Reads -> ReadType] /\ read'[r].at = "idle"
         /\ \A c \in Reads : c # r => read'[c] = read[c]
         /\ vault' \in [Browsers -> Keys] /\ inbound' \in [Browsers -> SUBSET Sends]
         /\ opened' \subseteq Sends
         /\ UNCHANGED <<published, page, send, session, trusted, made, faults>>
         /\ Stepped
         /\ FinishEffect(read[r].message, read[r].browser, read[r].ok)
<1>. DEFINE s == read[r].message
            b == read[r].browser
<1>1. read[r].at = "finish" /\ read' = [read EXCEPT ![r] = NoRead]
      /\ UNCHANGED <<published, page, send, session, trusted, made, faults>> /\ Watch
  BY DEF Finish, senderSide
<1>2. s \in Sends /\ b \in Browsers /\ read[r].ok \in BOOLEAN /\ SendShaped(s)
      /\ send[s].at = "sent"
  BY <1>1, ReadFields
<1>3. /\ vault \in [Browsers -> Keys] /\ inbound \in [Browsers -> SUBSET Sends]
      /\ opened \subseteq Sends /\ read \in [Reads -> ReadType]
      /\ Its(s).id \in 0..PreKeyCount
  BY <1>2, BundleFields DEF Inv, TypeOK, Its
<1>4. /\ read' \in [Reads -> ReadType] /\ read'[r].at = "idle"
      /\ \A c \in Reads : c # r => read'[c] = read[c]
  BY <1>1, <1>3, Empty
<1>5. Stepped
  BY <1>1, Watched
<1>6. CASE ~read[r].ok
  <2>1. failed' = failed \cup {s} /\ UNCHANGED <<vault, inbound, opened>>
    BY <1>6 DEF Finish
  <2>. QED  BY <1>1, <1>3, <1>4, <1>5, <1>6, <2>1 DEF FinishEffect
<1>7. CASE read[r].ok
  <2>. DEFINE w == Without(vault[b], Its(s).id)
  <2>1. /\ opened' = opened \cup {s} /\ failed' = failed
        /\ inbound' = [inbound EXCEPT ![b] = inbound[b] \cup {send[s].base}]
        /\ vault' = IF send[s].base \notin inbound[b] THEN [vault EXCEPT ![b] = w] ELSE vault
    BY <1>7 DEF Finish
  <2>2. send[s].base \in Sends
    BY <1>2 DEF SendShaped
  <2>3. /\ inbound' \in [Browsers -> SUBSET Sends] /\ opened' \subseteq Sends
        /\ inbound'[b] = inbound[b] \cup {send[s].base}
        /\ \A d \in Browsers : d # b => inbound'[d] = inbound[d]
    BY <1>2, <1>3, <2>1, <2>2
  <2>4. vault[b] \in Keys
    BY <1>2, <1>3
  <2>5. /\ w \in Keys
        /\ w.identity = vault[b].identity /\ w.signed = vault[b].signed
        /\ Its(s).id # 0 => w.pre[Its(s).id] = 0
        /\ \A i \in KeyIds : i # Its(s).id => w.pre[i] = vault[b].pre[i]
    BY <1>3, <2>4, WithoutKey
  <2>6. Its(s).id = 0 => w = vault[b]
    BY DEF Without
  <2>. HIDE DEF w
  <2>7. CASE vault' = vault
    BY <1>1, <1>2, <1>3, <1>4, <1>5, <1>7, <2>1, <2>3, <2>7 DEF FinishEffect
  <2>8. CASE vault' # vault
    <3>1. send[s].base \notin inbound[b] /\ vault' = [vault EXCEPT ![b] = w]
      BY <2>1, <2>8
    <3>2. Its(s).id # 0
      BY <1>3, <2>6, <2>8, <3>1
    <3>3. vault' \in [Browsers -> Keys] /\ vault'[b] = w
          /\ \A d \in Browsers : d # b => vault'[d] = vault[d]
      BY <1>2, <1>3, <2>5, <3>1
    <3>. QED
      BY <1>1, <1>2, <1>4, <1>5, <1>7, <2>1, <2>3, <2>5, <3>1, <3>2, <3>3 DEF FinishEffect
  <2>. QED  BY <2>7, <2>8
<1>. QED  BY <1>2, <1>6, <1>7

LEMMA FinishQuiet ==
  ASSUME Inv, NEW r \in Reads, Finish(r), Calm'
  PROVE  Quiet'
<1>1. PICK s \in Sends, b \in Browsers, ok \in BOOLEAN :
         s = read[r].message /\ b = read[r].browser /\ ok = read[r].ok
  BY FinishMoves, ReadFields
<1>2. /\ read[r].at = "finish" /\ read'[r].at = "idle"
      /\ \A c \in Reads : c # r => read'[c] = read[c]
      /\ UNCHANGED <<published, page, send, session, trusted, made, faults>>
      /\ Stepped /\ FinishEffect(s, b, ok)
  BY <1>1, FinishMoves
<1>3. Calm
  BY <1>2, Counters, CalmBefore
<1>4. Quiet
  BY <1>3 DEF Inv
<1>5. \A p \in Pages : ~Writing(page[p])
  BY <1>2, <1>3, WriterAlone
<1>6. send[s].at = "sent" /\ SendShaped(s) /\ Taken(s) /\ Done(s)
  BY <1>1, <1>2, ReadFields DEF Inv, Done
<1>7. /\ \A d \in Browsers : /\ vault'[d].identity = vault[d].identity
                            /\ vault'[d].signed = vault[d].signed
                            /\ inbound[d] \subseteq inbound'[d]
  BY <1>2 DEF FinishEffect
\* A key that is removed is the one the message was encrypted for, if any.
<1>8. ASSUME NEW d \in Browsers, NEW k \in KeyIds, vault'[d].pre[k] # vault[d].pre[k]
      PROVE  /\ ok /\ d = b /\ k = Its(s).id /\ vault'[d].pre[k] = 0
             /\ vault[d].pre[k] = Its(s).pre
             /\ send[s].base \in inbound'[d]
  <2>1. /\ ok /\ d = b /\ k = Its(s).id /\ vault'[d].pre[k] = 0 /\ k # 0
        /\ send[s].base \notin inbound[b] /\ send[s].base \in inbound'[b]
    BY <1>2, <1>8, Numbers DEF FinishEffect
  <2>2. vault[b].pre[k] \in {0, Its(s).pre}
    BY <1>1, <1>2, <1>4, <2>1 DEF Quiet, Found
  <2>. QED  BY <1>8, <2>1, <2>2
<1>9. (\A p \in Pages : Put(p))'
  BY <1>2, <1>5 DEF Put, Writing, Storing
<1>10. HeldOrReplaced'
  <2>1. ASSUME NEW d \in Browsers, Holds(d)
        PROVE  Holds(d)'
    <3>1. ASSUME NEW k \in KeyIds, published.pre[k] # 0
          PROVE  vault'[d].pre[k] = vault[d].pre[k]
      <4>1. vault[d].pre[k] = published.pre[k]
        BY <2>1, <3>1 DEF Holds, Offered
      <4>2. k = Its(s).id => published.pre[k] # Its(s).pre
        BY <1>6, <3>1, Numbers DEF Taken
      <4>. QED  BY <1>8, <4>1, <4>2
    <3>. QED  BY <1>2, <1>7, <2>1, <3>1 DEF Holds, Offered
  <2>. QED  BY <1>2, <1>4, <1>7, <2>1 DEF Quiet, HeldOrReplaced
<1>11. (\A t \in Sends : OfOneBatch(t))'
  BY <1>2, <1>4 DEF Quiet, OfOneBatch, Its
<1>12. ASSUME NEW t \in Sends, NEW d \in Browsers
       PROVE  Opens(t, d)'
  <2>. SUFFICES ASSUME Bundled(t), vault[d].signed = Its(t).signed
                PROVE  /\ vault'[d].identity = Its(t).identity
                       /\ Its(t).id # 0 => \/ vault'[d].pre[Its(t).id] = Its(t).pre
                                           \/ UsedIn(d, t)'
    BY <1>2, <1>7 DEF Opens, Bundled, Its
  <2>1. Opens(t, d)
    BY <1>4 DEF Quiet
  <2>2. UsedIn(d, t) => UsedIn(d, t)'
    BY <1>2, <1>7 DEF UsedIn, SameKey, Its
  <2>3. ASSUME Its(t).id # 0, vault[d].pre[Its(t).id] = Its(t).pre,
               vault'[d].pre[Its(t).id] # vault[d].pre[Its(t).id]
        PROVE  UsedIn(d, t)'
    <3>1. Its(t).id \in KeyIds
      BY <2>3, BundleFields DEF Inv, TypeOK, Its
    <3>2. SameKey(s, t) /\ send[s].base \in inbound'[d]
      BY <1>8, <2>3, <3>1 DEF SameKey
    <3>3. send[s].base \in Sends /\ send[send[s].base] = send[s]
      BY <1>6 DEF SendShaped
    <3>4. send[send[s].base].base = send[s].base /\ SameKey(send[s].base, t)
      BY <3>2, <3>3 DEF SameKey, Its
    <3>. QED  BY <1>2, <3>2, <3>3, <3>4 DEF UsedIn, SameKey, Its
  <2>. QED  BY <1>7, <2>1, <2>2, <2>3 DEF Opens
<1>13. ASSUME NEW c \in Reads, c # r, read[c].at = "finish"
       PROVE  Found(c)'
  <2>1. PICK t \in Sends, d \in Browsers : t = read[c].message /\ d = read[c].browser
    BY <1>13, ReadFields
  <2>2. Found(c) /\ read'[c] = read[c]
    BY <1>2, <1>4, <1>13 DEF Quiet
  <2>3. Its(t).id # 0 => Its(t).id \in KeyIds
    BY BundleFields DEF Inv, TypeOK, Its
  <2>4. Its(t).id # 0 => \/ vault'[d].pre[Its(t).id] = vault[d].pre[Its(t).id]
                         \/ vault'[d].pre[Its(t).id] = 0
    BY <1>8, <2>3
  <2>. QED  BY <1>2, <1>7, <1>13, <2>1, <2>2, <2>4 DEF Found, Its
<1>14. (\A c \in Reads : Found(c))'
  <2>. SUFFICES ASSUME NEW c \in Reads PROVE Found(c)'
    OBVIOUS
  <2>1. CASE c # r /\ read[c].at = "finish"
    BY <1>13, <2>1
  <2>2. CASE c = r \/ read[c].at # "finish"
    BY <1>2, <2>2 DEF Found
  <2>. QED  BY <2>1, <2>2
<1>15. \A t \in Sends : Explained(t) => Explained(t)'
  BY <1>2, <1>7 DEF Explained, Shared, Its
<1>16. ASSUME NEW t \in failed'
       PROVE  Explained(t)'
  <2>1. t \in failed \/ (t = s /\ ~ok)
    BY <1>2, <1>16 DEF FinishEffect
  <2>2. t \in Sends /\ Explained(t)
    BY <1>1, <1>2, <1>4, <2>1 DEF Quiet, Inv, TypeOK
  <2>. QED  BY <1>15, <2>2
<1>17. ASSUME NEW c \in Reads, read'[c].at = "finish", ~read'[c].ok
       PROVE  Explained(read[c].message)'
  <2>1. c # r /\ read'[c] = read[c]
    BY <1>2, <1>17
  <2>2. PICK t \in Sends : t = read[c].message
    BY <1>17, <2>1, ReadFields
  <2>3. Explained(t)'
    BY <1>4, <1>15, <1>17, <2>1, <2>2 DEF Quiet
  <2>. QED  BY <2>1, <2>2, <2>3
<1>. QED
  BY <1>9, <1>10, <1>11, <1>12, <1>14, <1>16, <1>17 DEF Quiet

LEMMA FinishInv ==
  ASSUME Inv, NEW r \in Reads, Finish(r)
  PROVE  Inv'
<1>1. /\ read[r].at = "finish"
      /\ read' \in [Reads -> ReadType] /\ read'[r].at = "idle"
      /\ \A c \in Reads : c # r => read'[c] = read[c]
      /\ vault' \in [Browsers -> Keys] /\ inbound' \in [Browsers -> SUBSET Sends]
      /\ opened' \subseteq Sends
      /\ UNCHANGED <<published, page, send, session, trusted, made, faults>>
      /\ Stepped
      /\ FinishEffect(read[r].message, read[r].browser, read[r].ok)
  BY FinishMoves
<1>2. read[r].message \in Sends /\ send[read[r].message].at = "sent"
  BY <1>1, ReadFields
<1>3. failed' \subseteq failed \cup {read[r].message}
  BY <1>1 DEF FinishEffect
<1>4. failed' \subseteq Sends /\ \A t \in failed' : send[t].at = "sent"
  BY <1>2, <1>3 DEF Inv, TypeOK
<1>5. \A d \in Browsers : vault'[d].signed = vault[d].signed
  BY <1>1 DEF FinishEffect
<1>6. ASSUME NEW c \in Reads
      PROVE  ReadShaped(c)'
  <2>1. CASE c = r
    BY <1>1, <2>1 DEF ReadShaped
  <2>2. CASE c # r
    BY <1>1, <2>2 DEF Inv, ReadShaped
  <2>. QED  BY <2>1, <2>2
<1>7. Calm' => Quiet'
  BY FinishQuiet
<1>. QED  BY <1>1, <1>4, <1>5, <1>6, <1>7, ReadInv DEF senderSide

-----------------------------------------------------------------------------
LEMMA PageNext ==
  ASSUME Inv, NEW p \in Pages, Page(p)
  PROVE  Inv'
<1>1. ASSUME NEW b \in Browsers, OpenPage(p, b, "load") \/ Register(p, b)
      PROVE  Inv'
  BY <1>1, OpenPageInv DEF Register
<1>2. CASE MakeIdentity(p, "load", "save") \/ MakeIdentity(p, "generate", "saveFirst")
  BY <1>2, MakeIdentityInv
<1>3. CASE SaveIdentity(p, "save", [page[p] EXCEPT !.at = "count", !.own = 0])
  BY <1>3, SaveIdentityInv
<1>4. CASE LoadIdentity(p) \/ Count(p)
  BY <1>4, PageReadsInv
<1>5. CASE GenerateFirst(p)
  BY <1>5, GenerateFirstInv
<1>6. CASE Generate(p)
  BY <1>6, GenerateInv
<1>7. CASE StoreSigned(p)
  BY <1>7, StoreSignedInv
<1>8. CASE StorePre(p)
  BY <1>8, StorePreInv
<1>9. CASE Upload(p)
  BY <1>9, UploadInv
<1>10. CASE CutOff(p)
  BY <1>10, CutOffInv
<1>. QED
  BY <1>1, <1>2, <1>3, <1>4, <1>5, <1>6, <1>7, <1>8, <1>9, <1>10 DEF Page

LEMMA SendNext ==
  ASSUME Inv, NEW s \in Sends, Send(s)
  PROVE  Inv'
  BY UnderSessionInv, BeginSendInv, FetchDeviceInv, FetchSignedInv, FetchPreInv,
     FetchDeleteInv, SameBundleInv, ProcessInv DEF Send

LEMMA Stutter ==
  ASSUME Inv, UNCHANGED vars
  PROVE  Inv'
<1>1. UNCHANGED <<vault, published, page, send, session, trusted, read, inbound,
                  opened, failed, made, faults, met>>
  BY DEF vars
<1>2. Stepped
  BY <1>1 DEF Inv, TypeOK, Stepped, Overlaps
<1>3. Calm' => Quiet'
  <2>1. (\A p \in Pages : Put(p)) => (\A p \in Pages : Put(p))'
    BY <1>1 DEF Put
  <2>2. HeldOrReplaced => HeldOrReplaced'
    BY <1>1 DEF HeldOrReplaced, Holds, Offered
  <2>3. \A s \in Sends : OfOneBatch(s) => OfOneBatch(s)'
    BY <1>1 DEF OfOneBatch, Its
  <2>4. ASSUME NEW s \in Sends, NEW b \in Browsers
        PROVE  Opens(s, b) => Opens(s, b)'
    BY <1>1 DEF Opens, UsedIn, SameKey, Its, Bundled
  <2>5. \A r \in Reads : Found(r) => Found(r)'
    BY <1>1 DEF Found, Its
  <2>6. \A s : Explained(s)' <=> Explained(s)
    BY <1>1 DEF Explained, Shared, Its
  <2>7. (\A r \in Reads : read[r].at = "finish" /\ ~read[r].ok =>
            Explained(read[r].message))
        => (\A r \in Reads : read[r].at = "finish" /\ ~read[r].ok =>
            Explained(read[r].message))'
    BY <1>1 DEF Explained, Shared, Its
  <2>. QED
    BY <1>1, <2>1, <2>2, <2>3, <2>4, <2>5, <2>6, <2>7 DEF Inv, Calm, Quiet
<1>4. UNCHANGED <<published, page, senderSide, made, faults>>
  BY <1>1 DEF senderSide
<1>. QED  BY <1>1, <1>2, <1>3, <1>4, ReadInv DEF Inv, TypeOK, ReadShaped

\* Every step of a page, a sender or a decryption keeps the invariant.
THEOREM InvKept == Spec => []Inv
<1>1. ASSUME Inv, Next
      PROVE  Inv'
  <2>1. ASSUME NEW r \in Reads, Read(r)
        PROVE  Inv'
    BY <1>1, <2>1, ReceiveInv, FinishInv DEF Read
  <2>. QED  BY <1>1, <2>1, PageNext, SendNext DEF Next
<1>. QED  BY <1>1, Stutter, InitInv, PTL DEF Spec

\* Every run, message, key and vault has its shape.
THEOREM KeyTypesCorrect == Spec => []TypeOK
<1>1. Inv => TypeOK
  BY DEF Inv
<1>. QED  BY <1>1, InvKept, PTL

\* A one-time key goes to one sender, unless two fetches overlapped: the four statements
\* of fetchAndConsumePreKeyBundle give it to both then.
THEOREM KeysGoToOne == Spec => []HandedOutOnce
<1>1. Inv => HandedOutOnce
  BY DEF Inv
<1>. QED  BY <1>1, InvKept, PTL

\* What the server hands out, one browser can use, unless two runs of the key
\* initialisation overlapped, one overlapped with a reader, or one was cut off.
THEOREM ServerKeysAreHeld == Spec => []PublishedIsHeld
<1>1. ASSUME Inv
      PROVE  PublishedIsHeld
  <2>. SUFFICES ASSUME met \cap {"writers", "readers"} = {}, faults = 0,
                       \A p \in Pages : ~Writing(page[p]), published.identity # 0
                PROVE  \E b \in Browsers :
                          /\ vault[b].identity = published.identity
                          /\ vault[b].signed = published.signed
                          /\ \A k \in Offered : vault[b].pre[k] = published.pre[k]
    BY DEF PublishedIsHeld
  <2>1. HeldOrReplaced /\ published.signed # 0
    BY <1>1 DEF Inv, Calm, Quiet, PublishedShaped
  <2>2. \A p \in Pages : ~Storing(page[p])
    BY DEF Writing, Storing
  <2>. QED  BY <2>1, <2>2 DEF HeldOrReplaced, Holds
<1>. QED  BY <1>1, InvKept, PTL

\* A first message that cannot be opened has lost its keys to a later run in some
\* browser, or shared its one-time key with another sender.
THEOREM FailuresAreExplained == Spec => []FailureIsExplained
<1>1. Inv => FailureIsExplained
  BY DEF Inv, Calm, Quiet, Explained, FailureIsExplained
<1>. QED  BY <1>1, InvKept, PTL
=============================================================================
