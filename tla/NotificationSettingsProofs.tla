-------------------- MODULE NotificationSettingsProofs --------------------
(***************************************************************************)
(* Proofs about the notifications page for any platforms, endpoints and    *)
(* requests in flight: the rows of the card, and that page and server      *)
(* agree at rest.                                                          *)
(***************************************************************************)
EXTENDS NotificationSettings, SequenceTheorems, WellFoundedInduction, TLAPS

KeptLists == {Kept(s) : s \in Seq(Endpoint)}
Lists == [Platforms -> Seq(Endpoint)]
Subscriptions == [Platforms -> Subscription]
Pages == [endpoints : Lists, events : Subscriptions, tuning : Tunings]
Stores == [endpoints : [Platforms -> KeptLists], events : Subscriptions, tuning : Tunings]

RequestRecord ==
  [id : 1..MaxInFlight, kind : {"test", "platform", "settings"}, platform : Platforms,
   op : {"test", "add", "remove", "secret", "settings"}, ep : Endpoint \cup {Empty},
   at : Nat, onCard : BOOLEAN, step : {"sent", "read", "saved", "refused"},
   endpoints : Lists, events : Subscriptions, tuning : Tunings, read : Stores]

\* What a request is follows from the operation that sent it.
Coherent(r) ==
  /\ r.kind = "test" <=> r.op = "test"
  /\ r.kind = "settings" <=> r.op = "settings"
  /\ r.kind = "test" => r.step = "sent"
  /\ r.step = "read" => r.kind = "platform"
  /\ r.kind # "test" => ~r.onCard
  /\ r.op \in {"add", "remove"} => r.ep \in Endpoint
  /\ r.op = "remove" => r.at > 0

CardRecord == [rows : Seq(Endpoint), staged : Endpoint \cup {Empty},
               canSave : BOOLEAN, canTest : BOOLEAN]

TypeInv ==
  /\ page \in Pages /\ store \in Stores
  /\ testPassed \in [Platforms -> BOOLEAN]
  /\ selected \in Platforms
  /\ card \in CardRecord
  /\ requests \subseteq RequestRecord
  /\ \A r \in requests : Coherent(r)
  /\ tested \in [Platforms -> Endpoint \cup {Empty}]
  /\ disturbed \in BOOLEAN
  /\ timers \subseteq Platforms \cup {AutoSave}

Settled(p) == store.endpoints[p] = Kept(page.endpoints[p])

\* The server keeps what the page shows, but for edits that wait for a timer.
Agrees ==
  /\ AutoSave \notin timers => store.tuning = page.tuning
  /\ \A p \in Platforms \ timers : Settled(p)

Undone(r, s) ==
  CASE r.op = "add"    -> UndoAdd(s, r.ep)
    [] r.op = "remove" -> UndoRemove(s, r.ep, r.at)
    [] OTHER           -> s

\* A write that meets no other carries what the page shows; until it is served
\* the server keeps what undoing it would restore.
OnItsWay(r) ==
  /\ \A p \in Platforms \ timers : r.endpoints[p] = page.endpoints[p]
  /\ r.step = "saved" => Agrees
  /\ r.step = "read" => r.read = store
  /\ r.kind = "settings" /\ AutoSave \notin timers => r.tuning = page.tuning
  /\ r.kind = "platform" /\ r.step # "saved" =>
       /\ AutoSave \notin timers => store.tuning = page.tuning
       /\ \A p \in Platforms \ (timers \cup {r.platform}) : Settled(p)
       /\ r.op \in {"add", "remove"} /\ r.platform \notin timers =>
            store.endpoints[r.platform] = Kept(Undone(r, page.endpoints[r.platform]))

OneWrite ==
  ~disturbed =>
    /\ \A r, s \in Writes(requests) : r = s
    /\ Writes(requests) = {} => Agrees
    /\ \A r \in Writes(requests) : OnItsWay(r)

-----------------------------------------------------------------------------
(* Lists of endpoints: prefixes, and what the rollbacks undo               *)

LEMMA ListsEqual ==
  ASSUME NEW S, NEW s \in Seq(S), NEW t \in Seq(S), Len(s) = Len(t),
         \A i \in 1..Len(s) : s[i] = t[i]
  PROVE  s = t
  BY SeqEqual

LEMMA PrefixAt ==
  ASSUME NEW S, NEW s \in Seq(S), NEW t \in Seq(S)
  PROVE  IsPrefix(s, t) <=> Len(s) <= Len(t) /\ \A i \in 1..Len(s) : s[i] = t[i]
<1>1. ASSUME Len(s) <= Len(t)
      PROVE  SubSeq(s, 1, Len(s)) = SubSeq(t, 1, Len(s)) <=> \A i \in 1..Len(s) : s[i] = t[i]
  <2>1. /\ Len(s) \in Nat /\ Len(t) \in Nat
        /\ \A i \in 1..Len(s) : s[i] \in S /\ t[i] \in S
    BY <1>1, ElementOfSeq, LenProperties
  <2>2. /\ SubSeq(t, 1, Len(s)) \in Seq(S)
        /\ Len(SubSeq(t, 1, Len(s))) = Len(s)
        /\ \A i \in 1..Len(s) : SubSeq(t, 1, Len(s))[i] = t[i]
    BY <2>1
  <2>3. SubSeq(s, 1, Len(s)) = s
    BY SubSeqFull
  <2>4. ASSUME \A i \in 1..Len(s) : s[i] = t[i]
        PROVE  SubSeq(t, 1, Len(s)) = s
    BY <2>2, <2>4, ListsEqual
  <2> QED  BY <2>2, <2>3, <2>4
<1> QED  BY <1>1 DEF IsPrefix

LEMMA RemovedAt ==
  ASSUME NEW S, NEW s \in Seq(S), NEW i \in 1..Len(s)
  PROVE  /\ RemoveAt(s, i) \in Seq(S)
         /\ Len(RemoveAt(s, i)) = Len(s) - 1
         /\ \A j \in 1..Len(s) - 1 : RemoveAt(s, i)[j] = IF j < i THEN s[j] ELSE s[j + 1]
<1> DEFINE a == SubSeq(s, 1, i - 1)
           b == SubSeq(s, i + 1, Len(s))
<1>1. Len(s) \in Nat /\ \A j \in 1..Len(s) : s[j] \in S
  BY ElementOfSeq, LenProperties
<1>2. a \in Seq(S) /\ Len(a) = i - 1 /\ \A j \in 1..i - 1 : a[j] = s[j]
  BY <1>1
<1>3. b \in Seq(S) /\ Len(b) = Len(s) - i /\ \A j \in 1..Len(s) - i : b[j] = s[j + i]
  BY <1>1
<1> HIDE DEF a, b
<1>4. /\ a \o b \in Seq(S)
      /\ Len(a \o b) = Len(a) + Len(b)
      /\ \A j \in 1..Len(a) + Len(b) : (a \o b)[j] = IF j <= Len(a) THEN a[j] ELSE b[j - Len(a)]
  BY <1>2, <1>3, ConcatProperties
<1>5. Len(a) + Len(b) = Len(s) - 1
  BY <1>1, <1>2, <1>3
<1>6. \A j \in 1..Len(s) - 1 : (a \o b)[j] = IF j < i THEN s[j] ELSE s[j + 1]
  <2> TAKE j \in 1..Len(s) - 1
  <2>1. (a \o b)[j] = IF j <= i - 1 THEN a[j] ELSE b[j - (i - 1)]
    BY <1>2, <1>4, <1>5
  <2>2. CASE j < i
    BY <1>1, <1>2, <2>1, <2>2
  <2>3. CASE ~(j < i)
    <3>1. j - (i - 1) \in 1..Len(s) - i /\ (j - (i - 1)) + i = j + 1
      BY <1>1, <2>3
    <3> QED  BY <1>1, <1>3, <2>1, <2>3, <3>1
  <2> QED  BY <2>2, <2>3
<1> QED  BY <1>4, <1>5, <1>6 DEF RemoveAt, a, b

LEMMA InsertedAt ==
  ASSUME NEW S, NEW s \in Seq(S), NEW i \in 1..Len(s) + 1, NEW e \in S
  PROVE  /\ InsertAt(s, i, e) \in Seq(S)
         /\ Len(InsertAt(s, i, e)) = Len(s) + 1
         /\ \A j \in 1..Len(s) + 1 : InsertAt(s, i, e)[j] =
              IF j < i THEN s[j] ELSE IF j = i THEN e ELSE s[j - 1]
<1> DEFINE a == SubSeq(s, 1, i - 1)
           b == SubSeq(s, i, Len(s))
<1>1. Len(s) \in Nat /\ \A j \in 1..Len(s) : s[j] \in S
  BY ElementOfSeq, LenProperties
<1>2. a \in Seq(S) /\ Len(a) = i - 1 /\ \A j \in 1..i - 1 : a[j] = s[j]
  BY <1>1
<1>3. /\ b \in Seq(S) /\ Len(b) = Len(s) + 1 - i
      /\ \A j \in 1..Len(s) + 1 - i : b[j] = s[j + i - 1]
  BY <1>1
<1> HIDE DEF a, b
<1> DEFINE c == a \o <<e>>
<1>4. c \in Seq(S) /\ Len(c) = i /\ \A j \in 1..i : c[j] = IF j < i THEN s[j] ELSE e
  BY <1>1, <1>2, ConcatProperties
<1> HIDE DEF c
<1>5. /\ c \o b \in Seq(S)
      /\ Len(c \o b) = Len(c) + Len(b)
      /\ \A j \in 1..Len(c) + Len(b) : (c \o b)[j] = IF j <= Len(c) THEN c[j] ELSE b[j - Len(c)]
  BY <1>3, <1>4, ConcatProperties
<1>6. Len(c) + Len(b) = Len(s) + 1
  BY <1>1, <1>3, <1>4
<1>7. \A j \in 1..Len(s) + 1 :
        (c \o b)[j] = IF j < i THEN s[j] ELSE IF j = i THEN e ELSE s[j - 1]
  <2> TAKE j \in 1..Len(s) + 1
  <2>1. (c \o b)[j] = IF j <= i THEN c[j] ELSE b[j - i]
    BY <1>4, <1>5, <1>6
  <2>2. CASE j <= i
    BY <1>1, <1>4, <2>1, <2>2
  <2>3. CASE ~(j <= i)
    <3>1. j - i \in 1..Len(s) + 1 - i /\ (j - i) + i - 1 = j - 1
      BY <1>1, <2>3
    <3> QED  BY <1>1, <1>3, <2>1, <2>3, <3>1
  <2> QED  BY <2>2, <2>3
<1> QED  BY <1>5, <1>6, <1>7 DEF InsertAt, a, b, c

LEMMA UndoAddRestores ==
  ASSUME NEW s \in Seq(Endpoint), NEW ep \in Endpoint, ep.url \notin Urlset(s)
  PROVE  UndoAdd(Append(s, ep), ep) = s
<1> DEFINE t == Append(s, ep)
           at == {i \in DOMAIN t : t[i].url = ep.url}
           n == Len(s) + 1
<1>1. /\ t \in Seq(Endpoint) /\ Len(t) = n /\ t[n] = ep
      /\ \A i \in 1..Len(s) : t[i] = s[i]
      /\ Len(s) \in Nat /\ DOMAIN s = 1..Len(s) /\ DOMAIN t = 1..n
  BY AppendProperties, LenProperties
<1>2. at = {n}
  <2>1. \A i \in 1..Len(s) : s[i].url # ep.url
    BY <1>1 DEF Urlset
  <2> QED  BY <1>1, <2>1
<1>3. (CHOOSE i \in at : \A j \in at : i <= j) = n
  <2>1. n \in at /\ \A j \in at : n <= j
    BY <1>1, <1>2
  <2> HIDE DEF at
  <2>2. (CHOOSE i \in at : \A j \in at : i <= j) \in at
    BY <2>1
  <2> QED  BY <1>2, <2>2
<1>4. RemoveAt(t, n) = s
  <2> HIDE DEF t
  <2>1. /\ RemoveAt(t, n) \in Seq(Endpoint) /\ Len(RemoveAt(t, n)) = Len(s)
        /\ \A j \in 1..Len(s) : RemoveAt(t, n)[j] = s[j]
    <3>1. n \in 1..Len(t)
      BY <1>1
    <3>2. /\ RemoveAt(t, n) \in Seq(Endpoint) /\ Len(RemoveAt(t, n)) = Len(t) - 1
          /\ \A j \in 1..Len(t) - 1 : RemoveAt(t, n)[j] = IF j < n THEN t[j] ELSE t[j + 1]
      BY <1>1, <3>1, RemovedAt
    <3> QED  BY <1>1, <3>2
  <2> QED  BY <2>1, ListsEqual
<1> QED  BY <1>2, <1>3, <1>4 DEF UndoAdd

LEMMA UndoRemoveRestores ==
  ASSUME NEW s \in Seq(Endpoint), NEW i \in 1..Len(s)
  PROVE  UndoRemove(RemoveAt(s, i), s[i], i) = s
<1> DEFINE t == RemoveAt(s, i)
           ep == s[i]
<1>1. /\ Len(s) \in Nat /\ ep \in Endpoint
      /\ t \in Seq(Endpoint) /\ Len(t) = Len(s) - 1
      /\ \A j \in 1..Len(s) - 1 : t[j] = IF j < i THEN s[j] ELSE s[j + 1]
  BY RemovedAt, ElementOfSeq, LenProperties
<1>2. ep = s[i]
  OBVIOUS
<1> HIDE DEF t, ep
<1>3. i \in 1..Len(t) + 1 /\ ~(i > Len(t) + 1)
  BY <1>1
<1>4. /\ InsertAt(t, i, ep) \in Seq(Endpoint) /\ Len(InsertAt(t, i, ep)) = Len(t) + 1
      /\ \A j \in 1..Len(t) + 1 : InsertAt(t, i, ep)[j] =
            IF j < i THEN t[j] ELSE IF j = i THEN ep ELSE t[j - 1]
  BY <1>1, <1>3, InsertedAt
<1>5. Len(t) + 1 = Len(s) /\ \A j \in 1..Len(s) : InsertAt(t, i, ep)[j] = s[j]
  <2>1. Len(t) + 1 = Len(s)
    BY <1>1
  <2>2. ASSUME NEW j \in 1..Len(s)  PROVE  InsertAt(t, i, ep)[j] = s[j]
    <3>1. InsertAt(t, i, ep)[j] = IF j < i THEN t[j] ELSE IF j = i THEN ep ELSE t[j - 1]
      BY <1>4, <2>1
    <3>2. CASE j < i
      BY <1>1, <3>1, <3>2
    <3>3. CASE j = i
      BY <1>2, <3>1, <3>3
    <3>4. CASE j > i
      <4>1. j - 1 \in 1..Len(s) - 1 /\ ~(j - 1 < i) /\ (j - 1) + 1 = j
        BY <1>1, <3>4
      <4>2. t[j - 1] = s[(j - 1) + 1]
        BY <1>1, <4>1
      <4> QED  BY <1>1, <3>1, <3>4, <4>1, <4>2
    <3> QED  BY <1>1, <3>2, <3>3, <3>4
  <2> QED  BY <2>1, <2>2
<1>6. InsertAt(t, i, ep) = s
  BY <1>4, <1>5, ListsEqual
<1> QED  BY <1>3, <1>6 DEF UndoRemove, t, ep

\* A non-empty set of naturals has a least member.
LEMMA LeastNatural ==
    ASSUME NEW T, T \subseteq Nat, T # {}
    PROVE  \E m \in T : \A n \in T : ~(n < m)
  <1>1. \E m \in T : \A n \in T : <<n, m>> \notin OpToRel(<, Nat)
    BY NatLessThanWellFounded, WFMin
  <1> QED
    BY <1>1 DEF OpToRel

LEMMA UndoTypes ==
  ASSUME NEW s \in Seq(Endpoint), NEW ep \in Endpoint, NEW i \in Nat \ {0}
  PROVE  UndoAdd(s, ep) \in Seq(Endpoint) /\ UndoRemove(s, ep, i) \in Seq(Endpoint)
<1>1. UndoAdd(s, ep) \in Seq(Endpoint)
  <2> DEFINE at == {j \in DOMAIN s : s[j].url = ep.url}
  <2>1. CASE at = {}
    BY <2>1 DEF UndoAdd
  <2>2. CASE at # {}
    <3>1. at \subseteq Nat
      BY LenProperties
    <3>2. PICK j \in at : \A k \in at : j <= k
      <4> HIDE DEF at
      <4>1. PICK j \in at : \A k \in at : ~(k < j)
        BY <2>2, <3>1, LeastNatural
      <4> QED  BY <3>1, <4>1
    <3> DEFINE m == CHOOSE j1 \in at : \A k \in at : j1 <= k
    <3>3. m \in at
      <4> HIDE DEF at
      <4> QED  BY <3>2
    <3>4. m \in 1..Len(s)
      BY <3>3, LenProperties
    <3> HIDE DEF m
    <3>5. RemoveAt(s, m) \in Seq(Endpoint)
      BY <3>4, RemovedAt
    <3> QED  BY <2>2, <3>5 DEF UndoAdd, m
  <2> QED  BY <2>1, <2>2
<1>2. UndoRemove(s, ep, i) \in Seq(Endpoint)
  <2>1. Len(s) \in Nat
    BY LenProperties
  <2> DEFINE k == IF i > Len(s) + 1 THEN Len(s) + 1 ELSE i
  <2>2. k \in 1..Len(s) + 1
    BY <2>1
  <2> HIDE DEF k
  <2>3. InsertAt(s, k, ep) \in Seq(Endpoint)
    BY <2>2, InsertedAt
  <2> QED  BY <2>3 DEF UndoRemove, k
<1> QED  BY <1>1, <1>2
-----------------------------------------------------------------------------
(* What the operations build                                               *)

LEMMA FreshInRange ==
  ASSUME CanSend
  PROVE  FreshId \in 1..MaxInFlight
  BY DEF CanSend, FreshId

LEMMA PlatformSend ==
  ASSUME TypeInv, CanSend, NEW p \in Platforms, NEW op \in {"add", "remove", "secret"},
         NEW ep \in Endpoint \cup {Empty}, NEW at \in Nat, NEW endpoints \in Lists,
         op \in {"add", "remove"} => ep \in Endpoint, op = "remove" => at > 0
  PROVE  persistPlatform(p, op, ep, at, endpoints) \in RequestRecord
         /\ Coherent(persistPlatform(p, op, ep, at, endpoints))
<1>1. page.events \in Subscriptions /\ page.tuning \in Tunings /\ store \in Stores
  BY DEF TypeInv, Pages
<1> QED  BY <1>1, FreshInRange DEF persistPlatform, Send, RequestRecord, Coherent

LEMMA SubscribedEvents ==
  ASSUME NEW s \in Pages, NEW p \in Platforms
  PROVE  subscribedEvents(s, p) \in SUBSET Events
<1>1. s.events[p] \in (SUBSET Events) \cup {FollowGlobal}
  BY DEF Pages, Subscriptions, Subscription
<1>2. GlobalEvents \in SUBSET Events
  BY NotificationAssumption
<1>3. CASE s.events[p] = FollowGlobal
  BY <1>2, <1>3 DEF subscribedEvents
<1>4. CASE s.events[p] # FollowGlobal
  BY <1>1, <1>4 DEF subscribedEvents
<1> QED  BY <1>3, <1>4

LEMMA SettingsSend ==
  ASSUME TypeInv, CanSend, NEW s \in Pages
  PROVE  collectAndSave(s) \in RequestRecord /\ Coherent(collectAndSave(s))
<1>1. (CHOOSE p \in Platforms : TRUE) \in Platforms
  BY DEF TypeInv
<1>2. [p \in Platforms |-> IF s.endpoints[p] = <<>> THEN FollowGlobal
                           ELSE subscribedEvents(s, p)] \in Subscriptions
  <2>1. \A p \in Platforms : (IF s.endpoints[p] = <<>> THEN FollowGlobal
                             ELSE subscribedEvents(s, p)) \in Subscription
    <3> TAKE p \in Platforms
    <3>1. subscribedEvents(s, p) \in Subscription /\ FollowGlobal \in Subscription
      BY SubscribedEvents DEF Subscription
    <3> QED  BY <3>1
  <2> QED  BY <2>1 DEF Subscriptions
<1>3. s.endpoints \in Lists /\ s.tuning \in Tunings /\ store \in Stores
  BY DEF TypeInv, Pages
<1> QED  BY <1>1, <1>2, <1>3, FreshInRange DEF collectAndSave, Send, RequestRecord, Coherent

LEMMA TestSend ==
  ASSUME TypeInv, CanSend, card.staged # Empty
  PROVE  LET r == Send("test", selected, "test", card.staged, 0, TRUE, page.endpoints,
                       page.events, page.tuning)
         IN  r \in RequestRecord /\ Coherent(r)
<1>1. /\ page.endpoints \in Lists /\ page.events \in Subscriptions
      /\ page.tuning \in Tunings /\ store \in Stores
      /\ selected \in Platforms /\ card.staged \in Endpoint \cup {Empty}
  BY DEF TypeInv, Pages, CardRecord
<1> QED  BY <1>1, FreshInRange DEF Send, RequestRecord, Coherent

\* Taking a request off the card leaves what it is.
LEMMA OffCard ==
  ASSUME NEW open, open \subseteq RequestRecord, \A r \in open : Coherent(r)
  PROVE  LET off == {[r EXCEPT !.onCard = FALSE] : r \in open}
         IN  off \subseteq RequestRecord /\ \A r \in off : Coherent(r)
<1>1. ASSUME NEW r \in RequestRecord, Coherent(r)
      PROVE  [r EXCEPT !.onCard = FALSE] \in RequestRecord
             /\ Coherent([r EXCEPT !.onCard = FALSE])
  <2> DEFINE off == [r EXCEPT !.onCard = FALSE]
  <2>1. off \in RequestRecord
    BY DEF RequestRecord
  <2>2. off.kind = r.kind /\ off.op = r.op /\ off.step = r.step /\ off.ep = r.ep
        /\ off.at = r.at /\ ~off.onCard
    BY DEF RequestRecord
  <2> HIDE DEF off
  <2>3. Coherent(off)
    BY <1>1, <2>2 DEF Coherent
  <2> QED  BY <2>1, <2>3 DEF off
<1> QED  BY <1>1

LEMMA CardRendered ==
  ASSUME NEW p \in Platforms, NEW endpoints \in Lists,
         NEW passed \in [Platforms -> BOOLEAN]
  PROVE  renderPlatformDetail(p, endpoints, passed) \in CardRecord
  BY DEF renderPlatformDetail, CardRecord, Lists

LEMMA PageWithList ==
  ASSUME NEW s \in Pages, NEW p \in Platforms, NEW list \in Seq(Endpoint)
  PROVE  /\ [s EXCEPT !.endpoints[p] = list] \in Pages
         /\ [s EXCEPT !.endpoints[p] = list].endpoints = [s.endpoints EXCEPT ![p] = list]
  BY DEF Pages, Lists

LEMMA SecretEdited ==
  ASSUME NEW list \in Seq(Endpoint), NEW i \in 1..Len(list), NEW s \in Secrets
  PROVE  /\ [list EXCEPT ![i].secret = s] \in Seq(Endpoint)
         /\ Len([list EXCEPT ![i].secret = s]) = Len(list)
         /\ \A j \in 1..Len(list) : [list EXCEPT ![i].secret = s][j] =
              IF j = i THEN [list[i] EXCEPT !.secret = s] ELSE list[j]
<1> DEFINE ep == [list[i] EXCEPT !.secret = s]
<1>1. list[i] \in Endpoint
  BY ElementOfSeq
<1>2. ep \in Endpoint
  BY <1>1 DEF Endpoint
<1>3. [list EXCEPT ![i].secret = s] = [list EXCEPT ![i] = ep]
  OBVIOUS
<1> HIDE DEF ep
<1>4. /\ [list EXCEPT ![i] = ep] \in Seq(Endpoint)
      /\ Len([list EXCEPT ![i] = ep]) = Len(list)
      /\ \A j \in 1..Len(list) : [list EXCEPT ![i] = ep][j] = IF j = i THEN ep ELSE list[j]
  BY <1>2, ExceptSeq
<1> QED  BY <1>3, <1>4 DEF ep

LEMMA Rendered ==
  ASSUME NEW p \in Platforms, NEW endpoints \in Lists, NEW passed \in [Platforms -> BOOLEAN],
         NEW open, open \subseteq RequestRecord, \A r \in open : Coherent(r),
         renderPlatformCards(p, endpoints, passed, open)
  PROVE  /\ card' \in CardRecord
         /\ requests' \subseteq RequestRecord /\ \A r \in requests' : Coherent(r)
  BY CardRendered, OffCard DEF renderPlatformCards

LEMMA InitTypeInv ==
  ASSUME Init
  PROVE  TypeInv
<1>1. InitialSettings.endpoints \in Lists
      /\ \A p \in Platforms : Kept(InitialSettings.endpoints[p]) = InitialSettings.endpoints[p]
  BY InitialAssumption DEF Lists
<1>2. InitialSettings.endpoints \in [Platforms -> KeptLists]
  BY <1>1 DEF KeptLists, Lists
<1>3. store \in Stores /\ page \in Pages
  BY <1>1, <1>2, InitialAssumption DEF Init, Stores, Pages, Subscriptions
<1>4. card \in CardRecord
  <2>1. page.endpoints \in Lists /\ testPassed \in [Platforms -> BOOLEAN]
    BY <1>3 DEF Init, Pages
  <2> QED  BY <2>1, CardRendered DEF Init
<1> QED  BY <1>3, <1>4 DEF Init, TypeInv

\* The part of TypeInv that no operation on the requests concerns.
LEMMA TypeOfUser ==
  ASSUME TypeInv, RowsDenoteEndpoints, UserOperation
  PROVE  TypeInv'
<1> USE DEF TypeInv
<1>0. /\ page.endpoints \in Lists /\ page.endpoints[selected] \in Seq(Endpoint)
      /\ page.events \in Subscriptions /\ page.tuning \in Tunings
      /\ card.rows \in Seq(Endpoint) /\ card.staged \in Endpoint \cup {Empty}
      /\ card.canSave \in BOOLEAN /\ card.canTest \in BOOLEAN
  BY DEF Pages, Lists, CardRecord
<1>1. ASSUME NEW p \in Platforms, SelectPlatform(p)  PROVE  TypeInv'
  BY <1>0, <1>1, Rendered DEF SelectPlatform
<1>2. ASSUME NEW ep \in Endpoint \cup {Empty}, EditStaged(ep)  PROVE  TypeInv'
  BY <1>0, <1>2 DEF EditStaged, CardRecord
<1>3. ASSUME testStagedEndpoint  PROVE  TypeInv'
  <2> DEFINE r == Send("test", selected, "test", card.staged, 0, TRUE, page.endpoints,
                       page.events, page.tuning)
  <2>1. r \in RequestRecord /\ Coherent(r)
    BY <1>3, TestSend DEF testStagedEndpoint
  <2>2. requests' = requests \cup {r}
    BY <1>3 DEF testStagedEndpoint
  <2> HIDE DEF r
  <2> QED  BY <1>0, <1>3, <2>1, <2>2 DEF testStagedEndpoint, CardRecord
<1>4. ASSUME saveStagedEndpoint  PROVE  TypeInv'
  <2>1. CASE card.staged = Empty
    BY <1>0, <1>4, <2>1 DEF saveStagedEndpoint, CardRecord
  <2>2. CASE card.staged # Empty
    <3>1. Append(page.endpoints[selected], card.staged) \in Seq(Endpoint)
          /\ card.staged \in Endpoint
      BY <1>0, <2>2
    <3>2. page' = [page EXCEPT !.endpoints[selected] = Append(page.endpoints[selected], card.staged)]
      BY <1>4, <2>2 DEF saveStagedEndpoint
    <3>3. page' \in Pages
      BY <3>1, <3>2, PageWithList
    <3> DEFINE r == persistPlatform(selected, "add", card.staged, 0, page'.endpoints)
    <3>4. r \in RequestRecord /\ Coherent(r)
      <4>1. page'.endpoints \in Lists /\ CanSend
        BY <1>4, <2>2, <3>3 DEF Pages, saveStagedEndpoint
      <4> QED  BY <3>1, <4>1, PlatformSend
    <3>5. requests' = requests \cup {r}
      BY <1>4, <2>2 DEF saveStagedEndpoint
    <3>6. disturbed' \in BOOLEAN
      BY <1>4, <2>2 DEF saveStagedEndpoint, Overlap
    <3> HIDE DEF r
    <3> QED  BY <1>0, <1>4, <2>2, <3>3, <3>4, <3>5, <3>6 DEF saveStagedEndpoint, CardRecord
  <2> QED  BY <2>1, <2>2
<1>5. ASSUME NEW i \in 1..Len(card.rows), RemoveEndpoint(i)  PROVE  TypeInv'
  <2>1. i \in 1..Len(page.endpoints[selected]) /\ i \in Nat /\ i > 0
    BY <1>0, PrefixAt DEF RowsDenoteEndpoints
  <2>2. RemoveAt(page.endpoints[selected], i) \in Seq(Endpoint)
        /\ page.endpoints[selected][i] \in Endpoint
    BY <1>0, <2>1, RemovedAt, ElementOfSeq
  <2>3. page' \in Pages
    <3>1. page' = [page EXCEPT !.endpoints[selected] = RemoveAt(page.endpoints[selected], i)]
      BY <1>5 DEF RemoveEndpoint
    <3> QED  BY <2>2, <3>1, PageWithList
  <2>4. page'.endpoints \in Lists /\ CanSend
    BY <1>5, <2>3 DEF Pages, RemoveEndpoint
  <2> DEFINE r == persistPlatform(selected, "remove", page.endpoints[selected][i], i,
                                  page'.endpoints)
  <2>5. r \in RequestRecord /\ Coherent(r)
    BY <2>1, <2>2, <2>4, PlatformSend
  <2>6. renderPlatformCards(selected, page'.endpoints, testPassed, requests \cup {r})
    BY <1>5 DEF RemoveEndpoint
  <2>7. disturbed' \in BOOLEAN
    BY <1>5 DEF RemoveEndpoint, Overlap
  <2> HIDE DEF r
  <2>8. /\ card' \in CardRecord
        /\ requests' \subseteq RequestRecord /\ \A q \in requests' : Coherent(q)
    BY <2>4, <2>5, <2>6, Rendered
  <2> QED  BY <1>5, <2>3, <2>7, <2>8 DEF RemoveEndpoint
<1>6. ASSUME NEW i \in 1..Len(card.rows), NEW s \in Secrets, EditSecret(i, s)  PROVE  TypeInv'
  <2>1. i \in 1..Len(page.endpoints[selected])
    BY <1>0, PrefixAt DEF RowsDenoteEndpoints
  <2>2. [page.endpoints[selected] EXCEPT ![i].secret = s] \in Seq(Endpoint)
        /\ [card.rows EXCEPT ![i].secret = s] \in Seq(Endpoint)
    BY <1>0, <2>1, SecretEdited
  <2>3. page' \in Pages
    <3>1. page' = [page EXCEPT !.endpoints[selected] =
                     [page.endpoints[selected] EXCEPT ![i].secret = s]]
      BY <1>6 DEF EditSecret
    <3> QED  BY <2>2, <3>1, PageWithList
  <2>4. card' \in CardRecord
    <3>1. card' = [card EXCEPT !.rows = [card.rows EXCEPT ![i].secret = s]]
      BY <1>6 DEF EditSecret
    <3> QED  BY <2>2, <3>1 DEF CardRecord
  <2> QED  BY <1>6, <2>3, <2>4 DEF EditSecret
<1>7. ASSUME NEW s \in Pages, SaveNow(s)  PROVE  TypeInv'
  <2> DEFINE r == collectAndSave(s)
  <2>1. r \in RequestRecord /\ Coherent(r)
    BY <1>7, SettingsSend DEF SaveNow
  <2>2. renderPlatformCards(selected, s.endpoints, testPassed, requests \cup {r})
    BY <1>7 DEF SaveNow
  <2>3. s.endpoints \in Lists
    BY DEF Pages
  <2> HIDE DEF r
  <2>4. /\ card' \in CardRecord
        /\ requests' \subseteq RequestRecord /\ \A q \in requests' : Coherent(q)
    BY <2>1, <2>2, <2>3, Rendered
  <2> QED  BY <1>7, <2>4 DEF SaveNow, Overlap
<1>8. ASSUME NEW p \in Platforms, NEW e \in Events, ToggleEvent(p, e)  PROVE  TypeInv'
  <2> DEFINE list == subscribedEvents(page, p)
             new == IF e \in list THEN list \ {e} ELSE list \cup {e}
  <2>1. new \in Subscription
    <3>1. list \in SUBSET Events
      BY SubscribedEvents
    <3> HIDE DEF list
    <3> QED  BY <3>1 DEF Subscription
  <2>2. SaveNow([page EXCEPT !.events[p] = new])
    BY <1>8 DEF ToggleEvent
  <2> HIDE DEF new
  <2>3. [page EXCEPT !.events[p] = new] \in Pages
    BY <2>1 DEF Pages, Subscriptions
  <2> QED  BY <1>7, <2>2, <2>3
<1>9. ASSUME FollowGlobalReset  PROVE  TypeInv'
  <2>1. [page EXCEPT !.events = [p \in Platforms |-> FollowGlobal]] \in Pages
    BY DEF Pages, Subscriptions, Subscription
  <2> QED  BY <1>7, <1>9, <2>1 DEF FollowGlobalReset
<1>10. ASSUME NEW t \in Tunings, EditTuning(t)  PROVE  TypeInv'
  BY <1>10 DEF EditTuning, Pages
<1> QED  BY <1>1, <1>2, <1>3, <1>4, <1>5, <1>6, <1>8, <1>9, <1>10 DEF UserOperation

LEMMA TypeOfTimers ==
  ASSUME TypeInv, (\E p \in Platforms : schedulePlatformSave(p)) \/ AutoSaveTimer
  PROVE  TypeInv'
<1> USE DEF TypeInv
<1>1. ASSUME NEW p \in Platforms, schedulePlatformSave(p)  PROVE  TypeInv'
  <2> DEFINE r == persistPlatform(p, "secret", Empty, 0, page.endpoints)
  <2>1. r \in RequestRecord /\ Coherent(r)
    BY <1>1, PlatformSend DEF schedulePlatformSave, Pages
  <2>2. requests' = requests \cup {r}
    BY <1>1 DEF schedulePlatformSave
  <2> HIDE DEF r
  <2> QED  BY <1>1, <2>1, <2>2 DEF schedulePlatformSave, Overlap
<1>2. ASSUME AutoSaveTimer  PROVE  TypeInv'
  <2> DEFINE r == collectAndSave(page)
  <2>1. r \in RequestRecord /\ Coherent(r)
    BY <1>2, SettingsSend DEF AutoSaveTimer
  <2>2. requests' = requests \cup {r}
    BY <1>2 DEF AutoSaveTimer
  <2> HIDE DEF r
  <2> QED  BY <1>2, <2>1, <2>2 DEF AutoSaveTimer, Overlap
<1> QED  BY <1>1, <1>2

\* Serving a request changes its step and what it has read.
LEMMA Advanced ==
  ASSUME TypeInv, NEW r \in requests, NEW step \in {"read", "saved", "refused"},
         NEW read \in Stores, r.kind # "test", step = "read" => r.kind = "platform",
         NEW a \in {[r EXCEPT !.step = step, !.read = read], [r EXCEPT !.step = step]}
  PROVE  a \in RequestRecord /\ Coherent(a)
<1>1. r \in RequestRecord /\ Coherent(r)
  BY DEF TypeInv
<1>2. a \in RequestRecord
  <2>1. CASE a = [r EXCEPT !.step = step, !.read = read]
    BY <1>1, <2>1 DEF RequestRecord
  <2>2. CASE a = [r EXCEPT !.step = step]
    BY <1>1, <2>2 DEF RequestRecord
  <2> QED  BY <2>1, <2>2
<1>3. /\ a.kind = r.kind /\ a.op = r.op /\ a.ep = r.ep /\ a.at = r.at
      /\ a.onCard = r.onCard /\ a.step = step
  BY <1>1 DEF RequestRecord
<1> QED  BY <1>1, <1>2, <1>3 DEF Coherent

LEMMA TypeOfServer ==
  ASSUME TypeInv, NEW r \in requests, Serve(r)
  PROVE  TypeInv'
<1> USE DEF TypeInv
<1>0. r \in RequestRecord /\ Coherent(r)
  OBVIOUS
<1>1. /\ r.endpoints \in Lists /\ r.events \in Subscriptions /\ r.tuning \in Tunings
      /\ r.platform \in Platforms /\ r.read \in Stores
  BY <1>0 DEF RequestRecord
<1>2. \A p \in Platforms : Kept(r.endpoints[p]) \in KeptLists
  BY <1>1 DEF Lists, KeptLists
<1>3. CASE SaveSettings(r)
  <2>1. store' \in Stores
    BY <1>1, <1>2, <1>3 DEF SaveSettings, Stores
  <2>2. [r EXCEPT !.step = "saved"] \in RequestRecord /\ Coherent([r EXCEPT !.step = "saved"])
    BY <1>1, <1>3, Advanced DEF SaveSettings
  <2> QED  BY <1>3, <2>1, <2>2 DEF SaveSettings, Advance
<1>4. CASE SavePlatformRead(r)
  <2>1. /\ [r EXCEPT !.step = "read", !.read = store] \in RequestRecord
        /\ Coherent([r EXCEPT !.step = "read", !.read = store])
    BY <1>4, Advanced DEF SavePlatformRead
  <2> QED  BY <1>4, <2>1 DEF SavePlatformRead
<1>5. CASE SavePlatform(r)
  <2>1. store' \in Stores
    BY <1>1, <1>2, <1>5 DEF SavePlatform, Stores
  <2>2. [r EXCEPT !.step = "saved"] \in RequestRecord /\ Coherent([r EXCEPT !.step = "saved"])
    BY <1>1, <1>5, Advanced DEF SavePlatform
  <2> QED  BY <1>5, <2>1, <2>2 DEF SavePlatform, Advance
<1>6. CASE RefuseSave(r)
  <2>1. /\ [r EXCEPT !.step = "refused"] \in RequestRecord
        /\ Coherent([r EXCEPT !.step = "refused"])
    BY <1>1, <1>6, Advanced DEF RefuseSave
  <2> QED  BY <1>6, <2>1 DEF RefuseSave, Advance
<1> QED  BY <1>3, <1>4, <1>5, <1>6 DEF Serve

LEMMA UndoneType ==
  ASSUME NEW r \in RequestRecord, Coherent(r), NEW s \in Seq(Endpoint)
  PROVE  Undone(r, s) \in Seq(Endpoint)
<1>1. r.op \in {"add", "remove"} => r.ep \in Endpoint
  BY DEF Coherent
<1>2. r.op = "remove" => r.at \in Nat \ {0}
  BY DEF Coherent, RequestRecord
<1>3. CASE r.op = "add"
  <2>1. UndoAdd(s, r.ep) \in Seq(Endpoint)
    BY <1>1, <1>3, UndoTypes
  <2> QED  BY <1>3, <2>1 DEF Undone
<1>4. CASE r.op = "remove"
  <2>1. UndoRemove(s, r.ep, r.at) \in Seq(Endpoint)
    BY <1>1, <1>2, <1>4, UndoTypes
  <2> QED  BY <1>4, <2>1 DEF Undone
<1>5. CASE r.op \notin {"add", "remove"}
  BY <1>5 DEF Undone
<1> QED  BY <1>3, <1>4, <1>5

LEMMA TypeOfAnswers ==
  ASSUME TypeInv, NEW r \in requests, Answer(r)
  PROVE  TypeInv'
<1> USE DEF TypeInv
<1>0. /\ r \in RequestRecord /\ Coherent(r) /\ r.platform \in Platforms
      /\ r.onCard \in BOOLEAN /\ page.endpoints \in Lists
      /\ card.canSave \in BOOLEAN /\ card.canTest \in BOOLEAN
      /\ card.staged \in Endpoint \cup {Empty} /\ r.ep \in Endpoint \cup {Empty}
  BY DEF RequestRecord, Pages, CardRecord
<1>1. ASSUME NEW ok \in BOOLEAN, TestAnswered(r, ok)  PROVE  TypeInv'
  <2>1. card' \in CardRecord
    BY <1>0, <1>1 DEF TestAnswered, CardRecord
  <2>2. tested' \in [Platforms -> Endpoint \cup {Empty}]
    BY <1>0, <1>1 DEF TestAnswered
  <2> QED  BY <1>0, <1>1, <2>1, <2>2 DEF TestAnswered
<1>2. CASE SaveAnswered(r)
  <2>1. CASE r.op = "add"
    <3>1. testPassed' \in [Platforms -> BOOLEAN]
      BY <1>0, <1>2, <2>1 DEF SaveAnswered
    <3>2. renderPlatformCards(selected, page.endpoints, testPassed', requests \ {r})
      BY <1>2, <2>1 DEF SaveAnswered
    <3>3. /\ card' \in CardRecord
          /\ requests' \subseteq RequestRecord /\ \A q \in requests' : Coherent(q)
      BY <1>0, <3>1, <3>2, Rendered
    <3> QED  BY <1>2, <3>1, <3>3 DEF SaveAnswered
  <2>2. CASE r.op # "add"
    BY <1>2, <2>2 DEF SaveAnswered
  <2> QED  BY <2>1, <2>2
<1>3. CASE SaveFailed(r)
  <2> DEFINE list == Undone(r, page.endpoints[r.platform])
  <2>1. page' = [page EXCEPT !.endpoints[r.platform] = list]
    BY <1>3 DEF SaveFailed, Undone
  <2>2. list \in Seq(Endpoint)
    BY <1>0, UndoneType DEF Lists
  <2> HIDE DEF list
  <2>3. page' \in Pages
    BY <1>0, <2>1, <2>2, PageWithList
  <2>4. disturbed' \in BOOLEAN
    BY <1>3 DEF SaveFailed
  <2>5. /\ card' \in CardRecord
        /\ requests' \subseteq RequestRecord /\ \A q \in requests' : Coherent(q)
    <3>1. CASE r.op \in {"add", "remove"}
      <4>1. renderPlatformCards(selected, page'.endpoints, testPassed, requests \ {r})
        BY <1>3, <3>1 DEF SaveFailed
      <4>2. page'.endpoints \in Lists
        BY <2>3 DEF Pages
      <4> QED  BY <4>1, <4>2, Rendered
    <3>2. CASE r.op \notin {"add", "remove"}
      BY <1>3, <3>2 DEF SaveFailed
    <3> QED  BY <3>1, <3>2
  <2> QED  BY <1>3, <2>3, <2>4, <2>5 DEF SaveFailed
<1> QED  BY <1>1, <1>2, <1>3 DEF Answer
-----------------------------------------------------------------------------
(* The rows of the card                                                    *)

LEMMA ListPrefixes ==
  ASSUME NEW s \in Seq(Endpoint), NEW ep \in Endpoint
  PROVE  IsPrefix(s, s) /\ \A t \in Seq(Endpoint) : IsPrefix(t, s) => IsPrefix(t, Append(s, ep))
<1>1. IsPrefix(s, s)
  BY LenProperties, PrefixAt
<1>2. ASSUME NEW t \in Seq(Endpoint), IsPrefix(t, s)
      PROVE  IsPrefix(t, Append(s, ep))
  <2>1. /\ Append(s, ep) \in Seq(Endpoint) /\ Len(Append(s, ep)) = Len(s) + 1
        /\ \A i \in 1..Len(s) : Append(s, ep)[i] = s[i]
        /\ Len(s) \in Nat /\ Len(t) \in Nat
    BY AppendProperties, LenProperties
  <2>2. Len(t) <= Len(s) /\ \A i \in 1..Len(t) : t[i] = s[i]
    BY <1>2, PrefixAt
  <2>3. Len(t) <= Len(Append(s, ep)) /\ \A i \in 1..Len(t) : t[i] = Append(s, ep)[i]
    BY <2>1, <2>2
  <2> QED  BY <2>1, <2>3, PrefixAt
<1> QED  BY <1>1, <1>2

\* A card drawn from the page's lists shows the list of its platform.
LEMMA RenderedRows ==
  ASSUME TypeInv', NEW passed, NEW open,
         renderPlatformCards(selected', page'.endpoints, passed, open)
  PROVE  RowsDenoteEndpoints'
<1>1. card'.rows = page'.endpoints[selected']
  BY DEF renderPlatformCards, renderPlatformDetail
<1>2. page'.endpoints[selected'] \in Seq(Endpoint)
  BY DEF TypeInv, Pages, Lists
<1>3. IsPrefix(page'.endpoints[selected'], page'.endpoints[selected'])
  BY <1>2, LenProperties, PrefixAt
<1> QED  BY <1>1, <1>3 DEF RowsDenoteEndpoints

\* Nothing else touches the rows, or the list they show.
LEMMA SameRows ==
  ASSUME RowsDenoteEndpoints, card'.rows = card.rows, selected' = selected,
         page'.endpoints[selected] = page.endpoints[selected]
  PROVE  RowsDenoteEndpoints'
  BY DEF RowsDenoteEndpoints

LEMMA RowsStep ==
  ASSUME TypeInv, TypeInv', RowsDenoteEndpoints, [Next]_vars
  PROVE  RowsDenoteEndpoints'
<1>0. /\ page.endpoints \in Lists /\ page.endpoints[selected] \in Seq(Endpoint)
      /\ selected \in Platforms /\ card.rows \in Seq(Endpoint) /\ card \in CardRecord
      /\ card.staged \in Endpoint \cup {Empty}
      /\ page \in Pages
  BY DEF TypeInv, Pages, Lists, CardRecord
<1>1. ASSUME NEW p \in Platforms, SelectPlatform(p)  PROVE  RowsDenoteEndpoints'
  <2>1. selected' = p /\ page' = page
    BY <1>1 DEF SelectPlatform
  <2>2. renderPlatformCards(selected', page'.endpoints, testPassed, requests)
    BY <1>1, <2>1 DEF SelectPlatform
  <2> QED  BY <2>2, RenderedRows
<1>2. ASSUME NEW ep \in Endpoint \cup {Empty}, EditStaged(ep)  PROVE  RowsDenoteEndpoints'
  BY <1>0, <1>2, SameRows DEF EditStaged, CardRecord
<1>3. ASSUME testStagedEndpoint  PROVE  RowsDenoteEndpoints'
  BY <1>0, <1>3, SameRows DEF testStagedEndpoint, CardRecord
<1>4. ASSUME saveStagedEndpoint  PROVE  RowsDenoteEndpoints'
  <2>1. CASE card.staged = Empty
    BY <1>0, <1>4, <2>1, SameRows DEF saveStagedEndpoint, CardRecord
  <2>2. CASE card.staged # Empty
    <3>1. card.staged \in Endpoint
      BY <1>0, <2>2
    <3>2. /\ page'.endpoints[selected] = Append(page.endpoints[selected], card.staged)
          /\ card'.rows = card.rows /\ selected' = selected
      BY <1>0, <1>4, <2>2 DEF saveStagedEndpoint, CardRecord, Pages, Lists
    <3>3. IsPrefix(card.rows, Append(page.endpoints[selected], card.staged))
      BY <1>0, <3>1, ListPrefixes DEF RowsDenoteEndpoints
    <3> QED  BY <3>2, <3>3 DEF RowsDenoteEndpoints
  <2> QED  BY <2>1, <2>2
<1>5. ASSUME NEW i \in 1..Len(card.rows), RemoveEndpoint(i)  PROVE  RowsDenoteEndpoints'
  <2> DEFINE open == requests \cup
        {persistPlatform(selected, "remove", page.endpoints[selected][i], i, page'.endpoints)}
  <2>1. selected' = selected
    BY <1>5 DEF RemoveEndpoint
  <2>2. renderPlatformCards(selected, page'.endpoints, testPassed, open)
    BY <1>5 DEF RemoveEndpoint
  <2> HIDE DEF open
  <2> QED  BY <2>1, <2>2, RenderedRows
<1>6. ASSUME NEW i \in 1..Len(card.rows), NEW s \in Secrets, EditSecret(i, s)
      PROVE  RowsDenoteEndpoints'
  <2> DEFINE rows == card.rows
             list == page.endpoints[selected]
             newRows == [rows EXCEPT ![i].secret = s]
             newList == [list EXCEPT ![i].secret = s]
  <2>1. card'.rows = newRows /\ page'.endpoints[selected] = newList /\ selected' = selected
    BY <1>0, <1>6 DEF EditSecret, CardRecord, Pages, Lists
  <2>2. rows \in Seq(Endpoint) /\ list \in Seq(Endpoint) /\ IsPrefix(rows, list)
    BY <1>0 DEF RowsDenoteEndpoints
  <2>3. /\ Len(rows) \in Nat /\ Len(list) \in Nat /\ Len(rows) <= Len(list)
        /\ \A j \in 1..Len(rows) : rows[j] = list[j]
    BY <2>2, LenProperties, PrefixAt
  <2> HIDE DEF rows, list
  <2>4. i \in 1..Len(rows) /\ i \in 1..Len(list)
    BY <2>3 DEF rows
  <2>5. /\ newRows \in Seq(Endpoint) /\ Len(newRows) = Len(rows)
        /\ \A j \in 1..Len(rows) : newRows[j] =
              IF j = i THEN [rows[i] EXCEPT !.secret = s] ELSE rows[j]
    BY <2>2, <2>4, SecretEdited
  <2>6. /\ newList \in Seq(Endpoint) /\ Len(newList) = Len(list)
        /\ \A j \in 1..Len(list) : newList[j] =
              IF j = i THEN [list[i] EXCEPT !.secret = s] ELSE list[j]
    BY <2>2, <2>4, SecretEdited
  <2> HIDE DEF newRows, newList
  <2>7. Len(newRows) <= Len(newList) /\ \A j \in 1..Len(newRows) : newRows[j] = newList[j]
    <3>1. ASSUME NEW j \in 1..Len(newRows)  PROVE  newRows[j] = newList[j]
      <4>1. j \in 1..Len(rows) /\ j \in 1..Len(list) /\ rows[j] = list[j] /\ rows[i] = list[i]
        BY <2>3, <2>4, <2>5
      <4> QED  BY <2>5, <2>6, <4>1
    <3> QED  BY <2>3, <2>5, <2>6, <3>1
  <2>8. IsPrefix(newRows, newList)
    BY <2>5, <2>6, <2>7, PrefixAt
  <2> QED  BY <2>1, <2>8 DEF RowsDenoteEndpoints
<1>7. ASSUME NEW s \in Pages, SaveNow(s)  PROVE  RowsDenoteEndpoints'
  <2> DEFINE open == requests \cup {collectAndSave(s)}
  <2>1. selected' = selected /\ page' = s
    BY <1>7 DEF SaveNow
  <2>2. renderPlatformCards(selected', page'.endpoints, testPassed, open)
    BY <1>7, <2>1 DEF SaveNow
  <2> HIDE DEF open
  <2> QED  BY <2>2, RenderedRows
<1>8. ASSUME NEW p \in Platforms, NEW e \in Events, ToggleEvent(p, e)
      PROVE  RowsDenoteEndpoints'
  <2>1. PICK s : SaveNow(s) /\ page' = s
    BY <1>8 DEF ToggleEvent, SaveNow
  <2>2. s \in Pages
    BY <2>1 DEF TypeInv
  <2> QED  BY <1>7, <2>1, <2>2
<1>9. ASSUME FollowGlobalReset  PROVE  RowsDenoteEndpoints'
  <2>1. PICK s : SaveNow(s) /\ page' = s
    BY <1>9 DEF FollowGlobalReset, SaveNow
  <2>2. s \in Pages
    BY <2>1 DEF TypeInv
  <2> QED  BY <1>7, <2>1, <2>2
<1>10. ASSUME NEW t \in Tunings, EditTuning(t)  PROVE  RowsDenoteEndpoints'
  BY <1>0, <1>10, SameRows DEF EditTuning, Pages
<1>11. CASE UserOperation
  BY <1>1, <1>2, <1>3, <1>4, <1>5, <1>6, <1>8, <1>9, <1>10, <1>11 DEF UserOperation
<1>12. ASSUME NEW p \in Platforms, schedulePlatformSave(p)  PROVE  RowsDenoteEndpoints'
  BY <1>12, SameRows DEF schedulePlatformSave
<1>13. CASE AutoSaveTimer
  BY <1>13, SameRows DEF AutoSaveTimer
<1>14. ASSUME NEW r \in requests, Serve(r)  PROVE  RowsDenoteEndpoints'
  BY <1>14, SameRows DEF Serve, SaveSettings, SavePlatformRead, SavePlatform, RefuseSave
<1>15. ASSUME NEW r \in requests, NEW ok \in BOOLEAN, TestAnswered(r, ok)
       PROVE  RowsDenoteEndpoints'
  BY <1>0, <1>15, SameRows DEF TestAnswered, CardRecord
<1>16. ASSUME NEW r \in requests, SaveAnswered(r)  PROVE  RowsDenoteEndpoints'
  <2>1. CASE r.op = "add"
    <3>1. selected' = selected /\ page' = page
      BY <1>16 DEF SaveAnswered
    <3>2. renderPlatformCards(selected', page'.endpoints, testPassed', requests \ {r})
      BY <1>16, <2>1, <3>1 DEF SaveAnswered
    <3> QED  BY <3>2, RenderedRows
  <2>2. CASE r.op # "add"
    BY <1>16, <2>2, SameRows DEF SaveAnswered
  <2> QED  BY <2>1, <2>2
<1>17. ASSUME NEW r \in requests, SaveFailed(r)  PROVE  RowsDenoteEndpoints'
  <2>1. selected' = selected
    BY <1>17 DEF SaveFailed
  <2>2. CASE r.op \in {"add", "remove"}
    <3>1. renderPlatformCards(selected', page'.endpoints, testPassed, requests \ {r})
      BY <1>17, <2>1, <2>2 DEF SaveFailed
    <3> QED  BY <3>1, RenderedRows
  <2>3. CASE r.op \notin {"add", "remove"}
    <3>1. page' = [page EXCEPT !.endpoints[r.platform] = @] /\ card' = card
      BY <1>17, <2>3 DEF SaveFailed
    <3>2. page'.endpoints[selected] = page.endpoints[selected]
      BY <1>0, <3>1 DEF Pages, Lists
    <3> QED  BY <2>1, <3>1, <3>2, SameRows
  <2> QED  BY <2>2, <2>3
<1>18. CASE UNCHANGED vars
  BY <1>18 DEF vars, RowsDenoteEndpoints
<1> QED
  BY <1>11, <1>12, <1>13, <1>14, <1>15, <1>16, <1>17, <1>18 DEF Next, Answer

LEMMA InitRows ==
  ASSUME Init
  PROVE  RowsDenoteEndpoints
<1>1. selected \in Platforms /\ page.endpoints \in Lists
  BY InitTypeInv DEF TypeInv, Pages
<1>2. card.rows = page.endpoints[selected]
  BY DEF Init, renderPlatformDetail
<1>3. page.endpoints[selected] \in Seq(Endpoint)
  BY <1>1 DEF Lists
<1> QED  BY <1>2, <1>3, LenProperties, PrefixAt DEF RowsDenoteEndpoints

LEMMA TypeStep ==
  ASSUME TypeInv, RowsDenoteEndpoints, [Next]_vars
  PROVE  TypeInv'
<1>1. CASE UserOperation
  BY <1>1, TypeOfUser
<1>2. CASE (\E p \in Platforms : schedulePlatformSave(p)) \/ AutoSaveTimer
  BY <1>2, TypeOfTimers
<1>3. ASSUME NEW r \in requests, Serve(r)  PROVE  TypeInv'
  BY <1>3, TypeOfServer
<1>4. ASSUME NEW r \in requests, Answer(r)  PROVE  TypeInv'
  BY <1>4, TypeOfAnswers
<1>5. CASE UNCHANGED vars
  BY <1>5 DEF vars, TypeInv
<1> QED  BY <1>1, <1>2, <1>3, <1>4, <1>5 DEF Next

\* Requests, page, card and persisted settings keep their types, and what a
\* request is agrees with the operation that sent it.
THEOREM TypeCorrect == Spec => [](TypeInv /\ RowsDenoteEndpoints)
<1>1. Init => TypeInv /\ RowsDenoteEndpoints
  BY InitTypeInv, InitRows
<1>2. TypeInv /\ RowsDenoteEndpoints /\ [Next]_vars => (TypeInv /\ RowsDenoteEndpoints)'
  BY TypeStep, RowsStep
<1> QED  BY <1>1, <1>2, PTL DEF Spec

\* The trash and secret handlers of a row act on the endpoint that row shows:
\* whatever adds, removals and rollbacks are in flight, the rows of the card
\* are a prefix of the selected platform's list.
THEOREM RowsDenote == Spec => []RowsDenoteEndpoints
  BY TypeCorrect, PTL
-----------------------------------------------------------------------------
(* Page and server at rest                                                 *)

\* A write has no button on the card to give up.
LEMMA WriteOffCard ==
  ASSUME NEW q \in RequestRecord, Coherent(q), q.kind # "test"
  PROVE  [q EXCEPT !.onCard = FALSE] = q
  BY DEF RequestRecord, Coherent

\* Drawing the card anew leaves the writes in flight.
LEMMA WritesRendered ==
  ASSUME NEW open, open \subseteq RequestRecord, \A q \in open : Coherent(q)
  PROVE  Writes({[q EXCEPT !.onCard = FALSE] : q \in open}) = Writes(open)
<1> DEFINE off == {[q EXCEPT !.onCard = FALSE] : q \in open}
<1>1. ASSUME NEW q \in open  PROVE  [q EXCEPT !.onCard = FALSE].kind = q.kind
  BY DEF RequestRecord
<1>2. ASSUME NEW r \in Writes(open)  PROVE  r \in Writes(off)
  <2>1. r \in open /\ r.kind # "test"
    BY DEF Writes
  <2>2. r = [r EXCEPT !.onCard = FALSE]
    BY <2>1, WriteOffCard
  <2> QED  BY <2>1, <2>2 DEF Writes
<1>3. ASSUME NEW r \in Writes(off)  PROVE  r \in Writes(open)
  <2>1. PICK q \in open : r = [q EXCEPT !.onCard = FALSE]
    BY DEF Writes
  <2>2. q.kind # "test"
    BY <1>1, <2>1 DEF Writes
  <2>3. r = q
    BY <2>1, <2>2, WriteOffCard
  <2> QED  BY <2>2, <2>3 DEF Writes
<1> QED  BY <1>2, <1>3

LEMMA IdleStep ==
  ASSUME OneWrite, Writes(requests') = Writes(requests),
         UNCHANGED <<page, store, timers, disturbed>>
  PROVE  OneWrite'
<1>1. Agrees' <=> Agrees
  BY DEF Agrees, Settled
<1>2. ASSUME NEW r \in Writes(requests), OnItsWay(r)  PROVE  OnItsWay(r)'
  BY <1>1, <1>2 DEF OnItsWay, Settled
<1> QED  BY <1>1, <1>2 DEF OneWrite

\* A write that is sent while another is in flight is the end of the claim.
LEMMA SendStep ==
  ASSUME OneWrite, Overlap, NEW new, Writes(requests') = Writes(requests) \cup {new},
         Agrees => OnItsWay(new)'
  PROVE  OneWrite'
<1>1. CASE disturbed'
  BY <1>1 DEF OneWrite
<1>2. CASE ~disturbed'
  <2>1. ~disturbed /\ Writes(requests) = {}
    BY <1>2 DEF Overlap
  <2>2. Writes(requests') = {new} /\ OnItsWay(new)'
    BY <2>1 DEF OneWrite
  <2> QED  BY <2>2 DEF OneWrite
<1> QED  BY <1>1, <1>2

\* A write that the server advances stays the only one.
LEMMA ServeStep ==
  ASSUME OneWrite, NEW r \in requests, r.kind # "test", NEW new, new.kind # "test",
         requests' = (requests \ {r}) \cup {new}, disturbed' = disturbed,
         ~disturbed /\ OnItsWay(r) => OnItsWay(new)'
  PROVE  OneWrite'
<1>1. CASE disturbed
  BY <1>1 DEF OneWrite
<1>2. CASE ~disturbed
  <2>1. r \in Writes(requests) /\ \A q \in Writes(requests) : q = r
    BY <1>2 DEF OneWrite, Writes
  <2>2. Writes(requests') = {new}
    BY <2>1 DEF Writes
  <2>3. OnItsWay(new)'
    BY <1>2, <2>1 DEF OneWrite
  <2> QED  BY <2>2, <2>3 DEF OneWrite
<1> QED  BY <1>1, <1>2

\* A write that is answered leaves page and server in agreement.
LEMMA EndStep ==
  ASSUME OneWrite, TypeInv, NEW r \in requests, r.kind # "test",
         Writes(requests') = Writes(requests \ {r}), ~disturbed' => ~disturbed,
         ~disturbed' /\ OnItsWay(r) => Agrees'
  PROVE  OneWrite'
<1>1. CASE disturbed'
  BY <1>1 DEF OneWrite
<1>2. CASE ~disturbed'
  <2>1. r \in Writes(requests) /\ \A q \in Writes(requests) : q = r
    BY <1>2 DEF OneWrite, Writes
  <2>2. Writes(requests') = {}
    BY <2>1 DEF Writes
  <2>3. Agrees'
    BY <1>2, <2>1 DEF OneWrite
  <2> QED  BY <2>2, <2>3 DEF OneWrite
<1> QED  BY <1>1, <1>2

LEMMA AddSent ==
  ASSUME TypeInv, OneWrite, saveStagedEndpoint
  PROVE  OneWrite'
<1>1. CASE card.staged = Empty
  BY <1>1, IdleStep DEF saveStagedEndpoint
<1>2. CASE card.staged # Empty
  <2> DEFINE list == page.endpoints[selected]
  <2>1. PICK new : new = persistPlatform(selected, "add", card.staged, 0, page'.endpoints)
    OBVIOUS
  <2>2. /\ requests' = requests \cup {new} /\ Overlap
        /\ page' = [page EXCEPT !.endpoints[selected] = Append(list, card.staged)]
        /\ card.staged.url \notin Urlset(list)
        /\ UNCHANGED <<timers, store>>
    BY <1>2, <2>1 DEF saveStagedEndpoint
  <2>3. /\ new.kind = "platform" /\ new.op = "add" /\ new.ep = card.staged
        /\ new.platform = selected /\ new.step = "sent" /\ new.endpoints = page'.endpoints
    BY <2>1 DEF persistPlatform, Send
  <2>4. /\ list \in Seq(Endpoint) /\ card.staged \in Endpoint /\ selected \in Platforms
        /\ page.endpoints \in Lists /\ page \in Pages
    BY <1>2 DEF TypeInv, Pages, Lists, CardRecord
  <2> HIDE DEF list
  <2>5. /\ page'.endpoints = [page.endpoints EXCEPT ![selected] = Append(list, card.staged)]
        /\ page'.tuning = page.tuning
    BY <2>2, <2>4 DEF Pages
  <2>6. /\ page'.endpoints[selected] = Append(list, card.staged)
        /\ \A p \in Platforms \ {selected} : page'.endpoints[p] = page.endpoints[p]
    BY <2>4, <2>5 DEF Lists
  <2>7. UndoAdd(Append(list, card.staged), card.staged) = list
    BY <2>2, <2>4, UndoAddRestores
  <2>8. Undone(new, page'.endpoints[selected]) = list
    BY <2>3, <2>6, <2>7 DEF Undone
  <2>9. ASSUME Agrees  PROVE  OnItsWay(new)'
    <3>1. AutoSave \notin timers' => store'.tuning = page'.tuning
      BY <2>2, <2>5, <2>9 DEF Agrees
    <3>2. \A p \in Platforms \ (timers' \cup {selected}) : Settled(p)'
      BY <2>2, <2>6, <2>9 DEF Agrees, Settled
    <3>3. selected \notin timers' =>
            store'.endpoints[selected] = Kept(Undone(new, page'.endpoints[selected]))
      BY <2>2, <2>4, <2>8, <2>9 DEF Agrees, Settled, list
    <3> QED  BY <2>3, <3>1, <3>2, <3>3 DEF OnItsWay
  <2>10. Writes(requests') = Writes(requests) \cup {new}
    BY <2>2, <2>3 DEF Writes
  <2> QED  BY <2>2, <2>9, <2>10, SendStep
<1> QED  BY <1>1, <1>2

LEMMA RemovalSent ==
  ASSUME TypeInv, RowsDenoteEndpoints, OneWrite, NEW i \in 1..Len(card.rows), RemoveEndpoint(i)
  PROVE  OneWrite'
<1> DEFINE list == page.endpoints[selected]
<1>1. PICK new :
        new = persistPlatform(selected, "remove", page.endpoints[selected][i], i, page'.endpoints)
  OBVIOUS
<1>2. /\ requests' = {[q EXCEPT !.onCard = FALSE] : q \in requests \cup {new}} /\ Overlap
      /\ page' = [page EXCEPT !.endpoints[selected] = RemoveAt(list, i)]
      /\ UNCHANGED <<timers, store>> /\ CanSend
  BY <1>1 DEF RemoveEndpoint, renderPlatformCards
<1>3. /\ new.kind = "platform" /\ new.op = "remove" /\ new.ep = list[i] /\ new.at = i
      /\ new.platform = selected /\ new.step = "sent" /\ new.endpoints = page'.endpoints
  BY <1>1 DEF persistPlatform, Send
<1>4. /\ list \in Seq(Endpoint) /\ card.rows \in Seq(Endpoint) /\ selected \in Platforms
      /\ page.endpoints \in Lists /\ page \in Pages
  BY DEF TypeInv, Pages, Lists, CardRecord
<1>5. i \in 1..Len(list) /\ i \in Nat /\ i > 0
  BY <1>4, PrefixAt DEF RowsDenoteEndpoints
<1>6. list[i] \in Endpoint /\ RemoveAt(list, i) \in Seq(Endpoint)
  BY <1>4, <1>5, ElementOfSeq, RemovedAt
<1>7. UndoRemove(RemoveAt(list, i), list[i], i) = list
  BY <1>4, <1>5, UndoRemoveRestores
<1>8. page' \in Pages
  BY <1>2, <1>4, <1>6, PageWithList
<1>9. new \in RequestRecord /\ Coherent(new)
  <2>1. page'.endpoints \in Lists
    BY <1>8 DEF Pages
  <2> QED  BY <1>1, <1>2, <1>4, <1>5, <1>6, <2>1, PlatformSend
<1> HIDE DEF list
<1>10. /\ page'.endpoints = [page.endpoints EXCEPT ![selected] = RemoveAt(list, i)]
       /\ page'.tuning = page.tuning
  BY <1>2, <1>4 DEF Pages
<1>11. /\ page'.endpoints[selected] = RemoveAt(list, i)
       /\ \A p \in Platforms \ {selected} : page'.endpoints[p] = page.endpoints[p]
  BY <1>4, <1>10 DEF Lists
<1>12. Undone(new, page'.endpoints[selected]) = list
  BY <1>3, <1>7, <1>11 DEF Undone
<1>13. ASSUME Agrees  PROVE  OnItsWay(new)'
  <2>1. AutoSave \notin timers' => store'.tuning = page'.tuning
    BY <1>2, <1>10, <1>13 DEF Agrees
  <2>2. \A p \in Platforms \ (timers' \cup {selected}) : Settled(p)'
    BY <1>2, <1>11, <1>13 DEF Agrees, Settled
  <2>3. selected \notin timers' =>
          store'.endpoints[selected] = Kept(Undone(new, page'.endpoints[selected]))
    BY <1>2, <1>4, <1>12, <1>13 DEF Agrees, Settled, list
  <2> QED  BY <1>3, <2>1, <2>2, <2>3 DEF OnItsWay
<1>14. Writes(requests') = Writes(requests) \cup {new}
  <2>1. Writes(requests') = Writes(requests \cup {new})
    BY <1>2, <1>9, WritesRendered DEF TypeInv
  <2> QED  BY <1>3, <2>1 DEF Writes
<1> QED  BY <1>2, <1>13, <1>14, SendStep

\* Whatever is saved as a whole carries all the page shows.
LEMMA AllSent ==
  ASSUME TypeInv, OneWrite, NEW new, Overlap,
         new.kind = "settings", new.step = "sent",
         new.endpoints = page'.endpoints, new.tuning = page'.tuning,
         Writes(requests') = Writes(requests) \cup {new}
  PROVE  OneWrite'
<1>1. OnItsWay(new)'
  BY DEF OnItsWay
<1> QED  BY <1>1, SendStep

LEMMA SaveNowSent ==
  ASSUME TypeInv, OneWrite, NEW s, SaveNow(s), page' \in Pages
  PROVE  OneWrite'
<1>1. PICK new : new = collectAndSave(s)
  OBVIOUS
<1>2. /\ requests' = {[q EXCEPT !.onCard = FALSE] : q \in requests \cup {new}} /\ Overlap
      /\ page' = s /\ CanSend
  BY <1>1 DEF SaveNow, renderPlatformCards
<1>3. /\ new.kind = "settings" /\ new.step = "sent"
      /\ new.endpoints = page'.endpoints /\ new.tuning = page'.tuning
  BY <1>1, <1>2 DEF collectAndSave, Send
<1>4. new \in RequestRecord /\ Coherent(new)
  BY <1>1, <1>2, SettingsSend
<1>5. Writes(requests') = Writes(requests) \cup {new}
  <2>1. Writes(requests') = Writes(requests \cup {new})
    BY <1>2, <1>4, WritesRendered DEF TypeInv
  <2> QED  BY <1>3, <2>1 DEF Writes
<1> QED  BY <1>2, <1>3, <1>5, AllSent

LEMMA SecretSaved ==
  ASSUME TypeInv, OneWrite, NEW p \in Platforms, schedulePlatformSave(p)
  PROVE  OneWrite'
<1>1. PICK new : new = persistPlatform(p, "secret", Empty, 0, page.endpoints)
  OBVIOUS
<1>2. /\ requests' = requests \cup {new} /\ Overlap /\ timers' = timers \ {p}
      /\ UNCHANGED <<page, store>>
  BY <1>1 DEF schedulePlatformSave
<1>3. /\ new.kind = "platform" /\ new.op = "secret" /\ new.step = "sent"
      /\ new.platform = p /\ new.endpoints = page.endpoints
  BY <1>1 DEF persistPlatform, Send
<1>4. AutoSave # p
  BY NotificationAssumption
<1>5. ASSUME Agrees  PROVE  OnItsWay(new)'
  <2>1. AutoSave \notin timers' => store'.tuning = page'.tuning
    BY <1>2, <1>4, <1>5 DEF Agrees
  <2>2. \A q \in Platforms \ (timers' \cup {p}) : Settled(q)'
    BY <1>2, <1>5 DEF Agrees, Settled
  <2> QED  BY <1>2, <1>3, <2>1, <2>2 DEF OnItsWay
<1>6. Writes(requests') = Writes(requests) \cup {new}
  BY <1>2, <1>3 DEF Writes
<1> QED  BY <1>2, <1>5, <1>6, SendStep

\* An edit that waits for its timer weakens what is claimed, and no more.
LEMMA Postponed ==
  ASSUME TypeInv, OneWrite, NEW t, timers' = timers \cup {t},
         UNCHANGED <<requests, store, disturbed>>,
         t # AutoSave => page'.tuning = page.tuning,
         \A p \in Platforms \ {t} : page'.endpoints[p] = page.endpoints[p]
  PROVE  OneWrite'
<1>1. Agrees => Agrees'
  BY DEF Agrees, Settled
<1>2. ASSUME NEW r \in Writes(requests), OnItsWay(r)  PROVE  OnItsWay(r)'
  <2>1. \A p \in Platforms \ timers' : r.endpoints[p] = page'.endpoints[p]
    BY <1>2 DEF OnItsWay
  <2>2. r.kind = "settings" /\ AutoSave \notin timers' => r.tuning = page'.tuning
    BY <1>2 DEF OnItsWay
  <2>3. ASSUME r.kind = "platform", r.step # "saved"
        PROVE  /\ AutoSave \notin timers' => store'.tuning = page'.tuning
               /\ \A p \in Platforms \ (timers' \cup {r.platform}) : Settled(p)'
               /\ r.op \in {"add", "remove"} /\ r.platform \notin timers' =>
                    store'.endpoints[r.platform] = Kept(Undone(r, page'.endpoints[r.platform]))
    <3>1. AutoSave \notin timers' => store'.tuning = page'.tuning
      BY <1>2, <2>3 DEF OnItsWay
    <3>2. \A p \in Platforms \ (timers' \cup {r.platform}) : Settled(p)'
      BY <1>2, <2>3 DEF OnItsWay, Settled
    <3>3. r.op \in {"add", "remove"} /\ r.platform \notin timers' =>
            store'.endpoints[r.platform] = Kept(Undone(r, page'.endpoints[r.platform]))
      <4>1. r.platform \in Platforms
        BY DEF TypeInv, Writes, RequestRecord
      <4>2. r.platform \notin timers' =>
              /\ r.platform \notin timers
              /\ page'.endpoints[r.platform] = page.endpoints[r.platform]
        BY <4>1
      <4> QED  BY <1>2, <2>3, <4>2 DEF OnItsWay
    <3> QED  BY <3>1, <3>2, <3>3
  <2> QED  BY <1>1, <1>2, <2>1, <2>2, <2>3 DEF OnItsWay
<1> QED  BY <1>1, <1>2 DEF OneWrite

LEMMA SecretPostponed ==
  ASSUME TypeInv, RowsDenoteEndpoints, OneWrite, NEW i \in 1..Len(card.rows), NEW s \in Secrets,
         EditSecret(i, s)
  PROVE  OneWrite'
<1> DEFINE list == [page.endpoints[selected] EXCEPT ![i].secret = s]
<1>1. page' = [page EXCEPT !.endpoints[selected] = list]
  BY DEF EditSecret
<1>2. page \in Pages /\ page.endpoints \in Lists /\ selected \in Platforms
  BY DEF TypeInv, Pages
<1> HIDE DEF list
<1>3. page'.tuning = page.tuning /\ page'.endpoints = [page.endpoints EXCEPT ![selected] = list]
  BY <1>1, <1>2 DEF Pages
<1>4. \A p \in Platforms \ {selected} : page'.endpoints[p] = page.endpoints[p]
  BY <1>2, <1>3 DEF Lists
<1>5. timers' = timers \cup {selected} /\ UNCHANGED <<requests, store, disturbed>>
  BY DEF EditSecret
<1> QED  BY <1>3, <1>4, <1>5, Postponed

LEMMA TuningPostponed ==
  ASSUME TypeInv, OneWrite, NEW t \in Tunings, EditTuning(t)
  PROVE  OneWrite'
<1>1. page'.endpoints = page.endpoints
  BY DEF EditTuning, TypeInv, Pages
<1>2. timers' = timers \cup {AutoSave} /\ UNCHANGED <<requests, store, disturbed>>
  BY DEF EditTuning
<1> QED  BY <1>1, <1>2, Postponed

LEMMA Served ==
  ASSUME TypeInv, OneWrite, NEW r \in requests, Serve(r)
  PROVE  OneWrite'
<1>1. r \in RequestRecord /\ Coherent(r)
  BY DEF TypeInv
<1>2. /\ r.platform \in Platforms /\ r.endpoints \in Lists /\ r.read \in Stores
      /\ r.events \in Subscriptions /\ r.tuning \in Tunings
  BY <1>1 DEF RequestRecord
<1>3. CASE SaveSettings(r)
  <2>1. PICK new : new = [r EXCEPT !.step = "saved"]
    OBVIOUS
  <2>2. /\ requests' = (requests \ {r}) \cup {new} /\ r.kind = "settings"
        /\ UNCHANGED <<page, timers, disturbed>>
        /\ store' = [endpoints |-> [p \in Platforms |-> Kept(r.endpoints[p])],
                     events |-> r.events, tuning |-> r.tuning]
    BY <1>3, <2>1 DEF SaveSettings, Advance
  <2>3. /\ new.kind = "settings" /\ new.step = "saved"
        /\ new.endpoints = r.endpoints /\ new.tuning = r.tuning
    BY <1>1, <2>1, <2>2 DEF RequestRecord
  <2>4. ASSUME OnItsWay(r)  PROVE  OnItsWay(new)'
    <3>1. Agrees'
      BY <2>2, <2>4 DEF OnItsWay, Agrees, Settled
    <3> QED  BY <2>2, <2>3, <2>4, <3>1 DEF OnItsWay
  <2> QED  BY <2>2, <2>3, <2>4, ServeStep
<1>4. CASE SavePlatformRead(r)
  <2>1. PICK new : new = [r EXCEPT !.step = "read", !.read = store]
    OBVIOUS
  <2>2. /\ requests' = (requests \ {r}) \cup {new} /\ r.kind = "platform" /\ r.step = "sent"
        /\ UNCHANGED <<page, store, timers, disturbed>>
    BY <1>4, <2>1 DEF SavePlatformRead
  <2>3. /\ new.kind = "platform" /\ new.step = "read" /\ new.read = store
        /\ new.endpoints = r.endpoints /\ new.platform = r.platform
        /\ new.op = r.op /\ new.ep = r.ep /\ new.at = r.at
    BY <1>1, <2>1, <2>2 DEF RequestRecord
  <2>4. ASSUME OnItsWay(r)  PROVE  OnItsWay(new)'
    BY <2>2, <2>3, <2>4 DEF OnItsWay, Settled, Undone
  <2> QED  BY <2>2, <2>3, <2>4, ServeStep
<1>5. CASE SavePlatform(r)
  <2>1. PICK new : new = [r EXCEPT !.step = "saved"]
    OBVIOUS
  <2>2. /\ requests' = (requests \ {r}) \cup {new} /\ r.kind = "platform" /\ r.step = "read"
        /\ UNCHANGED <<page, timers, disturbed>>
        /\ store' = [r.read EXCEPT !.endpoints[r.platform] = Kept(r.endpoints[r.platform])]
    BY <1>5, <2>1 DEF SavePlatform, Advance
  <2>3. new.kind = "platform" /\ new.step = "saved" /\ new.endpoints = r.endpoints
    BY <1>1, <2>1, <2>2 DEF RequestRecord
  <2>4. ASSUME OnItsWay(r)  PROVE  OnItsWay(new)'
    <3>1. r.read = store
      BY <2>2, <2>4 DEF OnItsWay
    <3>2. /\ store'.tuning = store.tuning
          /\ store'.endpoints[r.platform] = Kept(r.endpoints[r.platform])
          /\ \A p \in Platforms \ {r.platform} : store'.endpoints[p] = store.endpoints[p]
      BY <1>2, <2>2, <3>1 DEF Stores
    <3>3. AutoSave \notin timers' => store'.tuning = page'.tuning
      BY <2>2, <2>4, <3>2 DEF OnItsWay
    <3>4. ASSUME NEW p \in Platforms \ timers'  PROVE  Settled(p)'
      <4>1. CASE p = r.platform
        BY <2>2, <2>4, <3>2, <4>1 DEF OnItsWay, Settled
      <4>2. CASE p # r.platform
        BY <2>2, <2>4, <3>2, <4>2 DEF OnItsWay, Settled
      <4> QED  BY <4>1, <4>2
    <3>5. Agrees'
      BY <3>3, <3>4 DEF Agrees
    <3> QED  BY <2>2, <2>3, <2>4, <3>5 DEF OnItsWay
  <2> QED  BY <2>2, <2>3, <2>4, ServeStep
<1>6. CASE RefuseSave(r)
  <2>1. PICK new : new = [r EXCEPT !.step = "refused"]
    OBVIOUS
  <2>2. /\ requests' = (requests \ {r}) \cup {new} /\ r.kind # "test" /\ r.step # "saved"
        /\ UNCHANGED <<page, store, timers, disturbed>>
    BY <1>6, <2>1 DEF RefuseSave, Advance
  <2>3. /\ new.kind = r.kind /\ new.step = "refused" /\ new.tuning = r.tuning
        /\ new.endpoints = r.endpoints /\ new.platform = r.platform
        /\ new.op = r.op /\ new.ep = r.ep /\ new.at = r.at
    BY <1>1, <2>1, <2>2 DEF RequestRecord
  <2>4. ASSUME OnItsWay(r)  PROVE  OnItsWay(new)'
    BY <2>2, <2>3, <2>4 DEF OnItsWay, Settled, Undone
  <2> QED  BY <2>2, <2>3, <2>4, ServeStep
<1> QED  BY <1>3, <1>4, <1>5, <1>6 DEF Serve

LEMMA Answered ==
  ASSUME TypeInv, OneWrite, NEW r \in requests, Answer(r)
  PROVE  OneWrite'
<1>1. r \in RequestRecord /\ Coherent(r) /\ requests \subseteq RequestRecord
      /\ \A q \in requests : Coherent(q)
  BY DEF TypeInv
<1>2. ASSUME NEW ok \in BOOLEAN, TestAnswered(r, ok)  PROVE  OneWrite'
  <2>1. Writes(requests') = Writes(requests)
    BY <1>2 DEF TestAnswered, Writes
  <2> QED  BY <1>2, <2>1, IdleStep DEF TestAnswered
<1>3. CASE SaveAnswered(r)
  <2>1. r.step = "saved" /\ UNCHANGED <<page, store, timers, disturbed>>
    BY <1>3 DEF SaveAnswered
  <2>2. r.kind # "test"
    BY <1>1, <2>1 DEF Coherent
  <2>3. Writes(requests') = Writes(requests \ {r})
    <3>1. CASE r.op = "add"
      <4>1. requests' = {[q EXCEPT !.onCard = FALSE] : q \in requests \ {r}}
        BY <1>3, <3>1 DEF SaveAnswered, renderPlatformCards
      <4> QED  BY <1>1, <4>1, WritesRendered
    <3>2. CASE r.op # "add"
      BY <1>3, <3>2 DEF SaveAnswered
    <3> QED  BY <3>1, <3>2
  <2>4. OnItsWay(r) => Agrees'
    BY <2>1 DEF OnItsWay, Agrees, Settled
  <2> QED  BY <2>1, <2>2, <2>3, <2>4, EndStep
<1>4. CASE SaveFailed(r)
  <2> DEFINE list == Undone(r, page.endpoints[r.platform])
  <2>1. /\ r.kind # "test" /\ r.step \in {"saved", "refused"}
        /\ disturbed' = (disturbed \/ r.step = "saved" \/ r.op \in {"secret", "settings"})
        /\ page' = [page EXCEPT !.endpoints[r.platform] = list]
        /\ UNCHANGED <<store, timers>>
    BY <1>4 DEF SaveFailed, Undone
  <2> HIDE DEF list
  <2>2. Writes(requests') = Writes(requests \ {r})
    <3>1. CASE r.op \in {"add", "remove"}
      <4>1. requests' = {[q EXCEPT !.onCard = FALSE] : q \in requests \ {r}}
        BY <1>4, <3>1 DEF SaveFailed, renderPlatformCards
      <4> QED  BY <1>1, <4>1, WritesRendered
    <3>2. CASE r.op \notin {"add", "remove"}
      BY <1>4, <3>2 DEF SaveFailed
    <3> QED  BY <3>1, <3>2
  <2>3. ASSUME ~disturbed', OnItsWay(r)  PROVE  Agrees'
    <3>1. r.step = "refused" /\ r.op \in {"add", "remove"}
      <4>1. r.op \in {"test", "add", "remove", "secret", "settings"}
        BY <1>1 DEF RequestRecord
      <4>2. r.op # "test"
        BY <1>1, <2>1 DEF Coherent
      <4> QED  BY <2>1, <2>3, <4>1, <4>2
    <3>2. r.kind = "platform"
      BY <1>1, <3>1 DEF RequestRecord, Coherent
    <3>3. page \in Pages /\ page.endpoints \in Lists /\ r.platform \in Platforms
      BY <1>1 DEF TypeInv, Pages, RequestRecord
    <3>4. page'.tuning = page.tuning
          /\ page'.endpoints = [page.endpoints EXCEPT ![r.platform] = list]
      BY <2>1, <3>3 DEF Pages
    <3>5. /\ page'.endpoints[r.platform] = list
          /\ \A p \in Platforms \ {r.platform} : page'.endpoints[p] = page.endpoints[p]
      BY <3>3, <3>4 DEF Lists
    <3>6. AutoSave \notin timers' => store'.tuning = page'.tuning
      BY <2>1, <2>3, <3>1, <3>2, <3>4 DEF OnItsWay
    <3>7. ASSUME NEW p \in Platforms \ timers'  PROVE  Settled(p)'
      <4>1. CASE p = r.platform
        BY <2>1, <2>3, <3>1, <3>2, <3>5, <4>1 DEF OnItsWay, Settled, list
      <4>2. CASE p # r.platform
        BY <2>1, <2>3, <3>1, <3>2, <3>5, <4>2 DEF OnItsWay, Settled
      <4> QED  BY <4>1, <4>2
    <3> QED  BY <3>6, <3>7 DEF Agrees
  <2>4. ~disturbed' => ~disturbed
    BY <2>1
  <2> QED  BY <2>1, <2>2, <2>3, <2>4, EndStep
<1> QED  BY <1>2, <1>3, <1>4 DEF Answer

LEMMA OneWriteStep ==
  ASSUME TypeInv, TypeInv', RowsDenoteEndpoints, OneWrite, [Next]_vars
  PROVE  OneWrite'
<1>1. requests \subseteq RequestRecord /\ \A q \in requests : Coherent(q)
  BY DEF TypeInv
<1>2. ASSUME NEW p \in Platforms, SelectPlatform(p)  PROVE  OneWrite'
  <2>1. requests' = {[q EXCEPT !.onCard = FALSE] : q \in requests}
    BY <1>2 DEF SelectPlatform, renderPlatformCards
  <2>2. Writes(requests') = Writes(requests)
    BY <1>1, <2>1, WritesRendered
  <2> QED  BY <1>2, <2>2, IdleStep DEF SelectPlatform
<1>3. ASSUME NEW ep \in Endpoint \cup {Empty}, EditStaged(ep)  PROVE  OneWrite'
  BY <1>3, IdleStep DEF EditStaged
<1>4. CASE testStagedEndpoint
  <2>1. PICK new : new = Send("test", selected, "test", card.staged, 0, TRUE, page.endpoints,
                              page.events, page.tuning)
    OBVIOUS
  <2>2. requests' = requests \cup {new} /\ new.kind = "test"
    BY <1>4, <2>1 DEF testStagedEndpoint, Send
  <2>3. Writes(requests') = Writes(requests)
    BY <2>2 DEF Writes
  <2> QED  BY <1>4, <2>3, IdleStep DEF testStagedEndpoint
<1>5. CASE saveStagedEndpoint
  BY <1>5, AddSent
<1>6. ASSUME NEW i \in 1..Len(card.rows), RemoveEndpoint(i)  PROVE  OneWrite'
  BY <1>6, RemovalSent
<1>7. ASSUME NEW i \in 1..Len(card.rows), NEW s \in Secrets, EditSecret(i, s)  PROVE  OneWrite'
  BY <1>7, SecretPostponed
<1>8. ASSUME NEW s, SaveNow(s)  PROVE  OneWrite'
  BY <1>8, SaveNowSent DEF TypeInv
<1>9. ASSUME NEW t \in Tunings, EditTuning(t)  PROVE  OneWrite'
  BY <1>9, TuningPostponed
<1>10. CASE UserOperation
  BY <1>2, <1>3, <1>4, <1>5, <1>6, <1>7, <1>8, <1>9, <1>10
     DEF UserOperation, ToggleEvent, FollowGlobalReset
<1>11. ASSUME NEW p \in Platforms, schedulePlatformSave(p)  PROVE  OneWrite'
  BY <1>11, SecretSaved
<1>12. CASE AutoSaveTimer
  <2>1. PICK new : new = collectAndSave(page)
    OBVIOUS
  <2>2. requests' = requests \cup {new} /\ Overlap /\ page' = page
    BY <1>12, <2>1 DEF AutoSaveTimer
  <2>3. /\ new.kind = "settings" /\ new.step = "sent"
        /\ new.endpoints = page'.endpoints /\ new.tuning = page'.tuning
    BY <2>1, <2>2 DEF collectAndSave, Send
  <2>4. Writes(requests') = Writes(requests) \cup {new}
    BY <2>2, <2>3 DEF Writes
  <2> QED  BY <2>2, <2>3, <2>4, AllSent
<1>13. ASSUME NEW r \in requests, Serve(r)  PROVE  OneWrite'
  BY <1>13, Served
<1>14. ASSUME NEW r \in requests, Answer(r)  PROVE  OneWrite'
  BY <1>14, Answered
<1>15. CASE UNCHANGED vars
  BY <1>15, IdleStep DEF vars
<1> QED  BY <1>10, <1>11, <1>12, <1>13, <1>14, <1>15 DEF Next

LEMMA InitOneWrite ==
  ASSUME Init
  PROVE  OneWrite
<1>1. store = page /\ timers = {} /\ Writes(requests) = {}
  BY DEF Init, Writes
<1>2. \A p \in Platforms : Settled(p)
  BY InitialAssumption DEF Init, Settled
<1> QED  BY <1>1, <1>2 DEF OneWrite, Agrees

\* At rest the server keeps what the page shows: when no write overlapped another
\* and every refused one was an add or a removal, the rollbacks have restored
\* exactly the lists that are persisted.
THEOREM PersistedAtRest == Spec => []EndpointsPersisted
<1>1. Init => OneWrite
  BY InitOneWrite
<1>2. TypeInv /\ TypeInv' /\ RowsDenoteEndpoints /\ OneWrite /\ [Next]_vars => OneWrite'
  BY OneWriteStep
<1>3. OneWrite => EndpointsPersisted
  BY NotificationAssumption DEF OneWrite, EndpointsPersisted, Agrees, Settled, Writes
<1> QED  BY <1>1, <1>2, <1>3, TypeCorrect, PTL DEF Spec
=============================================================================
