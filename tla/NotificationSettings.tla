------------------------ MODULE NotificationSettings ------------------------
(***************************************************************************)
(* The notifications page of the dashboard and the settings endpoints it   *)
(* calls.  The page keeps the endpoints and subscriptions of every         *)
(* platform, tests a staged endpoint before its Save button is unlocked,   *)
(* persists every change in place and rolls an add or a removal back when  *)
(* the server refuses it.  The server keeps one settings row: SavePlatform *)
(* reads and rewrites it, SaveSettings replaces it.  Requests are not      *)
(* sequenced: they may be served and answered in any order, be refused, or *)
(* lose their answer to the 30 s timeout of the API client.                *)
(***************************************************************************)
EXTENDS Integers, Sequences, SequencesExt

CONSTANTS Platforms, Urls, Secrets, Events,
          GlobalEvents,   \* enabledEvents, which the page shows and never edits
          Tunings,        \* values of cooldown, retries and timeout taken together
          MaxEndpoints,   \* MaxEndpointsPerPlatform of the controller
          MaxInFlight,    \* bound: requests in flight at a time
          MaxEdits,       \* bound: operations of the user
          Empty,          \* nothing typed in the add row
          FollowGlobal    \* no explicit subscription stored for a platform

AutoSave == "autoSave"

ASSUME NotificationAssumption ==
  /\ GlobalEvents \subseteq Events
  /\ AutoSave \notin Platforms
  /\ MaxEndpoints \in Nat \ {0}
  /\ MaxInFlight \in Nat \ {0}
  /\ MaxEdits \in Nat

Endpoint == [url : Urls, secret : Secrets]
Subscription == (SUBSET Events) \cup {FollowGlobal}
Settings == [endpoints : [Platforms -> Seq(Endpoint)],
             events : [Platforms -> Subscription], tuning : Tunings]

VARIABLES
  page,         \* state.platforms, state.platformEvents and the advanced inputs
  testPassed,   \* state.testPassed
  selected,     \* state.selectedPlatform
  card,         \* the DOM of the selected platform: rows, add row, its buttons
  timers,       \* pending state.saveTimers, as platforms, and autoSaveTimer
  requests,     \* requests in flight, with what their handlers closed over
  store,        \* the persisted WebhookSettingsData
  edits,        \* operations so far (bound MaxEdits)
  tested,       \* history: per platform, the endpoint of its last passed test
  disturbed     \* history: writes overlapped, or one failed that is not undone

vars == <<page, testPassed, selected, card, timers, requests, store, edits,
          tested, disturbed>>

-----------------------------------------------------------------------------
(* The page                                                                *)

Urlset(s) == {s[i].url : i \in DOMAIN s}

subscribedEvents(s, p) ==
  IF s.events[p] = FollowGlobal THEN GlobalEvents ELSE s.events[p]

renderPlatformDetail(p, endpoints, passed) ==
  [rows |-> endpoints[p], staged |-> Empty, canSave |-> passed[p], canTest |-> TRUE]

\* Rendering replaces the card: the buttons an open test or save holds are gone.
renderPlatformCards(p, endpoints, passed, open) ==
  /\ card' = renderPlatformDetail(p, endpoints, passed)
  /\ requests' = {[r EXCEPT !.onCard = FALSE] : r \in open}

Writes(open) == {r \in open : r.kind # "test"}

\* The smallest free number names a request.
FreshId == CHOOSE i \in 1..MaxInFlight : \A r \in requests : r.id # i

Operation == edits < MaxEdits /\ edits' = edits + 1

Send(kind, p, op, ep, at, live, endpoints, events, tuning) ==
  [id |-> FreshId, kind |-> kind, platform |-> p, op |-> op, ep |-> ep, at |-> at,
   onCard |-> live, step |-> "sent", endpoints |-> endpoints, events |-> events,
   tuning |-> tuning, read |-> store]

CanSend == \E i \in 1..MaxInFlight : \A r \in requests : r.id # i

\* persistPlatform: the whole endpoint list of one platform.
persistPlatform(p, op, ep, at, endpoints) ==
  Send("platform", p, op, ep, at, FALSE, endpoints, page.events, page.tuning)

\* collectAndSave: every platform, with an explicit subscription written for
\* each one that has endpoints.
collectAndSave(s) ==
  Send("settings", CHOOSE p \in Platforms : TRUE, "settings", Empty, 0, FALSE, s.endpoints,
       [p \in Platforms |-> IF s.endpoints[p] = <<>> THEN FollowGlobal
                            ELSE subscribedEvents(s, p)], s.tuning)

Overlap == disturbed' = (disturbed \/ Writes(requests) # {})

SelectPlatform(p) ==
  /\ Operation
  /\ p # selected
  /\ selected' = p
  /\ renderPlatformCards(p, page.endpoints, testPassed, requests)
  /\ UNCHANGED <<page, testPassed, timers, store, tested, disturbed>>

\* Any edit of the add row takes back a test that passed.
EditStaged(ep) ==
  /\ Operation
  /\ ep # card.staged
  /\ testPassed' = [testPassed EXCEPT ![selected] = FALSE]
  /\ card' = [card EXCEPT !.staged = ep,
                          !.canSave = @ /\ ~testPassed[selected]]
  /\ UNCHANGED <<page, selected, timers, requests, store, tested, disturbed>>

testStagedEndpoint ==
  /\ Operation
  /\ CanSend
  /\ card.canTest
  /\ card.staged # Empty
  /\ card.staged.url \notin Urlset(page.endpoints[selected])
  /\ testPassed' = [testPassed EXCEPT ![selected] = FALSE]
  /\ card' = [card EXCEPT !.canSave = FALSE, !.canTest = FALSE]
  /\ requests' = requests \cup
       {Send("test", selected, "test", card.staged, 0, TRUE, page.endpoints,
             page.events, page.tuning)}
  /\ UNCHANGED <<page, selected, timers, store, tested, disturbed>>

saveStagedEndpoint ==
  /\ Operation
  /\ card.canSave /\ testPassed[selected]
  /\ \/ /\ card.staged = Empty
        /\ testPassed' = [testPassed EXCEPT ![selected] = FALSE]
        /\ card' = [card EXCEPT !.canSave = FALSE]
        /\ UNCHANGED <<page, requests, disturbed>>
     \/ /\ card.staged # Empty
        /\ card.staged.url \notin Urlset(page.endpoints[selected])
        /\ CanSend
        /\ page' = [page EXCEPT !.endpoints[selected] = Append(@, card.staged)]
        /\ card' = [card EXCEPT !.canSave = FALSE]
        /\ requests' = requests \cup
             {persistPlatform(selected, "add", card.staged, 0, page'.endpoints)}
        /\ Overlap
        /\ UNCHANGED testPassed
  /\ UNCHANGED <<selected, timers, store, tested>>

RemoveEndpoint(i) ==
  /\ Operation
  /\ CanSend
  /\ i \in DOMAIN card.rows
  /\ page' = [page EXCEPT !.endpoints[selected] = RemoveAt(@, i)]
  /\ renderPlatformCards(selected, page'.endpoints, testPassed, requests \cup
       {persistPlatform(selected, "remove", page.endpoints[selected][i], i, page'.endpoints)})
  /\ Overlap
  /\ UNCHANGED <<testPassed, selected, timers, store, tested>>

\* A secret is edited in place and saved 800 ms after the last keystroke.
EditSecret(i, s) ==
  /\ Operation
  /\ i \in DOMAIN card.rows
  /\ card.rows[i].secret # s
  /\ page' = [page EXCEPT !.endpoints[selected][i].secret = s]
  /\ card' = [card EXCEPT !.rows[i].secret = s]
  /\ timers' = timers \cup {selected}
  /\ UNCHANGED <<testPassed, selected, requests, store, tested, disturbed>>

schedulePlatformSave(p) ==
  /\ p \in timers
  /\ CanSend
  /\ timers' = timers \ {p}
  /\ requests' = requests \cup {persistPlatform(p, "secret", Empty, 0, page.endpoints)}
  /\ Overlap
  /\ UNCHANGED <<page, testPassed, selected, card, store, edits, tested>>

\* autoSave(0): the pending debounce is cancelled and everything saved at once.
\* The card is rendered before.
SaveNow(s) ==
  /\ CanSend
  /\ page' = s
  /\ renderPlatformCards(selected, s.endpoints, testPassed, requests \cup {collectAndSave(s)})
  /\ timers' = timers \ {AutoSave}
  /\ Overlap
  /\ UNCHANGED <<testPassed, selected, store, tested>>

\* Ticking a box makes the subscription of the platform explicit first.
ToggleEvent(p, e) ==
  /\ Operation
  /\ LET list == subscribedEvents(page, p)
     IN  SaveNow([page EXCEPT !.events[p] = IF e \in list THEN list \ {e} ELSE list \cup {e}])

FollowGlobalReset ==
  /\ Operation
  /\ SaveNow([page EXCEPT !.events = [p \in Platforms |-> FollowGlobal]])

EditTuning(t) ==
  /\ Operation
  /\ t # page.tuning
  /\ page' = [page EXCEPT !.tuning = t]
  /\ timers' = timers \cup {AutoSave}
  /\ UNCHANGED <<testPassed, selected, card, requests, store, tested, disturbed>>

AutoSaveTimer ==
  /\ AutoSave \in timers
  /\ CanSend
  /\ timers' = timers \ {AutoSave}
  /\ requests' = requests \cup {collectAndSave(page)}
  /\ Overlap
  /\ UNCHANGED <<page, testPassed, selected, card, store, edits, tested>>

-----------------------------------------------------------------------------
(* The server                                                              *)

\* What the controller keeps of a list: one endpoint per url, at most MaxEndpoints.
Kept(s) ==
  LET Dedupe(acc, ep) == IF ep.url \in Urlset(acc) THEN acc ELSE Append(acc, ep)
      unique == FoldLeft(Dedupe, <<>>, s)
  IN  SubSeq(unique, 1, IF Len(unique) < MaxEndpoints THEN Len(unique) ELSE MaxEndpoints)

Advance(r, step) == requests' = (requests \ {r}) \cup {[r EXCEPT !.step = step]}

SaveSettings(r) ==
  /\ r.kind = "settings" /\ r.step = "sent"
  /\ store' = [endpoints |-> [p \in Platforms |-> Kept(r.endpoints[p])],
               events |-> r.events, tuning |-> r.tuning]
  /\ Advance(r, "saved")
  /\ UNCHANGED <<page, testPassed, selected, card, timers, edits, tested, disturbed>>

SavePlatformRead(r) ==
  /\ r.kind = "platform" /\ r.step = "sent"
  /\ requests' = (requests \ {r}) \cup {[r EXCEPT !.step = "read", !.read = store]}
  /\ UNCHANGED <<page, testPassed, selected, card, timers, store, edits, tested, disturbed>>

SavePlatform(r) ==
  /\ r.kind = "platform" /\ r.step = "read"
  /\ store' = [r.read EXCEPT !.endpoints[r.platform] = Kept(r.endpoints[r.platform])]
  /\ Advance(r, "saved")
  /\ UNCHANGED <<page, testPassed, selected, card, timers, edits, tested, disturbed>>

\* The request fails before the row is written.
RefuseSave(r) ==
  /\ r.kind # "test" /\ r.step \in {"sent", "read"}
  /\ Advance(r, "refused")
  /\ UNCHANGED <<page, testPassed, selected, card, timers, store, edits, tested, disturbed>>

-----------------------------------------------------------------------------
(* The answers                                                             *)

\* The answer of a test unlocks Save for whatever the add row holds by then.
TestAnswered(r, ok) ==
  /\ r.kind = "test"
  /\ testPassed' = [testPassed EXCEPT ![r.platform] = ok]
  /\ card' = [card EXCEPT !.canSave = IF r.platform = selected THEN ok ELSE @,
                          !.canTest = @ \/ r.onCard]
  /\ requests' = requests \ {r}
  /\ tested' = IF ok THEN [tested EXCEPT ![r.platform] = r.ep] ELSE tested
  /\ UNCHANGED <<page, selected, timers, store, edits, disturbed>>

SaveAnswered(r) ==
  /\ r.step = "saved"
  /\ IF r.op = "add"
       THEN /\ testPassed' = [testPassed EXCEPT ![r.platform] = FALSE]
            /\ renderPlatformCards(selected, page.endpoints, testPassed', requests \ {r})
       ELSE requests' = requests \ {r} /\ UNCHANGED <<testPassed, card>>
  /\ UNCHANGED <<page, selected, timers, store, edits, tested, disturbed>>

\* Mutant of UndoAdd: a refused add stays on the page.
UndoAdd_Nothing(s, ep) == s

\* Roll an add back by its url.
UndoAdd(s, ep) ==
  LET at == {i \in DOMAIN s : s[i].url = ep.url}
  IN  IF at = {} THEN s ELSE RemoveAt(s, CHOOSE i \in at : \A j \in at : i <= j)

\* Roll a removal back at the index it had then (splice clamps it).
UndoRemove(s, ep, i) == InsertAt(s, IF i > Len(s) + 1 THEN Len(s) + 1 ELSE i, ep)

\* Mutant of SaveFailed: the rollback is not rendered.
SaveFailed_KeepsRows(r) ==
  /\ r.kind # "test"
  /\ r.step \in {"saved", "refused"}
  /\ disturbed' = (disturbed \/ r.step = "saved" \/ r.op \in {"secret", "settings"})
  /\ page' = [page EXCEPT !.endpoints[r.platform] =
               CASE r.op = "add"    -> UndoAdd(@, r.ep)
                 [] r.op = "remove" -> UndoRemove(@, r.ep, r.at)
                 [] OTHER           -> @]
  /\ requests' = requests \ {r}
  /\ UNCHANGED <<card, testPassed, selected, timers, store, edits, tested>>

\* A refused save, or an answer lost to the timeout whatever the server did.
SaveFailed(r) ==
  /\ r.kind # "test"
  /\ r.step \in {"saved", "refused"}
  /\ disturbed' = (disturbed \/ r.step = "saved" \/ r.op \in {"secret", "settings"})
  /\ page' = [page EXCEPT !.endpoints[r.platform] =
               CASE r.op = "add"    -> UndoAdd(@, r.ep)
                 [] r.op = "remove" -> UndoRemove(@, r.ep, r.at)
                 [] OTHER           -> @]
  /\ IF r.op \in {"add", "remove"}
       THEN renderPlatformCards(selected, page'.endpoints, testPassed, requests \ {r})
       ELSE requests' = requests \ {r} /\ UNCHANGED card
  /\ UNCHANGED <<testPassed, selected, timers, store, edits, tested>>

-----------------------------------------------------------------------------
CONSTANTS InitialSettings
ASSUME InitialAssumption ==
  InitialSettings \in [endpoints : {f \in [Platforms -> Seq(Endpoint)] :
                                      \A p \in Platforms : Kept(f[p]) = f[p]},
                       events : [Platforms -> Subscription], tuning : Tunings]

Init ==
  /\ store = InitialSettings
  /\ page = store
  /\ testPassed = [p \in Platforms |-> FALSE]
  /\ selected \in Platforms
  /\ card = renderPlatformDetail(selected, page.endpoints, testPassed)
  /\ timers = {}
  /\ requests = {}
  /\ edits = 0
  /\ tested = [p \in Platforms |-> Empty]
  /\ disturbed = FALSE

UserOperation ==
  \/ \E p \in Platforms : SelectPlatform(p)
  \/ \E ep \in Endpoint \cup {Empty} : EditStaged(ep)
  \/ testStagedEndpoint
  \/ saveStagedEndpoint
  \/ \E i \in 1..Len(card.rows) : RemoveEndpoint(i)
  \/ \E i \in 1..Len(card.rows), s \in Secrets : EditSecret(i, s)
  \/ \E p \in Platforms, e \in Events : ToggleEvent(p, e)
  \/ FollowGlobalReset
  \/ \E t \in Tunings : EditTuning(t)

Serve(r) == SaveSettings(r) \/ SavePlatformRead(r) \/ SavePlatform(r) \/ RefuseSave(r)

Answer(r) == TestAnswered(r, TRUE) \/ TestAnswered(r, FALSE) \/ SaveAnswered(r) \/ SaveFailed(r)

Next ==
  \/ UserOperation
  \/ \E p \in Platforms : schedulePlatformSave(p)
  \/ AutoSaveTimer
  \/ \E r \in requests : Serve(r) \/ Answer(r)

Spec == Init /\ [][Next]_vars

-----------------------------------------------------------------------------
TypeOK ==
  /\ page \in Settings /\ store \in Settings
  /\ testPassed \in [Platforms -> BOOLEAN]
  /\ selected \in Platforms
  /\ card \in [rows : Seq(Endpoint), staged : Endpoint \cup {Empty},
               canSave : BOOLEAN, canTest : BOOLEAN]
  /\ timers \subseteq Platforms \cup {AutoSave}
  /\ requests \subseteq
       [id : 1..MaxInFlight, kind : {"test", "platform", "settings"},
        platform : Platforms, op : {"test", "add", "remove", "secret", "settings"},
        ep : Endpoint \cup {Empty}, at : Nat, onCard : BOOLEAN,
        step : {"sent", "read", "saved", "refused"},
        endpoints : [Platforms -> Seq(Endpoint)],
        events : [Platforms -> Subscription], tuning : Tunings, read : Settings]
  /\ edits \in 0..MaxEdits
  /\ tested \in [Platforms -> Endpoint \cup {Empty}]
  /\ disturbed \in BOOLEAN

\* Every row of the visible card stands for the endpoint its index denotes in
\* the page's list, whatever adds, removals and rollbacks are in flight: the
\* trash and secret handlers go by that index.
RowsDenoteEndpoints == IsPrefix(card.rows, page.endpoints[selected])

\* Once nothing is in flight or debounced, what the server keeps is what the
\* page shows, when no write overlapped another and every failed one could be
\* undone: the rollbacks restore exactly the persisted lists.
EndpointsPersisted ==
  requests = {} /\ timers = {} /\ ~disturbed =>
    /\ store.tuning = page.tuning
    /\ \A p \in Platforms : store.endpoints[p] = Kept(page.endpoints[p])

\* "Adds the tested endpoint": what is sent to be added is what the last passed
\* test of the platform was run with.
OnlyTestedIsAdded ==
  [][\A r \in requests' : r.op = "add" /\ r \notin requests /\ r.step = "sent"
        => r.ep = tested[r.platform]]_vars
=============================================================================
