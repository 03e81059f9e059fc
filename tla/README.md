# OneMinute in TLA+

OneMinute pairs strangers for a one-minute video encounter, lets them extend it,
and makes a durable connection of it when both ask for one; people who are
connected write to and call each other.  This directory specifies the servers
that decide all this and the browser clients that act on it, checks them with
TLC on small instances and proves the core with TLAPS for any number of users,
sockets and encounters.

All paths below are relative to `src/`; `discovery/` is
`apps/server/internal/discovery/`, and so on.  `PROJECT.json` lists the source
lines of every definition, the runs, the faulty variants that each property
detects, the hazards and the findings.

## The system

| Part | State | Operations | Interacts with |
| --- | --- | --- | --- |
| Encounter store, `discovery/store.go` | Redis: presence, queue and preferences, user-match, match, recent, two deadline schedules | one Lua script per operation, each atomic; TTLs | called by sockets, the block endpoint and the sweeper of every server instance; tells clients by Pub/Sub |
| Discovery sockets, `discovery/handler.go` | a handler per WebSocket | take presence, recover an encounter, serve frames, deferred Disconnect | several Redis and PostgreSQL calls per frame |
| Matchmaker, `discovery/handler.go`, `store.go` | what a search has read so far | list, filter, rank, two passes, claim | queue and blocks, which change while it reads |
| Relationships, `discovery/repository.go`, `social/social.go` | PostgreSQL: encounters, connections, blocks, reports | persist a connection; block, unblock, report, remove | reads encounters in Redis, ends them |
| Calls, `communication/calls.go` | Redis: call, busy key of each party, with TTLs | invite, accept, decline, heartbeat, signals, end | connections, notifications |
| Messages, receipts, notifications, `communication/handler.go` | PostgreSQL, events by Pub/Sub | send with client id, acknowledge, list | connections, settings |
| Moments, `communication/moments.go` | PostgreSQL | post, list, delete, clean up | connections |
| Sessions, `auth/auth.go` | users, identities, hashed sessions | login, current, revoke | every request |
| Signaling lab, `signaling/lab.go` | Redis rooms with two slots | create, join, signal, leave | `web/lib/webrtc/lab-session.ts` |
| Discovery page, `web/components/discovery/discovery.tsx` | refs of socket, streams, peer connection, candidates; what is shown | handle events one by one; join, skip, leave, change the camera | discovery sockets, `processed-camera.ts` |
| Call overlay, `web/components/communication/video-call.tsx`, `runtime.tsx` | per tab: phase, devices, peer connection | ring, accept, negotiate, time out, hang up | calls, the event socket |
| Conversation, `web/components/communication/messages.tsx`, `runtime.tsx` | the thread shown, a draft, a retry | load, send, page back, acknowledge | messages |
| Lab page, `web/components/video/lab.tsx`, `lib/webrtc/lab-session.ts` | one view per tab, one session after another | join, negotiate, leave, fail | signaling lab |
| Cameras, `web/lib/webrtc/processed-camera.ts` and helpers | a capture and its frame loop | capture, draw, stop | browser |
| Other pages, `apps/web/` | React state | one request each | all of the above |
| TURN, ICE, RTC probe, config, transport, migrations, scripts | none of the domain's | I/O | |

What is hard in it: several server instances and several sockets of one user
act at once; only a single script or transaction is atomic, and most handlers
are three or four of them in a row; six kinds of TTL and deadline race with one
another and with the sweeper; sockets fail and servers die between any two
calls; PostgreSQL and Redis are written one after the other; and only a user's
join starts a search, so nothing is tried twice by itself.  In the browser every
handler awaits something (a permission, a request, a description being set),
and buttons, timers, a closing socket and the next event do not wait for it.

What makes each part correct:

* Store: the keys of one encounter agree with one another and with the two
  schedules; nobody is queued and paired at once; votes count only in time and
  only together; every encounter ends; nothing is left behind.
* Sockets: presence belongs to a handler that gives it back; who is served is
  not being given up on; who is lost is on the schedule, once.
* Matchmaker: whoever could be paired is; the best candidate is preferred;
  blocks and private intents are respected when the claim is made.
* Relationships: a connection has two votes and outlives its encounter; an ended
  one stays ended; a block prevails.
* Calls: one call per user, both parties agree on it, busy users become free.
* Messages: one row per client id, receipts never go back, none after an end.
* Lab: two slots, one leave; who is left learns it.
* Clients: devices and connections are released whenever what they were for is
  over, whatever was awaited then; what is shown is what the server holds, in
  the end; candidates, events and answers may come early, late or never.
* Moments, sessions: only the owner's or a connection's, none after expiry.

## Modules

| Module | Models | Extends |
| --- | --- | --- |
| `EncounterStore` | every script of `store.go` that changes state, TTLs, deadlines, the sweeper's scripts | |
| `Encounter` | what an encounter is to its two people: the abstract specification | |
| `EncounterStoreProofs` | theorems about the store, and that it implements `Encounter` | `EncounterStore`, `TLAPS` |
| `DiscoverySocket` | `Handler.socket`, one Redis call a step | `EncounterStore` |
| `DiscoverySocketProofs` | theorems about it, and that it implements the store | `DiscoverySocket`, `EncounterStoreProofs` |
| `Matchmaker` | `tryMatch`, `Candidates`, `claimCandidate`, `compatible` | `EncounterStore` |
| `MatchmakerProofs` | theorems about searches, and that they keep to the store | `Matchmaker`, `EncounterStoreProofs`, `FiniteSetTheorems` |
| `Relationships` | the connect vote's handler, `PersistConnection`, block, unblock, report, remove | `EncounterStore` |
| `RelationshipsProofs` | theorems about connections, and that their handlers keep to the store | `Relationships`, `EncounterStoreProofs` |
| `Calls` | `calls.go`: invitations, busy leases, requests about a call | |
| `CallOverlay` | the tabs of the two parties of a call, over what `Calls` says of it | |
| `CallsProofs` | theorems about calls, on the server and in the tabs | `Calls`, `CallOverlay`, `TLAPS` |
| `ProcessedCamera` | `processed-camera.ts`: captures, the frame loop, frames | |
| `DiscoveryClient` | the discovery page and what the server does for it | `ProcessedCamera` |
| `DiscoveryClientProofs` | theorems about its captures and about what it shows | `DiscoveryClient`, `SequenceTheorems`, `TLAPS` |
| `Conversation` | a thread in a tab, with the handlers of messages and receipts | |
| `ConversationProofs` | theorems about retries, receipts and ends | `Conversation`, `FiniteSetTheorems`, `TLAPS` |
| `LabRoom` | a room of the lab on the server | |
| `LabSession` | the sessions of the lab's tabs | `LabRoom` |
| `LabSessionProofs` | theorems about sessions, views and the order of messages | `LabSession`, `SequenceTheorems`, `TLAPS` |
| `MC...` | symmetry, views and constraints for TLC | each of the above |

### EncounterStore

The seven variables are the keys of `store.go`.  `queue[u]` stands for the
member of the sorted set and the hash entry of preferences together, because
all scripts write the two together; the order of the queue is the `Matchmaker`'s
concern.  An encounter's hash is the record `match[m]`, `Missing` when there is
none: `extend` and `connect` are the users with a vote, `created` is
`connectPersisted`, `gone[u]` the field `disconnected:u`, `left` the time to
`expiresAt`.  An action is a script; its guard is the script's early returns.
A script that returns early changes nothing, and there is no action for that.

A key with a TTL holds the ticks it has left.  A deadline holds the ticks to
go and is due at 0, where the code compares `<= now`.  `Tick` takes one from
all of them, so that a behaviour may go on for ever in finitely many states.
A script gets its clock as an argument from its caller; calls are taken to be
much shorter than a tick, and clocks of instances to agree.  `recentTTL`, far
longer than all other spans, is not counted: a pair stops being recent whenever
it likes.

`Next` takes every script with any arguments (`Claim` with any two waiting
users, `PublishConnection` at any time): the modules that compose it restrict
them to what the callers do.  What is proved of the store thus holds whatever
its callers do.

`Seen` is what of a hash two people can tell: its parties, whether the minute
runs, is over or was extended, the votes and whether a connection was published.
`Encounter` has six steps for that (`Meet`, `WantMore`, `WantContact`, `Link`,
`RunOut`, `End`), and no clocks, keys or sockets; `StoreImplementsEncounter` is
its specification with `Seen` of every hash.  A tick may let several encounters
run out at once, which is why `EncounterNext` has a step for each.

### DiscoverySocket

`sock[u][c]` is the handler of socket `c` of user `u`: the phase its code is in,
the encounter it has read but not yet recovered, and the time to its read
timeout.  `Accept` subscribes and takes presence over; `ReadUserMatch` and
`ReadHash` are the two reads of `CurrentMatch`; `Recover` calls `Reconnect` and
closes when refused; `Beat`, `Join`, `Ask` and `Chat` are the frames; `Close` is
the deferred `Disconnect`, `Fail` an error or a vanished client at any step,
`Crash` a dead server or a cleanup that does not reach Redis, after which the
socket is "dead" and its presence is left to its TTL.  The clock passes
only while all handlers wait for a frame.  The steps of a search and of a
persistence are coarse here: `Search` may claim whatever the store permits, and
`PublishConnection` may come at any time; `Matchmaker` and `Relationships` have
the detail.

### Matchmaker

`line` is the order of the sorted set, as a relation: `<<v, u>>` when both wait
and `v` joined before `u`.  `wants` holds the preferences.  `search[u][c]` is a
call of `tryMatch`: the order it has read, the `ids` whose entries are still to
be read, the entries read (`list`), the pass and the candidates left in it, and
the candidate it is `at`.  Each Redis or PostgreSQL call is a step: `List` (ZRANGE),
`ReadEntry` (HGET), `ReadPresence` (GET) and `Clean` (the cleanup script) of one
entry after the other, `CheckRecent`, `Judge` (`EligiblePair`) and `TryClaim` of
one candidate after the other.  Between them `Rank` drops those that are not
compatible; `Ahead` is the order of the sort, and a pass tries the candidate that
is ahead of all that it has left.  The clock does not pass.  Entries that joined in
the same millisecond, which Redis orders by id, are taken to be in the order of
their scripts.  `MatchmakerAssumption` says that a search reads at least one entry
and that interests are finite sets, so that they can be counted.

### Relationships

`rows[m]` is the row of table `encounters` with the id of encounter `m` and the
connection that references it, at most one by `encounter_id UNIQUE`; `Linked`
is the active-pair index.  `votes[u][c]` is a connect vote's handler between its
four calls, `asks[u]` a block or report request between its calls.  Each step
may be the last (`VoteStops`, `AskStops`, `PersistFails`).  Ids of encounters
are not used twice, so `Claim` wants one that no row and no request mentions.

A vote in flight may write its row when the encounter is over and its hash gone.
`met[m]` is therefore a history that no step reads: who met in the encounter that
had the id last, and who had voted for a connection when it was last there
(`Remember`, a conjunct of the next-state relation).  `LinkedByMutualVotes`
compares the rows with it at any time: a connection is of an encounter that took
place, its pair are the two who met, and both had voted.

### Calls

`call[c]` is the hash of a call and `busy[u]` the lease of a user, each with the
ticks left; a key that runs out is `Gone` or `Free`.  `links` are the pairs that
`peer` accepts.  `reqs` are the requests under way, each with what it has read
and the step that comes next: an invitation looks up its connection, runs its
script, writes the notification and, if that fails, deletes its keys (`Undo`);
any other request reads the call, looks up the connection (`CheckPeer`, which
makes an end of it if there is none) and runs its script.  A request may stop
after any step (`Stop`).  `talkTTL` and `ringTTL` are the two TTLs of a call;
both leases last `slack`, five seconds, longer.

Requests that are equal in all respects are one in `reqs`: the second would find
what the first leaves.  The clock stops while a notification is written or given
up on (`Inserting`), as `Undo` deletes the leases whatever they hold: a
PostgreSQL that takes fifty seconds to fail would let it free a user who is in
another call by then.  This is a limit of the code, not of the model, and the
hazard at `calls.go:49` names it.

### CallOverlay

`tab[t]` is the overlay of a tab: what is shown, `dead`, how far `setup` and the
handler of an event have come, what is held, the descriptions set, candidates
that wait, and the events not yet handled.  `srv` is the call on the server as
`Calls` has it, without its clock: it lapses when it may.  `ends` are the
requests to end it that are under way.  An action ends where the code awaits;
`Cleanup` also resets what a dead overlay never looks at again, which keeps
behaviours finite.  The callee's tabs are rung by the same event and are told
of an acceptance by the same event; events to a tab come in order, and are lost
while its socket is closed.  A second press of Accept while the devices are
asked for (`twice`) sends the accept at once, as the code's `started` has it.
A camera that is attached after the call is over stays on ("late",
`video-call.tsx:313`): the properties allow that one camera and no other.
Muting, the notices about the other's camera, dragging and layout are left out.

### ProcessedCamera and DiscoveryClient

`cam[c]` is a capture with its loop: over the stream of frames of a browser that
has one, or a canvas.  `stop` ends input and output; the loop notices at its next
frame.  The page's `chain` is the handler of the event at hand and what it waits
for; `swap` is `switchCamera`, which waits beside it.  `fresh` is whether
`mediaGeneration` is still what it was when the wait began.  `capture`, `raw` and
`local` are the three refs: the microphone goes with `raw`.  `Server` has the
server's side: it serves the page's frames in order, claims, ends an encounter
at any time, recovers one with a new socket and sends the events that
`handler.go` and the scripts send.  A socket subscribes (`handler.go:71`) before it
looks for the encounter it brings back (85), and what was published in between is
delivered behind that (94): `Open` puts behind the greeting and the recovered
encounter `m` a second announcement of `m`, and the end of an encounter of
the user's last socket, with its announcement or without.  Such an end is an event
"over" of the model, to tell it from the ends that a socket has in order; to the page
both are `match.ended`.  Signals of that encounter, and more than one such
encounter, are left out.  What was published while the socket opened is taken to be
written before the answer to the page's first request: the forwarder starts before
the loop that reads requests, and their answers wait for Redis.  A camera that is attached after its encounter
ended (`discovery.tsx:148`) is `late`; a change that completes after the next
encounter has acquired its own camera stops that one.

### Conversation

`log` is table `messages` of one connection: client ids, in the order of their
ids, which is the order of their commits because the insert holds the
connection's row `FOR UPDATE`.  `posts` are the requests to send, `receipts`
those to acknowledge, each on its way through its handler; `thread` is what
`messages.tsx` shows and loads.  Any request may fail or lose its answer
(`failures` bounds how many), and the connection ends at any moment.  `seen` and
`tries` are histories for two properties: what has been on the screen, and the
client ids used for a text until an answer came.  Since ticks are derived from the
cursors, the peer's own reading and its display of ticks are left out.

### LabRoom and LabSession

`room`, `present` are the keys, `mail` what is published to a connection and not
forwarded, `up` and `down` its socket.  A handler subscribes, claims, sends
`connection.ready` and only then forwards.  A handler may fail, a server die, a
publication be lost; keys expire, presence only when its holder does not renew
it.  Heartbeats that find room and presence change nothing and are left out.
`session[i]` are the fields of a `LabSession`, `view[t]` what all sessions of a
tab write into, `current[t]` the one a tab holds.  Sessions start in their order,
the first in the first tab.

## Runs

Times on two cores.  Bounds: TTLs are 1 to 3 ticks, in the code's order
where order matters (`presenceTTL` < `matchTTL`, `encounterLength` and
`reconnectGrace` below `matchTTL`); each is long enough to be renewed half-way
and to run out before, at and after the others.  Users, sockets and encounters
are symmetric.

| Run | Bounds | Checks |
| --- | --- | --- |
| `store_safety` | 2 users, 2 sockets, 2 encounters | `TypeOK`, `MappedToLiveMatch`, `QueuedIsUnmatched`, `SchedulesAgree`, `StoreImplementsEncounter` |
| `store_liveness` | 2 users, 2 sockets, 1 encounter | `EncounterEnds`, `AbandonedIsCleared` |
| `socket_safety` | 2 users, 2 sockets, 1 encounter, three handlers at once | `ServedIsNotTimed`, `PresenceIsHandled`, `CleanupIsOwn` |
| `match_pairs` | 2 users, 2 sockets each, 2 intents that exclude each other, two searches at once | `NoMissedPair` |
| `match_best` | 3 users, 3 preferences that share none, one or two interests, one search at a time | `BestIsClaimed` |
| `calls_leases` | 3 users, 2 calls, two requests at once | `LeaseOutlivesCall`, `OneCallEach`, `FreedInTime`, `UnlinkedCallEnds` |
| `relations_safety` | 2 users, 1 encounter, two requests in flight | `LinkedByMutualVotes`, `PublishedIsPersisted`, `EndedStaysEnded` |
| `overlay_tabs` | a caller's tab and two of the callee, a video call; one side finds candidates, one tab's user is restless | `DeadHoldsNothing`, `OneTabTalks`, `NoCandidateWaits`, `OverIsOver`, `AnswerLeadsSomewhere` |
| `overlay_told` | the same, nobody restless | `ToldDoesNotCancel`: violated |
| `discovery_page` | 2 encounters, one of them offered by the page; 2 captures, one of each kind; one change of camera | `CaptureIsTended`, `CamerasAreOwned`, `EndIsOfThisEncounter`, `CandidatesAreAdded`, `PageShowsTheServer`, `EndIsShown` |
| `conversation_tab` | 3 messages, pages of 1, one read before; one text, 2 client ids, 1 failure | `ReadWasShown`, `RetryStoresOnce`, `EndedStaysQuiet`, `EarlierIsOffered`, `MessageIsShown`, `NoticeGoesAway` |
| `lab_tabs` | 2 sessions, 2 tabs, 1 fault of the server, 1 candidate that may wait | `EndedHoldsNothing`, `ViewIsOfTheSession`, `PeerIsThereInTime`, `EndIsLearned` |

Two users are the two sides of a pair; a third appears where a choice between
candidates (`match_best`) or two calls that share a user (`calls_leases`) matters.  Two
sockets are the old and the new one of a reconnect.  In `store_safety` a second
encounter can be under way when the first has not been swept.

Of the clients: two tabs of the callee race to accept, and the caller's tab is
the peer of both.  `Restless` (who presses Accept twice and changes the camera)
and `Trickling` (who finds a candidate) name the tabs that do what multiplies
states; the tabs of the callee are alike, so that one of them is enough, and a candidate of
the caller meets both a tab that waits for the offer and one that lost the race.
Two encounters are the one that ends and the one that a skip or a join brings
next; a capture of a stopped camera can be used again, so that two are the one
in use and the one that is awaited.  `MaxRequests` and `MaxEvents` are the messages on their
way, each of which can overtake a wait of the page; while a change of the camera
is under way no more messages are sent than that allows.  With pages of one
message, an earlier page, the page on the screen and a new one are three
messages, and a retry, a change of mind and an answer lost need two client ids and one failure.
Two sessions are the two peers of a room, in two tabs, or a session and
the next one of its tab; `MaxPending` is reached, and refused, with one candidate.

Views and constraints, all in the `MC` modules: `WithoutRecent` hides `recent`
where every claim is made with `allowRecent` as well; `WaitingWants` hides the
preferences of users who do not wait; `Relevant` hides `recent`, what only the
other properties ask of an encounter, and dead sockets without presence; `ThreeHandlers`, `TwoSearches`,
`TwoRequests` and `TwoInFlight` bound what is under way at once.

Deadlock: on the server the clock, or a new socket, always has a step.  The runs
of the clients turn its check off, because a client really may stop: a closed
overlay, a page that was left, a conversation that ended, rooms used up.

Fairness.  `FairSpec` has the clock go on
and the sweeper get to every member that stays due: `Handler.Run` sweeps every
half a second on every instance until the server stops, each sweep reads the
due members in order of their deadlines and tries each one, and members that
are done leave.  Nothing is assumed of users, sockets or votes.
`FairCallsSpec` has the clock go on (strongly, as it stops at invitations) and
every invitation end: both hold of Redis' expiry and of a request.  Nothing is
assumed of clients: `UnlinkedCallEnds` holds with heartbeats that never stop.
`FairOverlaySpec` has the timers of a live overlay fire, its heartbeats be
answered, the keys of a call run out and requests to end it be answered or
lost: `setTimeout`, `setInterval`, TTLs.  A permission prompt may stay open for
ever, a socket closed, a peer silent.  `FairDiscoverySpec` has the page's chain go on: an
event that has come is handled, and what the handler awaits settles.  For a
permission prompt that is an assumption about the user; without it the code
shows nothing more, as the hazard at `discovery.tsx:104` says.  `FairTalkSpec` has the interval
load, a load be answered or fail, and a receipt arrive or be lost; `fetch` has no timeout in this
code, so that this is the browser's.  Failures are bounded (`MaxFailures`): after the last
one, the five-second interval does what an event would have.  `FairLabSpec` has the handlers and the
forwarder of a room go on, its key expire, and each session handle its messages,
send its heartbeat, and see its socket open or close.

Within the bounds on what is under way all behaviours are checked, and those
that exceed them are not.

### Where the code does not do what its documents say

`overlay_told` ends in a counterexample: a tab that was told that another tab
answered can still end the call, by Escape on its dialog (`video-call.tsx:361`)
or when the camera it had asked for is refused (`video-call.tsx:127`), where
`docs/architecture/communication.md:17` says that the callee's other tabs
"cannot later cancel an already answered call".

The models show the following as well; TLC finds each within seconds when
the property named is checked.

* `docs/matchmaking/algorithm.md:14`, a claim rejects existing matches: in an
  extended encounter the peer stays away for five minutes; their key to it
  lapses, the encounter does not, and `EncounterStore` claims them for a second.
* `docs/signaling/protocol.md:14` and `docs/verification.md:141`, no return after the grace: a socket connects
  when the grace is over but not swept; refused or failed, it closes, and its
  `Disconnect` writes a new grace (`DiscoverySocket`).
* `docs/matchmaking/algorithm.md:14`, a new block stops a claim: one that is
  written between `EligiblePair` and `Claim` does not (`Matchmaker`).
* `docs/matchmaking/algorithm.md:4`, dating is mutual: a listed candidate joins
  again with another intent and is claimed for the old one (`Matchmaker`).
* `docs/architecture/state.md:17`, a block supersedes a connection: a connect
  vote already past its reads inserts an active connection after the block
  (`Relationships`).
* `docs/matchmaking/algorithm.md:8`, a sparse queue does not stall: a recent key
  that lapses between the two passes of a search hides its pair from both
  (`handler.go:242`).  `NoMissedPair` therefore has recent keys lapse between
  searches (`BusyNext`); with a lapse at any time TLC finds it violated.
* `docs/verification.md:137`, a reservation for every disconnected participant:
  a client that sends other frames than heartbeats, or a server that dies, loses
  presence before the read timeout, and the deferred `Disconnect` is refused.
* `docs/verification.md:136`, Leave ends without requeueing: after Next and then
  Leave the page queues again, as Leave does not take back the wish of Next
  (`DiscoveryClient`; no property speaks of it).
* `docs/architecture/communication.md:11`, recovery through HTTP: when more than
  a page of messages comes while a client is offline, the ones between what it
  shows and the newest page are never loaded (`MessageIsShown` leaves them out).

Smaller things the client models allow, which no document denies:

* A camera whose `replaceTrack` completes after the call or the encounter ended
  stays on until the page goes, in both clients.
* `messages.tsx`: a load that is refused empties the thread and keeps
  `olderExhausted`; an answer wipes what was typed meanwhile (234); a text
  that is sent, changed and sent again in its first form has a new client id;
  `older` puts a page in front without looking for what is there (260); a read
  receipt that is lost when the message is more than a page back leaves its
  notification.
* `discovery.tsx`: the candidates that wait are not bounded when the user
  refuses the camera; `match.ended` is applied to whatever encounter is in view,
  which is right only because the server sends it to those in it and in order.
  The exception is an end that was published while the socket was opening: it may
  come when another encounter has been recovered, take down its view and its media
  and, after Next, spend the wish for a new search.  That encounter has been announced since
  the socket subscribed, so it is found and started once more behind the end
  (`EndIsOfThisEncounter` says both).
* Lab: a server that dies leaves presence for forty seconds, so that a second
  peer is matched with nobody until the room expires; a socket's `onclose` may
  overtake a `match.ended` in the chain, and the view says "error" for "ended";
  joining while a room is being created shows the new room's code.

## Proofs

The theorems hold for any values of the constants that satisfy the named
assumptions of the modules, infinite sets included
(the two about the queue excepted, below): the missing ids and texts
are not ids and texts, TTLs, timeouts, page sizes and bounds are naturals,
positive where nothing works with 0, and nothing of the order of the spans is
needed.  `DiscoveryAssumption` also says that ids of encounters are not the
words "absent", "idle" and "queued": `srv` holds either, and the code keeps
them apart by their fields.

*The store.*  Three inductive invariants, each preserved by one lemma per
action:

* `MapInv == TypeOK /\ OnlyPartiesAct /\ MappedToLiveMatch /\ QueuedIsUnmatched`.
  `MappedToLiveMatch` is inductive only with its clause about TTLs: the key
  leads to a live encounter after a tick because the encounter outlives the key.
  `OnlyPartiesAct` says that an encounter with no TTL left is `Missing`, which
  makes a fresh id fresh.
* `ConsentInv` adds `ConsentIsMutual`: a vote is a party's, so votes of all
  parties stay all votes.
* `SchedulesAgree` with `TypeOK` and `OnlyPartiesAct`: deadline, grace and their
  copies in the encounter are written by the same scripts and count down
  together.

`StoreTypes`, `StoreMapping`, `StoreQueue` and `StoreSchedules` state the
invariants of `store_safety` as `Spec => []...`.  `StoreConsent` and
`StoreDueIsFrozen` (when the minute is over, votes change no more until the
sweeper ends the encounter) are proved and not run: both are part of what
`StoreImplementsEncounter` says.

*The sockets.*  `SocketImplementsStore`: every step of `SocketNext` is a step of
`Next` or leaves the store alone, so `SocketSpec => Spec` and all of the above
holds under sockets.  `SocketServed` proves `ServedIsNotTimed`.  It is not
inductive: a handler gets to `serving` over the phases of the recovery, and
between its reads the sweeper, another claim or another socket may act.
`ReliableInv` adds what each phase may rely on (`Onward`): while the socket
still speaks for the user, an encounter the user is in that was not the one read
was claimed after presence was taken, and nobody has been missed in it.

`SocketPresence` proves `PresenceIsHandled`, which is inductive over the types:
no script but `Connect` gives presence to a socket, and a handler leaves by its
`Disconnect` or dies.  `SocketCleanup` proves `CleanupIsOwn`, of each step: presence goes
from a socket only by its own closing, by another's connecting or by running out, and a
grace is written only by the closing of the socket that had presence.

*Searches.*  `SearchesImplementStore` proves `BusySpec => Spec`: a search claims and
cleans up by the store's scripts, whatever it has read before.

`SearchesMissNobody` proves `NoMissedPair`.  What it says of two users who both wait
and do not search is not inductive.  `PairsInv` says what holds while they do: of any
two who wait one joined last (`LineOrdersWaiters`), and owes the other a try
(`Owes`).  `LastOneTries` has the search of who joined last keep every user it owes
still before it (`StillToTry`): the entry is to be read, or is read, or is left in
this pass, or is recent and left for the second.  It breaks only where a search
drops an entry, and each such place has its reason: an entry is gone or stale only if its
user no longer stands in the queue, a candidate is passed over only if it is blocked,
not compatible, left for the other pass, or not there any more when it is claimed.  That
a candidate joins again while it is looked at is no exception, as it is then the
candidate that owes.  `AsksForUser` says that a search asks for what the queue says,
unless its user has joined on another socket since.

`SearchesClaimBest` proves `BestIsClaimed` of a search that is left alone.  `QuietInv`
says that what such a search has read is still so (`ReadIsSo`): its list is the
entries as they are, the order it has read is that of the line, and the
candidate it is at is ahead of all that are left.  With `PairsInv`, a user whom
the search could claim is still to be tried, so that the one it claims is ahead.

Both assume `AllAreRead`: finitely many users, no more than a search reads.  Behind
the hundredth entry nobody is found, by the code and by the model, and the
hazard at `store.go:77` names it.

*Calls.*  `CallsLease` proves `LeaseOutlivesCall`.  `CallsInv` rests on it, made exact (a lease lasts `slack`
longer than its call, to the tick), adds that a request names the parties of the
call it has read (`ReadItsParties`), so that `Accept`, `End` and `Beat` reach
the leases of that call and no others, and that nobody but the inviter knows a
call whose notification is being written (`OnlyInviterKnows`), so that `Undo`
deletes what `Reserve` wrote.  `CallsOneEach` follows from the leases alone: a
user has one, and every live call of theirs needs it.

*The abstract encounter.*  `StoreImplements` proves `Spec => StoreImplementsEncounter`.
`StepOfHash`, a lemma about the store, sorts what a step does to one hash into a few
kinds (begun, aged, extended, voted, connected, otherwise kept, missing).
`SeenStep` maps each kind to a step of `Encounter` or to none, field by field
(`MeetFields`, `WantMoreFields`, ...).  It rests on `NamedInv`: the types, an encounter whose TTL is over is
`Missing`, and one that is there has a state.  The first two come
from `ConsentAlways`, the last is preserved by the same kinds (`NamedStep`).

*Relationships.*  `RelationsImplementStore` proves `RelationsSpec => Spec`: every
step of the handlers is a script of the store or leaves the store alone.  The
store's `ConsentInv` may therefore be used.  `RelationsInv` adds what PostgreSQL
holds of an encounter while its hash lives and after it: of a vote's handler,
what it may rely on in each phase (`VoteOK`: both have voted, the pair that it is
to write is that of the hash, what it publishes is written), and of a row, that
a connection has two votes behind it and that what is published has been
written (`RowOK`).  What it says of votes it says of the history `met`, which
agrees with the hash while that lives (`MetOK`) and keeps it afterwards
(`MetKept`), so that none of it ends with the hash.  The step that breaks a weaker invariant is a claim under an id
that a late vote still mentions: `EncounterKept` says that an encounter keeps its
parties and loses no vote until it is gone, and `UnknownMatch`, which the claims of
this module require as the code's fresh UUIDs justify, that nobody mentions the
id of a new one.  `RelationsMutual` and `RelationsPersist` follow.  `RelationsEnd`, that an
ended connection stays ended, is about one step and needs the types only.

*The discovery page.*  `DiscoveryTendsCaptures` proves `CaptureIsTended` of the whole page.
Each step of the page makes of every capture one of ten things (`CaptureStep`),
and `StepIsTended` shows that these keep `Tended`: a loop runs exactly in captures
that are sent by frames or were until a stop that it has not noticed.  Nothing is
needed of the page's own state, which is why no order of waits can break it.

`PageInv` is the rest, in two parts.  `OwnInv` makes `CamerasAreOwned` and
`CandidatesAreAdded` inductive: who waits for a camera, an offer or a description
waits for it in time or has been overtaken (`WaitsOK`), and a page without an
encounter or a socket sends nothing and has nobody waiting in time (`BareOK`).
`QueueInv` is about the chain of events.  What a page shows lags behind the server by
the events that it has not handled, so the invariant has to speak of what the
page *will* show: `Foretold` says that there is a course of views, one after each
queued event, which begins at the page's, ends at one that agrees with the
server, and in which each "ended" meets the encounter that it is about, while an
"over" meets that one, none, or one that is found again further on (`EndFits`).
The backlog of a fresh socket is such a course, put together from its last event
to its first (`ForetoldBefore`).  Sending extends the course at its end, handling an event drops its head, and a
search whose answer is overtaken by the encounter it found puts one in
before the last.  From it follow both `EndIsOfThisEncounter`, though the
page does not look at the event's encounter, and `PageShowsTheServer`.

*The overlay.*  `OverlayInv` holds of each tab that a call that is over has nothing but,
perhaps, the camera whose attaching was under way, that only the caller
offers, and that with both descriptions set no candidate waits (`TabOK`).  That no
two tabs talk is a fact of all tabs together (`OneAnswered`): whoever is past its
posts was accepted by the server, after which the call does not ring, and no
other accept is.

*Conversations.*  `RetryInv` says that the attempts of one text have one client
id, that of the pending retry, and that the log has each id once; a request
that is stored late finds its id in the log.  `ReadInv` speaks of the newest page
of the log (`ShownUpTo`): up to a receipt's id every message of the peer in it has been
on the screen.  Old messages leave the newest page and none come back
(`NewestBefore`), and a page that is applied late is the newest of a log that was
shorter (`PageCovers`), so neither order nor loss of receipts and pages breaks it.
`TalkEndsQuiet` is about one step.

*The lab.*  `LabInv` says of a session that what it holds fits together and that an ended one
holds nothing (`SessionOK`), of a tab that its view is its current session's
(`TabOK`), and of the messages under way to a session that nothing
comes before "ready" (`OrderOK`): while it has no peer connection, what it is told
next is "ready" or an error.  The last is what `LabPeerIsThere` needs, over the
queues of the room and of the socket one after the other.

Only model-checked is liveness, which is out of the prover's reach:
`EncounterEnds`, `AbandonedIsCleared`, `UnlinkedCallEnds`, `OverIsOver`,
`AnswerLeadsSomewhere`, `EndIsShown`, `EarlierIsOffered`, `MessageIsShown`,
`NoticeGoesAway`, `EndIsLearned`.

## Not modelled

* `Signal`, profile reads and `connection.ready` of discovery: they change no
  state of the server; their failure is `Fail`.
* `Sweep`'s batches of 100 and its return at the first error: a choice of which
  due member is next, and when.
* Accounts whose status is not active; errors that cut a search short;
  unblocking during a search, which starts no search.
* The table of reports: append-only, read by nothing in the server.
* Moments: one transaction under a lock, one query, two single statements, and a
  page that reloads every fifteen seconds; two hazards of it are listed.
* Sessions: one transaction at login, single statements otherwise.
* The list of conversations, its notices and settings; typing; the countdown,
  chat and reports of the discovery page; muting in a call; statistics, the
  camera switch and rate limits of the lab; the expiry of several rooms.
* Profiles, protocol validation, configuration, transport, migrations, TURN,
  ICE, the probe and the other pages: I/O, pure validation or one request.

## Plan

1. `Moments`: the limit of three under concurrent posts, the audience against
   removals and blocks, a page whose loads overtake its removals.
2. `runtime.tsx`: notices and the list of conversations, whose loads overlap.
