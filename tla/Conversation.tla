---------------------------- MODULE Conversation ----------------------------
(***************************************************************************)
(* One conversation, in the open tab of one of its two people               *)
(* (components/communication/messages.tsx, runtime.tsx) and on the server   *)
(* (communication/handler.go).  The tab writes, retries, loads the newest   *)
(* page when an event or the clock says so, pages backward, and says how    *)
(* far it has read; requests and their answers may be lost, receipts        *)
(* overtake each other, and the peer may end the connection at any moment.  *)
(***************************************************************************)
EXTENDS Naturals, Sequences, FiniteSets

CONSTANTS Texts,           \* what may be written
          NoText,          \* an empty draft
          PageSize,        \* messages of a page: LIMIT 60
          History,         \* messages the peer has sent and the user read before
          Shares,          \* the settings allow read receipts
          MaxMessages,     \* bound: messages stored
          MaxDrafts,       \* bound: client ids made
          MaxFailures      \* bound: requests that fail or lose their answer

ASSUME ConversationAssumption ==
    /\ NoText \notin Texts /\ PageSize \in Nat \ {0} /\ Shares \in BOOLEAN
    /\ {History, MaxMessages, MaxDrafts, MaxFailures} \subseteq Nat /\ History <= MaxMessages

VARIABLES active,          \* connections.ended_at IS NULL
          log,             \* the messages, whose place is their id
          cursor,          \* message_receipts of the tab's user
          notes,           \* the unread notifications of the tab's user
          writing,         \* the composer of the tab
          posts,           \* the requests to store a message, on the server
          thread,          \* what the tab shows and loads
          receipts,        \* the receipts under way
          failures, seen, tries    \* the bound, and two histories

cvars == <<active, log, cursor, notes, writing, posts, thread, receipts, failures, seen, tries>>
server == <<active, log, cursor, notes>>
tabs   == <<writing, thread>>

Nobody == 0                \* no client id
Peers  == Nobody           \* the client id of the peer's messages: any other

Retry(text, client) == [text |-> text, client |-> client]
NoRetry == Retry(NoText, Nobody)

\* Messages of the peer are told by their client id; all others are the tab's.
FromPeer(id) == log[id] = Peers
Stored(client) == \E id \in DOMAIN log : log[id] = client
Newest(ids) == {id \in ids : Cardinality({o \in ids : o > id}) < PageSize}
GreaterOf(a, b) == IF a > b THEN a ELSE b

-----------------------------------------------------------------------------
(* Faulty variants, for the properties to detect: none is part of TalkNext. *)

\* a new client id for each attempt
AlwaysNew(text) == Retry(text, writing.made + 1)

\* takes a full page for the last one
FullIsLast(page) == Cardinality(page) <= PageSize

\* an event's receipt says that the message was read
ReadUnseen(id) == [id |-> id, read |-> TRUE, awaited |-> FALSE]

\* stores what was authorized before
StoresAnyway == TRUE

\* leaves the flag set
StillLoading(t) == t

\* clears the notifications before the message only
ClearedBefore(r) == r.id - 1

-----------------------------------------------------------------------------
TalkInit ==
    /\ active = TRUE /\ log = [id \in 1..History |-> Peers] /\ notes = {}
    /\ cursor = [delivered |-> History, read |-> IF Shares THEN History ELSE 0]
    /\ writing = [draft |-> NoText, sending |-> FALSE, retry |-> NoRetry, made |-> 0]
    /\ posts = {} /\ receipts = {}
    /\ thread = [items |-> {}, load |-> "asked", page |-> {}, more |-> FALSE, spent |-> FALSE,
                 before |-> 0, visible |-> TRUE]
    /\ failures = 0 /\ seen = 1..History /\ tries = {}

Fails == failures < MaxFailures /\ failures' = failures + 1

\* The tab takes over what it is to show from now on.
Shows(t) == thread' = t /\ seen' = seen \cup t.items

(* Writing. *)

Type(text) ==
    /\ text # writing.draft
    /\ writing' = [writing EXCEPT !.draft = text]
    /\ tries' = {}
    /\ UNCHANGED <<server, posts, thread, receipts, failures, seen>>

\* send(): the same text again keeps its client id.
Pending(text) == IF writing.retry.text = text THEN writing.retry
                 ELSE Retry(text, writing.made + 1)
Press ==
    /\ writing.draft # NoText /\ ~writing.sending
    /\ LET pending == Pending(writing.draft) IN
          /\ pending.client <= MaxDrafts
          /\ writing' = [writing EXCEPT !.sending = TRUE, !.retry = pending, !.made = 
                                        GreaterOf(@, pending.client)]
          /\ posts' = posts \cup {[client |-> pending.client, at |-> "asked", awaited |-> TRUE]}
          /\ tries' = tries \cup {pending.client}
    /\ UNCHANGED <<server, thread, receipts, failures, seen>>

\* authorized(): the connection is active, ...
Authorize(p) ==
    /\ p.at = "asked"
    /\ posts' = (posts \ {p}) \cup {[p EXCEPT !.at = IF active THEN "allowed" ELSE "refused"]}
    /\ UNCHANGED <<server, tabs, receipts, failures, seen, tries>>

\* ... is so under its lock, too, and holds the message, once, till the commit.
StillActive == active
Store(p) ==
    /\ p.at = "allowed" /\ Len(log) < MaxMessages
    /\ log' = IF StillActive /\ ~Stored(p.client) THEN Append(log, p.client) ELSE log
    /\ posts' = (posts \ {p}) \cup {[p EXCEPT !.at = IF StillActive THEN "stored" ELSE "refused"]}
    /\ UNCHANGED <<active, cursor, notes, tabs, receipts, failures, seen, tries>>

\* The answer shows the message, empties the draft, whatever is in it by now, and
\* forgets the attempt.
Confirm(p) ==
    /\ p.at = "stored" /\ p.awaited
    /\ posts' = posts \ {p}
    /\ LET id == CHOOSE i \in DOMAIN log : log[i] = p.client IN
          Shows([thread EXCEPT !.items = @ \cup {id}])
    /\ writing' = [writing EXCEPT !.draft = NoText, !.sending = FALSE, !.retry = NoRetry]
    /\ tries' = {}
    /\ UNCHANGED <<server, receipts, failures>>

\* A refusal, or an answer that is lost while the server may still go on.
NotSent(p) ==
    /\ p.awaited
    /\ \/ p.at = "refused" /\ posts' = posts \ {p} /\ UNCHANGED failures
       \/ Fails /\ posts' = (posts \ {p}) \cup {[p EXCEPT !.awaited = FALSE]}
    /\ writing' = [writing EXCEPT !.sending = FALSE]
    /\ UNCHANGED <<server, thread, receipts, seen, tries>>

\* Nobody waits for the answer any more.
Unheard(p) ==
    /\ ~p.awaited /\ p.at \in {"stored", "refused"}
    /\ posts' = posts \ {p}
    /\ UNCHANGED <<server, tabs, receipts, failures, seen, tries>>

(* The peer, and the events of what the peer does. *)

Receipt(id) == [id |-> id, read |-> FALSE, awaited |-> FALSE]
Asks(t) == IF t.load = "idle" THEN [t EXCEPT !.load = "asked"] ELSE t

\* A message of the peer, with its notification.  The event, unless it is lost,
\* says that it is delivered and has the thread load, if it is not loading.
PeerSends ==
    /\ active /\ Len(log) < MaxMessages
    /\ log' = Append(log, Peers)
    /\ notes' = notes \cup {Len(log')}
    /\ \/ UNCHANGED <<thread, receipts>>
       \/ /\ thread' = Asks(thread)
          /\ receipts' = receipts \cup {Receipt(Len(log'))}
    /\ UNCHANGED <<active, cursor, writing, posts, failures, seen, tries>>

\* receipt(): cursors only advance.
Advance(c, id, read) ==
    [delivered |-> GreaterOf(c.delivered, id),
     read |-> GreaterOf(c.read, IF read /\ Shares THEN id ELSE 0)]

\* Removed by either, or blocked.
EndConnection ==
    /\ active
    /\ active' = FALSE
    /\ UNCHANGED <<log, cursor, notes, tabs, posts, receipts, failures, seen, tries>>

(* Loading the newest page. *)

\* Every five seconds, when the tab comes into view, and with any event.
Poll ==
    /\ thread.load = "idle"
    /\ thread' = Asks(thread)
    /\ UNCHANGED <<server, writing, posts, receipts, failures, seen, tries>>

Look(visible) ==
    /\ thread.visible # visible
    /\ thread' = IF visible THEN [Asks(thread) EXCEPT !.visible = TRUE]
                 ELSE [thread EXCEPT !.visible = FALSE]
    /\ UNCHANGED <<server, writing, posts, receipts, failures, seen, tries>>

ReadPage ==
    /\ thread.load = "asked" /\ active
    /\ thread' = [thread EXCEPT !.load = "read", !.page = Newest(DOMAIN log)]
    /\ UNCHANGED <<server, writing, posts, receipts, failures, seen, tries>>

Loaded(page) == [thread EXCEPT !.items = @ \cup page, !.page = {},
                               !.more = ~thread.spent /\ Cardinality(page) = PageSize]

\* The page is merged, and a receipt sent for the last message of the peer in it;
\* the next load waits for that one.
Arrive ==
    /\ thread.load = "read"
    /\ LET incoming == {id \in thread.page : FromPeer(id)} IN
          \/ /\ incoming = {}
             /\ Shows([Loaded(thread.page) EXCEPT !.load = "idle"])
             /\ UNCHANGED receipts
          \/ \E last \in incoming :
                /\ \A id \in incoming : id <= last
                /\ Shows([Loaded(thread.page) EXCEPT !.load = "receipt"])
                /\ receipts' = receipts \cup
                        {[id |-> last, read |-> thread.visible, awaited |-> TRUE]}
    /\ UNCHANGED <<server, writing, posts, failures, tries>>

\* finally
Idle(t) == [t EXCEPT !.load = "idle"]

\* Refused, or failed on the server, it empties the thread; without an answer it
\* changes nothing.
LoadFails ==
    /\ thread.load \in {"asked", "read"}
    /\ \/ /\ ~active /\ thread.load = "asked" /\ UNCHANGED failures
          /\ Shows([Idle(thread) EXCEPT !.items = {}, !.page = {}])
       \/ /\ Fails
          /\ \E items \in {{}, thread.items} :
                Shows([Idle(thread) EXCEPT !.items = items, !.page = {}])
    /\ UNCHANGED <<server, writing, posts, receipts, tries>>

\* The receipts of the tab, in any order: the cursors, and the notifications up to
\* a message that was read.
ClearedUpTo(r) == r.id
Deliver(r) ==
    /\ receipts' = receipts \ {r}
    /\ IF active THEN /\ cursor' = Advance(cursor, r.id, r.read)
                      /\ notes' = IF r.read THEN {id \in notes : id > ClearedUpTo(r)} ELSE notes
       ELSE UNCHANGED <<cursor, notes>>
    /\ thread' = IF r.awaited THEN Idle(thread) ELSE thread
    /\ UNCHANGED <<active, log, writing, posts, failures, seen, tries>>

ReceiptLost(r) ==
    /\ Fails
    /\ receipts' = receipts \ {r}
    /\ thread' = IF r.awaited THEN Idle(thread) ELSE thread
    /\ UNCHANGED <<server, writing, posts, seen, tries>>

(* Paging backward: once until it is answered. *)

First == CHOOSE id \in thread.items : \A o \in thread.items : id <= o
IsLast(page) == Cardinality(page) < PageSize

Earlier ==
    /\ thread.more /\ thread.items # {} /\ thread.before = 0
    /\ thread' = [thread EXCEPT !.before = First]
    /\ UNCHANGED <<server, writing, posts, receipts, failures, seen, tries>>

EarlierArrives ==
    /\ thread.before # 0
    /\ IF active
       THEN LET page == Newest({id \in DOMAIN log : id < thread.before}) IN
              Shows([thread EXCEPT !.items = @ \cup page, !.before = 0, !.spent = IsLast(page),
                                   !.more = Cardinality(page) = PageSize])
       ELSE Shows([thread EXCEPT !.before = 0])
    /\ UNCHANGED <<server, writing, posts, receipts, failures, tries>>

Composer == \/ \E text \in Texts : Type(text)
            \/ Press \/ \E p \in posts : Confirm(p) \/ NotSent(p)
Handler  == \E p \in posts : Authorize(p) \/ Store(p) \/ Unheard(p)
Peer     == PeerSends \/ EndConnection
Loading  == Poll \/ ReadPage \/ Arrive \/ LoadFails
Thread   == Loading \/ Earlier \/ EarlierArrives \/ \E visible \in BOOLEAN : Look(visible)
Receipts == \E r \in receipts : Deliver(r) \/ ReceiptLost(r)

TalkNext == Composer \/ Handler \/ Peer \/ Thread \/ Receipts

TalkSpec == TalkInit /\ [][TalkNext]_cvars

\* The clock polls, and requests are answered or fail; only MaxFailures of them do.
FairTalkSpec == TalkSpec /\ WF_cvars(Loading) /\ WF_cvars(Receipts)

-----------------------------------------------------------------------------
Ids == 1..MaxMessages

\* What the peer is told to be read has been on the screen, or was a page behind.
ReadWasShown ==
    \A id \in Newest(DOMAIN log) :
        FromPeer(id) /\ id <= cursor.read => id \in seen

\* However often the same text is sent until an answer comes, it is stored once.
RetryStoresOnce ==
    Cardinality({id \in DOMAIN log : log[id] # Peers /\ log[id] \in tries}) <= 1

\* Nothing is stored in a connection that has ended, whoever was authorized before.
EndedStaysQuiet == [][~active => log' = log]_cvars

\* Unless a request has failed, earlier messages that are not on the screen come
\* to be offered, whatever answers overtook each other.
Hidden == failures = 0 /\ active /\ thread.items # {} /\ First # 1
EarlierIsOffered == Hidden ~> thread.more \/ ~Hidden

\* A message is shown while the thread is open, event or not, unless a whole page
\* of others has come since.
MessageIsShown ==
    \A id \in Ids : id \in DOMAIN log ~> \/ id \in thread.items \/ ~active
                                         \/ id <= Len(log) - PageSize

\* The notification of a message goes away in a thread that is on the screen,
\* whether or not read receipts are shared, and whichever receipts are lost,
\* unless a whole page of others has come since.
NoticeGoesAway ==
    \A id \in Ids : id \in notes ~> \/ id \notin notes \/ ~active \/ ~thread.visible
                                     \/ id <= Len(log) - PageSize
=============================================================================
