------------------------- MODULE ConversationProofs -------------------------
(***************************************************************************)
(* Theorems about Conversation, for any texts, page size, history and       *)
(* bounds: that a text sent again is stored once, that nothing is told to   *)
(* be read that was not shown, and that an ended connection stays quiet.    *)
(***************************************************************************)
EXTENDS Conversation, FiniteSetTheorems, TLAPS

Clients == Nat \ {Nobody}

\* Nobody waits with a client id that was not made.
WritingTypeOK ==
    /\ writing \in [draft : Texts \cup {NoText}, sending : BOOLEAN,
                    retry : [text : Texts \cup {NoText}, client : Nat], made : Nat]
    /\ writing.retry.text # NoText => writing.retry.client # Nobody
PostsTypeOK ==
    posts \subseteq [client : Clients, at : {"asked", "allowed", "stored", "refused"},
                     awaited : BOOLEAN]

\* A client id is stored once.
StoredOnce ==
    /\ log \in Seq(Nat)
    /\ \A i, j \in DOMAIN log : log[i] = log[j] /\ log[i] # Peers => i = j

\* The attempts of one text have one client id.
OneAttempt ==
    tries = {} \/ (tries = {writing.retry.client} /\ writing.retry.text = writing.draft)

RetryInv == WritingTypeOK /\ PostsTypeOK /\ StoredOnce /\ OneAttempt

\* No id up to x waits to be shown, unless a page of others is newer.
ShownUpTo(x) ==
    \A id \in Newest(DOMAIN log) : FromPeer(id) /\ id <= x => id \in seen

\* What is told to be read was shown when it was told; and a page that is loaded
\* was the newest one of the log as it was.
ToldOK(x) == x \in 0..Len(log) /\ ShownUpTo(x)

ThreadIs(t) == t = [items |-> t.items, load |-> t.load, page |-> t.page, more |-> t.more,
                    spent |-> t.spent, before |-> t.before, visible |-> t.visible]

ReadInv ==
    /\ log \in Seq(Nat) /\ ThreadIs(thread) /\ thread.visible \in BOOLEAN
    /\ cursor \in [delivered : Nat, read : Nat] /\ ToldOK(cursor.read)
    /\ \A r \in receipts : r.id \in 0..Len(log) /\ r.read \in BOOLEAN /\ (r.read => ToldOK(r.id))
    /\ thread.load = "read" => \E n \in 0..Len(log) : thread.page = Newest(1..n)

-----------------------------------------------------------------------------
\* The log with one entry more, or as it was.
Grows == log' = log \/ \E client \in Nat : log' = Append(log, client)

LEMMA GrownLog ==
  ASSUME log \in Seq(Nat), Grows
  PROVE  \E n \in Nat, k \in Nat :
            /\ k = n \/ k = n + 1
            /\ log' \in Seq(Nat) /\ Len(log) = n /\ Len(log') = k
            /\ DOMAIN log = 1..n /\ DOMAIN log' = 1..k
            /\ \A i \in 1..n : log'[i] = log[i]
  <1>1. CASE log' = log
    BY <1>1
  <1>2. ASSUME NEW client \in Nat, log' = Append(log, client)
        PROVE  /\ log' \in Seq(Nat) /\ Len(log) \in Nat /\ Len(log') = Len(log) + 1
               /\ DOMAIN log = 1..Len(log) /\ DOMAIN log' = 1..(Len(log) + 1)
               /\ \A i \in 1..Len(log) : log'[i] = log[i]
    BY <1>2
  <1>3. QED
    BY <1>1, <1>2 DEF Grows

\* Of the ids up to n, those that are among the newest of a longer log were so before.
LEMMA NewestBefore ==
  ASSUME NEW n \in Nat, NEW k \in Nat, n <= k, NEW id \in Newest(1..k), id <= n
  PROVE  id \in Newest(1..n)
  <1> DEFINE Later(e) == {o \in 1..e : o > id}
  <1>1. IsFiniteSet(1..k)
    BY FS_Interval
  <1>2. IsFiniteSet(Later(k))
    BY <1>1, FS_Subset
  <1>3. Later(n) \subseteq Later(k)
    OBVIOUS
  <1>4. IsFiniteSet(Later(n)) /\ Cardinality(Later(n)) <= Cardinality(Later(k))
    BY <1>2, <1>3, FS_Subset
  <1>5. Cardinality(Later(n)) \in Nat /\ Cardinality(Later(k)) \in Nat
    BY <1>2, <1>4, FS_CardinalityType
  <1>6. id \in 1..k /\ Cardinality(Later(k)) < PageSize
    BY DEF Newest
  <1>7. id \in 1..n /\ Cardinality(Later(n)) < PageSize
    BY <1>4, <1>5, <1>6, ConversationAssumption
  <1>8. QED
    BY <1>7 DEF Newest

\* Neither new messages nor what is shown besides change that.
LEMMA StillTold ==
  ASSUME log \in Seq(Nat), Grows, seen \subseteq seen', NEW x, ToldOK(x)
  PROVE  ToldOK(x)'
  <1>1. PICK n \in Nat, k \in Nat :
            /\ k = n \/ k = n + 1
            /\ log' \in Seq(Nat) /\ Len(log) = n /\ Len(log') = k
            /\ DOMAIN log = 1..n /\ DOMAIN log' = 1..k
            /\ \A i \in 1..n : log'[i] = log[i]
    BY GrownLog
  <1>2. n <= k
    BY <1>1
  <1>3. x \in 0..n
    BY <1>1 DEF ToldOK
  <1>4. ASSUME NEW id \in Newest(1..k), log'[id] = Peers, id <= x PROVE id \in seen'
    <2>1. id \in 1..k
      BY DEF Newest
    <2>2. id \in 1..n /\ id <= n
      BY <1>2, <1>3, <1>4, <2>1
    <2>3. id \in Newest(1..n)
      BY <1>2, <2>2, NewestBefore
    <2>4. log[id] = Peers
      BY <1>1, <1>4, <2>2
    <2>5. id \in seen
      BY <1>1, <1>4, <2>3, <2>4 DEF ToldOK, ShownUpTo, FromPeer
    <2>6. QED
      BY <2>5
  <1>5. x \in 0..k
    BY <1>2, <1>3
  <1>6. QED
    BY <1>1, <1>4, <1>5 DEF ToldOK, ShownUpTo, FromPeer

\* What may be told after a step: what might be told before, and what is shown now.
NewReceipt(r) == r.id \in 0..Len(log') /\ r.read \in BOOLEAN /\ (r.read => ToldOK(r.id)')

\* A step keeps the invariant that sends such receipts only, delivers those there
\* are, and takes its page from the log.
LEMMA ReadKept ==
  ASSUME ReadInv, Grows, seen \subseteq seen',
         cursor' \in [delivered : Nat, read : Nat],
         cursor'.read = cursor.read \/ \E r \in receipts : r.read /\ cursor'.read = r.id,
         \A r \in receipts' : r \in receipts \/ NewReceipt(r),
         ThreadIs(thread'), thread'.visible \in BOOLEAN,
         thread'.load = "read" =>
            \/ thread.load = "read" /\ thread'.page = thread.page
            \/ thread'.page = Newest(DOMAIN log)
  PROVE  ReadInv'
  <1>1. PICK n \in Nat, k \in Nat :
            /\ k = n \/ k = n + 1
            /\ log' \in Seq(Nat) /\ Len(log) = n /\ Len(log') = k
            /\ DOMAIN log = 1..n /\ DOMAIN log' = 1..k
            /\ \A i \in 1..n : log'[i] = log[i]
    BY GrownLog DEF ReadInv
  <1>2. \A j \in 0..n : j \in 0..k
    BY <1>1
  <1>3. ASSUME NEW x, ToldOK(x) PROVE ToldOK(x)'
    BY <1>3, StillTold DEF ReadInv
  <1>4. ToldOK(cursor.read)'
    <2>1. PICK x : x = cursor'.read
      OBVIOUS
    <2>2. ToldOK(x)
      BY <2>1 DEF ReadInv
    <2>3. ToldOK(x)'
      BY <2>2, <1>3
    <2>4. QED
      BY <2>1, <2>3 DEF ToldOK, ShownUpTo
  <1>5. ASSUME NEW r \in receipts'
        PROVE  r.id \in 0..Len(log') /\ r.read \in BOOLEAN /\ (r.read => ToldOK(r.id)')
    <2>1. CASE NewReceipt(r)
      BY <2>1 DEF NewReceipt
    <2>2. CASE r \in receipts
      BY <1>1, <1>2, <1>3, <2>2 DEF ReadInv
    <2>3. QED
      BY <1>5, <2>1, <2>2
  <1>6. ASSUME thread'.load = "read" PROVE \E e \in 0..Len(log') : thread'.page = Newest(1..e)
    <2>1. \E e \in 0..n : thread'.page = Newest(1..e)
      <3>1. CASE thread.load = "read" /\ thread'.page = thread.page
        BY <1>1, <3>1 DEF ReadInv
      <3>2. CASE thread'.page = Newest(DOMAIN log)
        BY <1>1, <3>2
      <3>3. QED
        BY <1>6, <3>1, <3>2
    <2>2. QED
      BY <1>1, <1>2, <2>1
  <1>7. QED
    BY <1>1, <1>4, <1>5, <1>6 DEF ReadInv

\* So one that leaves receipts, cursor and loads alone, ...
LEMMA ReadAlone ==
  ASSUME ReadInv, Grows, seen' = seen, UNCHANGED cursor, receipts' \subseteq receipts,
         thread' = thread \/ thread' = Idle(thread)
  PROVE  ReadInv'
  <1>1. ThreadIs(thread') /\ thread'.visible \in BOOLEAN
        /\ (thread'.load = "read" => thread.load = "read" /\ thread'.page = thread.page)
    BY DEF ReadInv, ThreadIs, Idle
  <1>2. QED
    BY <1>1, ReadKept DEF ReadInv

\* ... and one that changes what is loaded and shown only, unless it reads a page.
LEMMA ThreadAlone ==
  ASSUME ReadInv, UNCHANGED <<log, cursor, receipts>>, seen \subseteq seen',
         ThreadIs(thread'), thread'.visible \in BOOLEAN,
         thread'.load = "read" => thread.load = "read" /\ thread'.page = thread.page
  PROVE  ReadInv'
  BY ReadKept DEF ReadInv, Grows

LEMMA WritingReads ==
  ASSUME ReadInv, RetryInv, Composer \/ Handler
  PROVE  ReadInv'
  <1>1. CASE \E text \in Texts : Type(text)
    BY <1>1, ReadAlone DEF Type, server, Grows
  <1>2. CASE Press
    BY <1>2, ReadAlone DEF Press, server, Grows
  <1>3. ASSUME NEW p \in posts, Confirm(p) PROVE ReadInv'
    <2>1. PICK id : thread' = [thread EXCEPT !.items = @ \cup {id}] /\ seen \subseteq seen'
      BY <1>3 DEF Confirm, Shows
    <2>2. ThreadIs(thread') /\ thread'.visible = thread.visible /\ thread'.load = thread.load
          /\ thread'.page = thread.page
      BY <2>1 DEF ReadInv, ThreadIs
    <2>3. QED
      BY <1>3, <2>1, <2>2, ThreadAlone DEF Confirm, server, ReadInv
  <1>4. ASSUME NEW p \in posts, NotSent(p) PROVE ReadInv'
    BY <1>4, ReadAlone DEF NotSent, server, Grows
  <1>5. ASSUME NEW p \in posts, Authorize(p) \/ Unheard(p) PROVE ReadInv'
    BY <1>5, ReadAlone DEF Authorize, Unheard, server, tabs, Grows
  <1>6. ASSUME NEW p \in posts, Store(p) PROVE ReadInv'
    <2>1. p.client \in Nat
      BY DEF RetryInv, PostsTypeOK, Clients
    <2>2. Grows
      BY <1>6, <2>1 DEF Store, Grows
    <2>3. QED
      BY <1>6, <2>2, ReadAlone DEF Store, tabs
  <1>7. QED
    BY <1>1, <1>2, <1>3, <1>4, <1>5, <1>6 DEF Composer, Handler

LEMMA PeerReads ==
  ASSUME ReadInv, Peer
  PROVE  ReadInv'
  <1>1. CASE PeerSends
    <2>1. log' = Append(log, Peers) /\ Grows
      BY <1>1 DEF PeerSends, Grows, Peers, Nobody
    <2>2. Len(log') \in 0..Len(log')
      BY <2>1 DEF ReadInv
    <2>3. \A r \in receipts' : r \in receipts \/ NewReceipt(r)
      <3>1. receipts' = receipts \/ receipts' = receipts \cup {Receipt(Len(log'))}
        BY <1>1 DEF PeerSends
      <3>2. ASSUME NEW r, r = Receipt(Len(log')) PROVE NewReceipt(r)
        BY <2>2, <3>2 DEF NewReceipt, Receipt
      <3>3. QED
        BY <3>1, <3>2
    <2>4. thread' = thread \/ thread' = Asks(thread)
      BY <1>1 DEF PeerSends
    <2>5. ThreadIs(thread') /\ thread'.visible \in BOOLEAN
          /\ (thread'.load = "read" => thread.load = "read" /\ thread'.page = thread.page)
      BY <2>4 DEF ReadInv, ThreadIs, Asks
    <2>6. seen' = seen /\ cursor' = cursor
      BY <1>1 DEF PeerSends
    <2>7. QED
      BY <2>1, <2>3, <2>5, <2>6, ReadKept DEF ReadInv
  <1>2. CASE EndConnection
    BY <1>2, ReadAlone DEF EndConnection, tabs, Grows
  <1>3. QED
    BY <1>1, <1>2 DEF Peer

\* The newest page holds every id that is among the newest up to its last message.
LEMMA PageCovers ==
  ASSUME log \in Seq(Nat), NEW n \in 0..Len(log), NEW page, page = Newest(1..n),
         NEW last \in page, \A id \in page : FromPeer(id) => id <= last, page \subseteq seen'
  PROVE  last \in 0..Len(log) /\ \A id \in Newest(DOMAIN log) : id <= last => id \in seen'
  <1>1. DOMAIN log = 1..Len(log) /\ Len(log) \in Nat /\ n \in Nat /\ n <= Len(log)
    OBVIOUS
  <1>2. last \in 1..n
    BY DEF Newest
  <1>3. ASSUME NEW id \in Newest(1..Len(log)), id <= last PROVE id \in seen'
    <2>1. id \in 1..Len(log)
      BY DEF Newest
    <2>2. id <= n
      BY <1>1, <1>2, <1>3, <2>1
    <2>3. id \in Newest(1..n)
      BY <1>1, <2>2, NewestBefore
    <2>4. QED
      BY <2>3
  <1>4. QED
    BY <1>1, <1>2, <1>3

LEMMA ArriveReads ==
  ASSUME ReadInv, Arrive
  PROVE  ReadInv'
  <1> DEFINE incoming == {id \in thread.page : FromPeer(id)}
  <1>1. /\ thread.load = "read" /\ UNCHANGED <<log, cursor>>
        /\ thread' \in {[Loaded(thread.page) EXCEPT !.load = "idle"],
                        [Loaded(thread.page) EXCEPT !.load = "receipt"]}
        /\ seen' = seen \cup thread'.items
    BY DEF Arrive, Shows, server
  <1>2. ThreadIs(thread') /\ thread'.visible \in BOOLEAN /\ thread'.load # "read"
        /\ thread'.items = thread.items \cup thread.page
    BY <1>1 DEF ReadInv, ThreadIs, Loaded
  <1>3. ASSUME NEW r \in receipts' PROVE r \in receipts \/ NewReceipt(r)
    <2>1. CASE receipts' = receipts
      BY <1>3, <2>1
    <2>2. CASE receipts' # receipts
      <3>1. PICK last \in incoming :
               /\ \A id \in incoming : id <= last
               /\ receipts' = receipts \cup
                       {[id |-> last, read |-> thread.visible, awaited |-> TRUE]}
        BY <2>2 DEF Arrive
      <3>2. PICK n \in 0..Len(log) : thread.page = Newest(1..n)
        BY <1>1 DEF ReadInv
      <3>3. last \in thread.page /\ thread.page \subseteq seen'
            /\ \A id \in thread.page : FromPeer(id) => id <= last
        BY <1>1, <1>2, <3>1
      <3>4. log \in Seq(Nat)
        BY DEF ReadInv
      <3>5. last \in 0..Len(log) /\ \A id \in Newest(DOMAIN log) : id <= last => id \in seen'
        BY <3>2, <3>3, <3>4, PageCovers
      <3>6. ToldOK(last)'
        BY <1>1, <3>5 DEF ToldOK, ShownUpTo
      <3>7. thread.visible \in BOOLEAN
        BY DEF ReadInv
      <3>8. NewReceipt([id |-> last, read |-> thread.visible, awaited |-> TRUE])
        BY <1>1, <3>5, <3>6, <3>7 DEF NewReceipt
      <3>9. QED
        BY <1>3, <3>1, <3>8
    <2>3. QED
      BY <2>1, <2>2
  <1>4. QED
    BY <1>1, <1>2, <1>3, ReadKept DEF ReadInv, Grows

LEMMA ThreadReads ==
  ASSUME ReadInv, Thread
  PROVE  ReadInv'
  <1>1. CASE Poll \/ \E visible \in BOOLEAN : Look(visible)
    <2>1. ThreadIs(thread') /\ thread'.visible \in BOOLEAN
          /\ (thread'.load = "read" => thread.load = "read" /\ thread'.page = thread.page)
      BY <1>1 DEF Poll, Look, Asks, ReadInv, ThreadIs
    <2>2. UNCHANGED <<log, cursor, receipts, seen>>
      BY <1>1 DEF Poll, Look, server
    <2>3. QED
      BY <2>1, <2>2, ThreadAlone
  <1>2. CASE ReadPage
    <2>1. ThreadIs(thread') /\ thread'.visible \in BOOLEAN /\ thread'.page = Newest(DOMAIN log)
      BY <1>2 DEF ReadPage, ReadInv, ThreadIs
    <2>2. UNCHANGED <<log, cursor, receipts, seen>>
      BY <1>2 DEF ReadPage, server
    <2>3. QED
      BY <2>1, <2>2, ReadKept DEF ReadInv, Grows
  <1>3. CASE Arrive
    BY <1>3, ArriveReads
  <1>4. CASE LoadFails
    <2>1. PICK items : thread' = [Idle(thread) EXCEPT !.items = items, !.page = {}]
                       /\ seen' = seen \cup thread'.items
      BY <1>4, Zenon DEF LoadFails, Shows
    <2>2. ThreadIs(thread') /\ thread'.visible \in BOOLEAN /\ thread'.load = "idle"
      BY <2>1 DEF Idle, ReadInv, ThreadIs
    <2>3. UNCHANGED <<log, cursor, receipts>>
      BY <1>4 DEF LoadFails, server
    <2>4. QED
      BY <2>1, <2>2, <2>3, ThreadAlone
  <1>5. CASE Earlier
    <2>1. ThreadIs(thread') /\ thread'.visible \in BOOLEAN
          /\ thread'.load = thread.load /\ thread'.page = thread.page
      BY <1>5 DEF Earlier, ReadInv, ThreadIs
    <2>2. UNCHANGED <<log, cursor, receipts, seen>>
      BY <1>5 DEF Earlier, server
    <2>3. QED
      BY <2>1, <2>2, ThreadAlone
  <1>6. CASE EarlierArrives
    <2>1. ThreadIs(thread') /\ thread'.visible \in BOOLEAN
          /\ thread'.load = thread.load /\ thread'.page = thread.page
      BY <1>6 DEF EarlierArrives, Shows, ReadInv, ThreadIs
    <2>2. UNCHANGED <<log, cursor, receipts>> /\ seen \subseteq seen'
      BY <1>6 DEF EarlierArrives, Shows, server
    <2>3. QED
      BY <2>1, <2>2, ThreadAlone
  <1>7. QED
    BY <1>1, <1>2, <1>3, <1>4, <1>5, <1>6 DEF Thread, Loading

LEMMA ReceiptsRead ==
  ASSUME ReadInv, Receipts
  PROVE  ReadInv'
  <1>1. PICK r \in receipts : Deliver(r) \/ ReceiptLost(r)
    BY DEF Receipts
  <1>2. receipts' \subseteq receipts /\ UNCHANGED <<log, seen>>
        /\ (thread' = thread \/ thread' = Idle(thread))
    BY <1>1 DEF Deliver, ReceiptLost, server
  <1>3. CASE cursor' = cursor
    BY <1>2, <1>3, ReadAlone DEF Grows
  <1>4. CASE cursor' = Advance(cursor, r.id, r.read)
    <2>1. r.id \in Nat /\ r.read \in BOOLEAN
      BY DEF ReadInv
    <2>2. cursor' \in [delivered : Nat, read : Nat]
          /\ (cursor'.read = cursor.read \/ (r.read /\ cursor'.read = r.id))
      BY <1>4, <2>1 DEF Advance, GreaterOf, ReadInv
    <2>3. ThreadIs(thread') /\ thread'.visible \in BOOLEAN
          /\ (thread'.load = "read" => thread.load = "read" /\ thread'.page = thread.page)
      BY <1>2 DEF ReadInv, ThreadIs, Idle
    <2>4. QED
      BY <1>2, <2>2, <2>3, ReadKept DEF Grows
  <1>5. QED
    BY <1>1, <1>3, <1>4 DEF Deliver, ReceiptLost, server

-----------------------------------------------------------------------------
\* The requests of the composer change nothing that is stored, and the handlers
\* nothing of the composer's.
LEMMA ComposerRetries ==
  ASSUME RetryInv, Composer
  PROVE  RetryInv'
  <1> USE DEF RetryInv
  <1>1. CASE \E text \in Texts : Type(text)
    <2>1. PICK text \in Texts : Type(text)
      BY <1>1
    <2>2. UNCHANGED <<log, posts>> /\ tries' = {} /\ writing' = [writing EXCEPT !.draft = text]
      BY <2>1 DEF Type, server
    <2>3. WritingTypeOK'
      BY <2>2 DEF WritingTypeOK
    <2>4. QED
      BY <2>2, <2>3 DEF PostsTypeOK, StoredOnce, OneAttempt
  <1>2. CASE Press
    <2> DEFINE pending == Pending(writing.draft)
               post == [client |-> pending.client, at |-> "asked", awaited |-> TRUE]
    <2>1. /\ writing.draft # NoText /\ log' = log
          /\ writing' = [writing EXCEPT !.sending = TRUE, !.retry = pending,
                                        !.made = GreaterOf(@, pending.client)]
          /\ posts' = posts \cup {post} /\ tries' = tries \cup {pending.client}
      BY <1>2 DEF Press, server
    <2>2. writing.draft \in Texts /\ writing.made \in Nat
      BY <2>1 DEF WritingTypeOK
    <2>3. /\ pending \in [text : Texts \cup {NoText}, client : Nat]
          /\ pending.client \in Clients /\ pending.text = writing.draft
      <3>1. CASE writing.retry.text = writing.draft
        BY <2>1, <2>2, <3>1 DEF Pending, WritingTypeOK, Clients
      <3>2. CASE writing.retry.text # writing.draft
        BY <2>2, <3>2 DEF Pending, Retry, Clients, Nobody
      <3>3. QED
        BY <3>1, <3>2
    <2>4. tries # {} => tries = {pending.client}
      BY DEF OneAttempt, Pending
    <2> HIDE DEF pending
    <2>5. GreaterOf(writing.made, pending.client) \in Nat
      BY <2>2, <2>3 DEF GreaterOf
    <2>6. WritingTypeOK' /\ writing'.retry = pending /\ writing'.draft = writing.draft
      BY <2>1, <2>3, <2>5 DEF WritingTypeOK, Clients
    <2>7. PostsTypeOK'
      <3>1. post \in [client : Clients, at : {"asked", "allowed", "stored", "refused"},
                      awaited : BOOLEAN]
        BY <2>3
      <3>2. QED
        BY <2>1, <3>1, Zenon DEF PostsTypeOK
    <2>8. OneAttempt'
      BY <2>1, <2>3, <2>4, <2>6 DEF OneAttempt
    <2>9. QED
      BY <2>1, <2>6, <2>7, <2>8 DEF StoredOnce
  <1>3. ASSUME NEW p \in posts, Confirm(p) PROVE RetryInv'
    <2>1. /\ log' = log /\ posts' \subseteq posts /\ tries' = {}
          /\ writing' = [writing EXCEPT !.draft = NoText, !.sending = FALSE, !.retry = NoRetry]
      BY <1>3 DEF Confirm, server
    <2>2. WritingTypeOK'
      BY <2>1 DEF WritingTypeOK, NoRetry, Retry, Nobody
    <2>3. QED
      BY <2>1, <2>2 DEF PostsTypeOK, StoredOnce, OneAttempt
  <1>4. ASSUME NEW p \in posts, NotSent(p) PROVE RetryInv'
    <2>1. /\ log' = log /\ tries' = tries
          /\ writing' = [writing EXCEPT !.sending = FALSE]
          /\ posts' \subseteq posts \cup {[p EXCEPT !.awaited = FALSE]}
      BY <1>4 DEF NotSent, server
    <2>2. WritingTypeOK' /\ writing'.retry = writing.retry /\ writing'.draft = writing.draft
      BY <2>1 DEF WritingTypeOK
    <2>3. PostsTypeOK'
      BY <2>1 DEF PostsTypeOK
    <2>4. QED
      BY <2>1, <2>2, <2>3 DEF StoredOnce, OneAttempt
  <1>5. QED
    BY <1>1, <1>2, <1>3, <1>4 DEF Composer

\* A client id that is new to the log, or the peer's, is stored once in the longer one.
LEMMA OnceMore ==
  ASSUME StoredOnce, NEW client \in Nat, client = Peers \/ ~Stored(client),
         log' = Append(log, client)
  PROVE  StoredOnce'
  <1>1. /\ log' \in Seq(Nat) /\ Len(log) \in Nat
        /\ DOMAIN log = 1..Len(log) /\ DOMAIN log' = 1..(Len(log) + 1)
        /\ \A i \in 1..Len(log) : log'[i] = log[i]
        /\ log'[Len(log) + 1] = client
    BY DEF StoredOnce
  <1>2. ASSUME NEW i \in DOMAIN log', NEW j \in DOMAIN log', log'[i] = log'[j], log'[i] # Peers
        PROVE  i = j
    <2>1. (i \in 1..Len(log) \/ i = Len(log) + 1) /\ (j \in 1..Len(log) \/ j = Len(log) + 1)
      BY <1>1
    <2>2. CASE i \in 1..Len(log) /\ j \in 1..Len(log)
      BY <1>1, <1>2, <2>2 DEF StoredOnce
    <2>3. CASE i = Len(log) + 1 /\ j \in 1..Len(log)
      BY <1>1, <1>2, <2>3 DEF Stored
    <2>4. CASE j = Len(log) + 1 /\ i \in 1..Len(log)
      BY <1>1, <1>2, <2>4 DEF Stored
    <2>5. QED
      BY <2>1, <2>2, <2>3, <2>4
  <1>3. QED
    BY <1>1, <1>2 DEF StoredOnce

LEMMA HandlerRetries ==
  ASSUME RetryInv, Handler
  PROVE  RetryInv'
  <1> USE DEF RetryInv
  <1>1. PICK p \in posts : Authorize(p) \/ Store(p) \/ Unheard(p)
    BY DEF Handler
  <1>2. UNCHANGED <<writing, tries>>
    BY <1>1 DEF Authorize, Store, Unheard, tabs
  <1>3. PostsTypeOK'
    <2>1. posts' \subseteq posts \cup {[p EXCEPT !.at = at] : at \in {"allowed", "stored", "refused"}}
      BY <1>1 DEF Authorize, Store, Unheard
    <2>2. QED
      BY <2>1 DEF PostsTypeOK
  <1>4. StoredOnce'
    <2>1. CASE log' = log
      BY <2>1 DEF StoredOnce
    <2>2. CASE log' = Append(log, p.client) /\ ~Stored(p.client)
      BY <2>2, OnceMore DEF PostsTypeOK, Clients
    <2>3. QED
      BY <1>1, <2>1, <2>2 DEF Authorize, Store, Unheard, server
  <1>5. QED
    BY <1>2, <1>3, <1>4 DEF WritingTypeOK, OneAttempt

LEMMA OthersRetry ==
  ASSUME RetryInv, Peer \/ Thread \/ Receipts
  PROVE  RetryInv'
  <1> USE DEF RetryInv
  <1>1. UNCHANGED <<writing, posts, tries>>
    <2>1. CASE Peer
      BY <2>1 DEF Peer, PeerSends, EndConnection, tabs
    <2>2. CASE Thread
      BY <2>2 DEF Thread, Loading, Poll, ReadPage, Arrive, LoadFails, Earlier, EarlierArrives, Look
    <2>3. CASE Receipts
      BY <2>3 DEF Receipts, Deliver, ReceiptLost
    <2>4. QED
      BY <2>1, <2>2, <2>3
  <1>2. log' = log \/ log' = Append(log, Peers)
    <2>1. CASE Peer
      BY <2>1 DEF Peer, PeerSends, EndConnection
    <2>2. CASE Thread
      BY <2>2 DEF Thread, Loading, Poll, ReadPage, Arrive, LoadFails, Earlier, EarlierArrives, Look, server
    <2>3. CASE Receipts
      BY <2>3 DEF Receipts, Deliver, ReceiptLost, server
    <2>4. QED
      BY <2>1, <2>2, <2>3
  <1>3. StoredOnce'
    <2>1. CASE log' = log
      BY <2>1 DEF StoredOnce
    <2>2. CASE log' = Append(log, Peers)
      BY <2>2, OnceMore DEF Peers, Nobody
    <2>3. QED
      BY <1>2, <2>1, <2>2
  <1>4. QED
    BY <1>1, <1>3 DEF WritingTypeOK, PostsTypeOK, OneAttempt

-----------------------------------------------------------------------------
TalkInv == RetryInv /\ ReadInv

LEMMA TalkStep ==
  ASSUME TalkInv, [TalkNext]_cvars
  PROVE  TalkInv'
  <1>1. CASE UNCHANGED cvars
    <2>1. RetryInv'
      BY <1>1 DEF cvars, TalkInv, RetryInv, WritingTypeOK, PostsTypeOK, StoredOnce, OneAttempt
    <2>2. ReadInv'
      BY <1>1, ReadAlone DEF cvars, TalkInv, Grows
    <2>3. QED
      BY <2>1, <2>2 DEF TalkInv
  <1>2. CASE Composer \/ Handler
    BY <1>2, ComposerRetries, HandlerRetries, WritingReads DEF TalkInv
  <1>3. CASE Peer \/ Thread \/ Receipts
    BY <1>3, OthersRetry, PeerReads, ThreadReads, ReceiptsRead DEF TalkInv
  <1>4. QED
    BY <1>1, <1>2, <1>3 DEF TalkNext

LEMMA TalkBegins == TalkInit => TalkInv
  <1> SUFFICES ASSUME TalkInit PROVE TalkInv
    OBVIOUS
  <1>1. /\ log = [id \in 1..History |-> Peers] /\ log \in Seq(Nat) /\ Len(log) = History
        /\ DOMAIN log = 1..History /\ \A i \in DOMAIN log : log[i] = Peers
        /\ History \in Nat
    BY ConversationAssumption DEF TalkInit, Peers, Nobody
  <1>2. RetryInv
    <2>1. WritingTypeOK /\ PostsTypeOK /\ OneAttempt
      BY DEF TalkInit, WritingTypeOK, PostsTypeOK, OneAttempt, NoRetry, Retry, Nobody
    <2>2. StoredOnce
      BY <1>1 DEF StoredOnce
    <2>3. QED
      BY <2>1, <2>2 DEF RetryInv
  <1>3. ReadInv
    <2>1. ThreadIs(thread) /\ thread.visible \in BOOLEAN /\ thread.load # "read" /\ receipts = {}
      BY DEF TalkInit, ThreadIs
    <2>2. cursor \in [delivered : Nat, read : Nat] /\ cursor.read \in 0..Len(log)
      BY <1>1 DEF TalkInit
    <2>3. \A id \in Newest(DOMAIN log) : id \in seen
      BY <1>1 DEF Newest, TalkInit
    <2>4. QED
      BY <1>1, <2>1, <2>2, <2>3 DEF ReadInv, ToldOK, ShownUpTo
  <1>4. QED
    BY <1>2, <1>3 DEF TalkInv

LEMMA TalkAlways == TalkSpec => []TalkInv
  <1>1. TalkInit => TalkInv
    BY TalkBegins
  <1>2. TalkInv /\ [TalkNext]_cvars => TalkInv'
    BY TalkStep
  <1>3. QED
    BY <1>1, <1>2, PTL DEF TalkSpec

\* However often the same text is sent, whichever answers are lost and whichever of
\* the requests are stored late, it is stored once (send() and its client id, the
\* unique index of messages).
THEOREM TalkStoresOnce == TalkSpec => []RetryStoresOnce
  <1>1. TalkInv => RetryStoresOnce
    <2> SUFFICES ASSUME TalkInv PROVE RetryStoresOnce
      OBVIOUS
    <2> DEFINE Again == {id \in DOMAIN log : log[id] # Peers /\ log[id] \in tries}
    <2>1. \A i, j \in Again : i = j
      BY DEF TalkInv, RetryInv, StoredOnce, OneAttempt
    <2>2. CASE Again = {}
      BY <2>2, FS_EmptySet DEF RetryStoresOnce
    <2>3. CASE Again # {}
      <3>1. PICK i : Again = {i}
        BY <2>1, <2>3
      <3>2. Cardinality(Again) = 1
        BY <3>1, FS_Singleton
      <3>3. QED
        BY <3>2 DEF RetryStoresOnce
    <2>4. QED
      BY <2>2, <2>3
  <1>2. QED
    BY <1>1, TalkAlways, PTL

\* What the peer is told to be read has been on the screen, unless a whole page of
\* messages is newer, in whatever order receipts and pages arrive (load() and
\* its receipt; those of events say that a message is delivered, not read).
THEOREM TalkReadsShown == TalkSpec => []ReadWasShown
  <1>1. TalkInv => ReadWasShown
    BY DEF TalkInv, ReadInv, ToldOK, ShownUpTo, ReadWasShown
  <1>2. QED
    BY <1>1, TalkAlways, PTL

\* A request that was authorized before the connection ended stores nothing after
\* it (authorized() and the lock that messages() takes), and the peer nothing either.
THEOREM TalkEndsQuiet == TalkSpec => EndedStaysQuiet
  <1>1. [TalkNext]_cvars => (~active => log' = log)
    <2> SUFFICES ASSUME [TalkNext]_cvars, ~active PROVE log' = log
      OBVIOUS
    <2>1. CASE UNCHANGED cvars
      BY <2>1 DEF cvars
    <2>2. CASE Composer
      BY <2>2 DEF Composer, Type, Press, Confirm, NotSent, server
    <2>3. CASE Handler
      BY <2>3 DEF Handler, Authorize, Store, Unheard, server, StillActive
    <2>4. CASE Peer
      BY <2>4 DEF Peer, PeerSends, EndConnection
    <2>5. CASE Thread
      BY <2>5 DEF Thread, Loading, Poll, ReadPage, Arrive, LoadFails, Earlier, EarlierArrives, Look, server
    <2>6. CASE Receipts
      BY <2>6 DEF Receipts, Deliver, ReceiptLost, server
    <2>7. QED
      BY <2>1, <2>2, <2>3, <2>4, <2>5, <2>6 DEF TalkNext
  <1>2. QED
    BY <1>1, PTL DEF TalkSpec, EndedStaysQuiet
=============================================================================
