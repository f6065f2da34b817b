------------------------------- MODULE Messages -------------------------------
(***************************************************************************)
(* Conversations: PUT and GET /messages, GET /conversations                *)
(* (MessagesHandler, ConversationsHandler, MessagesManager).  A            *)
(* conversation is one LevelDB value, the JSON array of all of its         *)
(* messages; sending and reading both read it, change it and put it back.  *)
(*                                                                         *)
(* A put may fail: DBWrapper::putKey then returns an error that no caller  *)
(* looks at, so the reply is 200 all the same.                             *)
(***************************************************************************)
EXTENDS Users, Integers, Sequences

CONSTANTS
    SendOutcomes,       \* {TRUE}, or BOOLEAN if the put of a new message may fail
    MarkOutcomes,       \* the same for the put that marks messages as received
    MaxCant,            \* length of a page nobody asked a length for (10)
    WordSize,           \* 2^64: unsigned long arithmetic is modulo WordSize
    MaxMessages,        \* bound: messages sent in a behaviour
    MaxIndex            \* bound: the largest index of a page

ASSUME OutcomesAssumption ==
    SendOutcomes \subseteq BOOLEAN /\ MarkOutcomes \subseteq BOOLEAN
ASSUME BoundsAssumption == MaxCant \in Nat \ {0} /\ MaxMessages \in Nat /\ MaxIndex \in Nat
ASSUME WordAssumption == WordSize \in Nat /\ WordSize > MaxMessages + MaxIndex + MaxCant

VARIABLES
    conv,               \* conv[{u, w}]: the messages between u and w
    sent,               \* number of messages sent, the last one's id
    up,                 \* FALSE once the process has died
    acked,              \* history: messages whose sender got a 200
    shown,              \* history: messages a page showed to their recipient
    unmarked,           \* history: shown messages whose marking was lost
    readers             \* history: who got a page of which conversation

messagesVars == <<account, conv, sent, up, acked, shown, unmarked, readers>>

Pair == {{u, w} : u, w \in User} \ {{u} : u \in User}

MessageId == 1 .. MaxMessages

Message == [id : MessageId, from : User, to : User, state : {"sent", "received"}]

MessagesTypeOK ==
    /\ account \in Accounts
    /\ conv \in [Pair -> Seq(Message)]
    /\ sent \in 0 .. MaxMessages
    /\ up \in BOOLEAN
    /\ acked \in SUBSET MessageId
    /\ shown \in SUBSET MessageId
    /\ unmarked \in SUBSET MessageId
    /\ readers \in SUBSET (User \X Pair)

MessagesInit ==
    /\ account = NoAccounts
    /\ conv = [p \in Pair |-> <<>>]
    /\ sent = 0
    /\ up = TRUE
    /\ acked = {}
    /\ shown = {}
    /\ unmarked = {}
    /\ readers = {}

-----------------------------------------------------------------------------
(***************************************************************************)
(* PUT /messages: saveMessage appends to the conversation and puts it      *)
(* back; the push notification that follows changes no stored state.       *)
(***************************************************************************)
NewMessage(from, to) ==
    [id |-> sent + 1, from |-> from, to |-> to, state |-> "sent"]

PutMessagePrepended(from, to, stored) ==
    /\ up
    /\ ValidUsers(from, to)
    /\ sent < MaxMessages
    /\ sent' = sent + 1
    /\ conv' = [conv EXCEPT ![{from, to}] = <<NewMessage(from, to)>> \o @]
    /\ acked' = acked \cup {sent + 1}
    /\ UNCHANGED <<account, up, shown, unmarked, readers>>

PutMessage(from, to, stored) ==
    /\ up
    /\ ValidUsers(from, to)
    /\ sent < MaxMessages
    /\ sent' = sent + 1
    /\ conv' = IF stored
               THEN [conv EXCEPT ![{from, to}] = Append(@, NewMessage(from, to))]
               ELSE conv
    /\ acked' = acked \cup {sent + 1}
    /\ UNCHANGED <<account, up, shown, unmarked, readers>>

-----------------------------------------------------------------------------
(***************************************************************************)
(* Pages count from the newest message, which has index 1; 0 stands for an *)
(* index that the query does not give.                                     *)
(***************************************************************************)
FirstIndex(first) == IF first # 0 THEN first ELSE 1

LastIndex(first, last) == IF last # 0 THEN last ELSE first + MaxCant

Clamp(last, n) == IF last > n THEN n ELSE last

(***************************************************************************)
(* doTruncate: positions from .. to of the list, in unsigned arithmetic.   *)
(* A page that begins past the end wraps around to a huge to, and the loop *)
(* reads beyond the vector.                                                *)
(***************************************************************************)
PageBoundsShifted(n, first, last) ==
    [from |-> n - Clamp(LastIndex(first, last), n) + 2,
     to   |-> (n - FirstIndex(first) + 1) % WordSize]

PageBounds(n, first, last) ==
    [from |-> n - Clamp(LastIndex(first, last), n) + 1,
     to   |-> (n - FirstIndex(first) + 1) % WordSize]

(***************************************************************************)
(* truncateMessages refuses an empty interval (400).                       *)
(***************************************************************************)
GoodInterval(first, last) == FirstIndex(first) <= LastIndex(first, last)

PastTheEnd(n, first, last) == PageBounds(n, first, last).to > n

Page(c, first, last) ==
    LET b == PageBounds(Len(c), first, last) IN SubSeq(c, b.from, b.to)

(***************************************************************************)
(* setMessagesAsReceived compares each stored message with itself instead  *)
(* of with the delivered ones: a page that shows anything marks every      *)
(* message to the reader, wherever in the conversation it is.              *)
(***************************************************************************)
MarkReceivedPageOnly(c, u, page) ==
    [i \in 1 .. Len(page) |-> [page[i] EXCEPT !.state = "received"]]

MarkReceivedBoth(c, u, page) ==
    [i \in 1 .. Len(c) |->
        IF page # <<>> THEN [c[i] EXCEPT !.state = "received"] ELSE c[i]]

MarkReceivedUnlessLast(c, u, page) ==
    [i \in 1 .. Len(c) |->
        IF page # <<>> /\ c[i].to = u /\ i < Len(c)
        THEN [c[i] EXCEPT !.state = "received"] ELSE c[i]]

MarkReceived(c, u, page) ==
    [i \in 1 .. Len(c) |->
        IF page # <<>> /\ c[i].to = u
        THEN [c[i] EXCEPT !.state = "received"] ELSE c[i]]

Ids(c) == {c[i].id : i \in 1 .. Len(c)}

IdsTo(u, c) == {c[i].id : i \in {j \in 1 .. Len(c) : c[j].to = u}}

(***************************************************************************)
(* GET /messages/<u>?user=<w>&first=<first>&last=<last>.                   *)
(***************************************************************************)
GetMessages(u, w, first, last, stored) ==
    /\ up
    /\ ValidUsers(u, w)
    /\ GoodInterval(first, last)
    /\ ~PastTheEnd(Len(conv[{u, w}]), first, last)
    /\ LET c    == conv[{u, w}]
           page == Page(c, first, last)
       IN  /\ conv' = IF stored
                      THEN [conv EXCEPT ![{u, w}] = MarkReceived(c, u, page)]
                      ELSE conv
           /\ shown' = shown \cup IdsTo(u, page)
           /\ unmarked' = IF stored THEN unmarked ELSE unmarked \cup IdsTo(u, page)
           /\ readers' = IF page = <<>> THEN readers ELSE readers \cup {<<u, {u, w}>>}
    /\ UNCHANGED <<account, sent, up, acked>>

(***************************************************************************)
(* The out of range reads of doTruncate end in a segmentation fault before *)
(* anything is written.                                                    *)
(***************************************************************************)
GetMessagesPastTheEnd(u, w, first, last) ==
    /\ up
    /\ ValidUsers(u, w)
    /\ GoodInterval(first, last)
    /\ PastTheEnd(Len(conv[{u, w}]), first, last)
    /\ up' = FALSE
    /\ UNCHANGED <<account, conv, sent, acked, shown, unmarked, readers>>

Restart ==
    /\ ~up
    /\ up' = TRUE
    /\ UNCHANGED <<account, conv, sent, acked, shown, unmarked, readers>>

(***************************************************************************)
(* Refused requests (400, 403, 404), and GET /conversations, which only    *)
(* reads.                                                                  *)
(***************************************************************************)
RequestLeavesTalks == up /\ UNCHANGED messagesVars

(***************************************************************************)
(* Accounts come and go; no conversation is touched.                       *)
(***************************************************************************)
SavePersonTalks(u) ==
    /\ up
    /\ Register(u)
    /\ UNCHANGED <<conv, sent, up, acked, shown, unmarked, readers>>

DeletePersonTalks(u) ==
    /\ up
    /\ Unregister(u)
    /\ UNCHANGED <<conv, sent, up, acked, shown, unmarked, readers>>

MessagesNext ==
    \/ \E from, to \in User, stored \in SendOutcomes : PutMessage(from, to, stored)
    \/ \E u, w \in User, first, last \in 0 .. MaxIndex :
          \/ \E stored \in MarkOutcomes : GetMessages(u, w, first, last, stored)
          \/ GetMessagesPastTheEnd(u, w, first, last)
    \/ Restart
    \/ RequestLeavesTalks
    \/ \E u \in User : SavePersonTalks(u) \/ DeletePersonTalks(u)

MessagesSpec == MessagesInit /\ [][MessagesNext]_messagesVars

-----------------------------------------------------------------------------
(***************************************************************************)
(* getAllConversations: with whom u has a conversation, and how many       *)
(* messages it says are unread.                                            *)
(***************************************************************************)
Conversations(u) ==
    {w \in User \ {u} : userExists(w) /\ conv[{u, w}] # <<>>}

Unread(u, w) ==
    {i \in 1 .. Len(conv[{u, w}]) :
        conv[{u, w}][i].to = u /\ conv[{u, w}][i].state = "sent"}

getUnreadCount(u, w) == Cardinality(Unread(u, w))

(***************************************************************************)
(* Persisted: docs/user_story.txt:31, messages must persist: an            *)
(* acknowledged message is in exactly one conversation, that of its sender *)
(* and its recipient, in the order of sending; reading pages and deleting  *)
(* accounts never lose or reorder one.                                     *)
(***************************************************************************)
Persisted ==
    /\ acked = UNION {Ids(conv[p]) : p \in Pair}
    /\ \A p, q \in Pair : p # q => Ids(conv[p]) \cap Ids(conv[q]) = {}
    /\ \A p \in Pair : \A i, j \in 1 .. Len(conv[p]) :
          /\ {conv[p][i].from, conv[p][i].to} = p
          /\ i < j => conv[p][i].id < conv[p][j].id

(***************************************************************************)
(* UnreadAreNew: GET /conversations never counts a message as unread that  *)
(* was shown to its recipient, unless the put that marked it was lost.     *)
(***************************************************************************)
UnreadAreNew ==
    \A u \in User : \A w \in Conversations(u) :
        getUnreadCount(u, w) <=
            Cardinality(IdsTo(u, conv[{u, w}]) \ (shown \ unmarked))

(***************************************************************************)
(* ReceivedWereFetched: a sender sees "received" only after the recipient  *)
(* fetched a page of the conversation.                                     *)
(***************************************************************************)
ReceivedWereFetched ==
    \A p \in Pair : \A i \in 1 .. Len(conv[p]) :
        conv[p][i].state = "received" => <<conv[p][i].to, p>> \in readers

(***************************************************************************)
(* PagesAreWindows: a page that begins within the conversation, or just    *)
(* behind it, shows exactly the messages whose rank from the newest is in  *)
(* the interval asked for (truncateMessages, doTruncate).                  *)
(***************************************************************************)
PagesAreWindows ==
    \A p \in Pair, first, last \in 0 .. MaxIndex :
        LET c == conv[p]
        IN  GoodInterval(first, last) /\ FirstIndex(first) <= Len(c) + 1 =>
                Ids(Page(c, first, last)) =
                    {c[i].id : i \in {j \in 1 .. Len(c) :
                        Len(c) - j + 1 \in FirstIndex(first) .. LastIndex(first, last)}}

(***************************************************************************)
(* ForwardOnly: no step takes a message out of a conversation, or back     *)
(* from received to sent.                                                  *)
(***************************************************************************)
ForwardOnly ==
    [][\A p \in Pair : \A i \in 1 .. Len(conv[p]) :
          /\ i \in 1 .. Len(conv'[p])
          /\ conv'[p][i].id = conv[p][i].id
          /\ conv[p][i].state = "received" => conv'[p][i].state = "received"]_messagesVars

(***************************************************************************)
(* StaysUp: docs/requerimientos.txt:18, the server stays in execution for  *)
(* long periods: no request ends it.                                       *)
(***************************************************************************)
StaysUp == up
===============================================================================
