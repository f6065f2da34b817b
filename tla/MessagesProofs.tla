---------------------------- MODULE MessagesProofs ----------------------------
(***************************************************************************)
(* Proofs about Messages, for any users, page lengths and bounds.  A       *)
(* conversation is read, changed and put back as a whole by both of its    *)
(* users; the inductive invariant says that ids in it are in the order of  *)
(* sending and that no id is in two conversations, so that "the message    *)
(* with this id" is one position of one conversation.                      *)
(***************************************************************************)
EXTENDS Messages, FiniteSetTheorems, TLAPS

USE DEF Accounts, NoAccounts, userExists, ValidUsers, Register, Unregister

(* The messages of a conversation are its users', in the order of sending.   *)
Ordered ==
    \A p \in Pair : \A i, j \in 1 .. Len(conv[p]) :
        /\ {conv[p][i].from, conv[p][i].to} = p
        /\ i < j => conv[p][i].id < conv[p][j].id

(* Ids are numbers of messages sent, and a conversation has no more of them. *)
Numbered ==
    /\ \A p \in Pair : Len(conv[p]) <= sent
    /\ \A p \in Pair : \A i \in 1 .. Len(conv[p]) : conv[p][i].id <= sent
    /\ \A k \in shown : k <= sent

(* No id is in two conversations.                                            *)
Apart ==
    \A p, q \in Pair : \A i \in 1 .. Len(conv[p]), j \in 1 .. Len(conv[q]) :
        conv[p][i].id = conv[q][j].id => p = q

(* What is stored as "sent" was not shown, or its marking was lost.          *)
SentAreNew ==
    \A p \in Pair : \A i \in 1 .. Len(conv[p]) :
        conv[p][i].state = "sent" => conv[p][i].id \notin shown \ unmarked

(* What is stored was acknowledged.                                          *)
StoredAreAcked ==
    \A p \in Pair : \A i \in 1 .. Len(conv[p]) : conv[p][i].id \in acked

IInv ==
    /\ MessagesTypeOK
    /\ Ordered
    /\ Numbered
    /\ Apart
    /\ SentAreNew
    /\ StoredAreAcked
    /\ ReceivedWereFetched

-----------------------------------------------------------------------------
(* Two different users have a conversation.                                  *)
LEMMA PairOf ==
    ASSUME NEW u \in User, NEW w \in User, u # w
    PROVE  {u, w} \in Pair
<1>1. \A x \in User : {u, w} # {x}
  OBVIOUS
<1>2. QED
  BY <1>1 DEF Pair

(* What is stored is a message.                                              *)
LEMMA StoredMessage ==
    ASSUME MessagesTypeOK, NEW q \in Pair, NEW i \in 1 .. Len(conv[q])
    PROVE  conv[q][i] \in Message /\ conv[q][i].id \in Nat /\ Len(conv[q]) \in Nat
<1>1. conv[q] \in Seq(Message)
  BY DEF MessagesTypeOK
<1>2. conv[q][i] \in Message /\ Len(conv[q]) \in Nat
  BY <1>1
<1>3. QED
  BY <1>2 DEF Message, MessageId

(* Marking changes nothing but states, and those to the reader's side.       *)
LEMMA MarkedConversation ==
    ASSUME NEW c \in Seq(Message), NEW u, NEW page
    PROVE  LET d == MarkReceived(c, u, page)
           IN  /\ d \in Seq(Message) /\ Len(d) = Len(c)
               /\ \A i \in 1 .. Len(c) :
                     /\ d[i].id = c[i].id /\ d[i].from = c[i].from /\ d[i].to = c[i].to
                     /\ d[i].state = IF page # <<>> /\ c[i].to = u THEN "received"
                                     ELSE c[i].state
<1> DEFINE d == MarkReceived(c, u, page)
<1>1. \A i \in 1 .. Len(c) : c[i] \in Message
  OBVIOUS
<1>2. ASSUME NEW i \in 1 .. Len(c)
      PROVE  /\ d[i] \in Message
             /\ d[i].id = c[i].id /\ d[i].from = c[i].from /\ d[i].to = c[i].to
             /\ d[i].state = IF page # <<>> /\ c[i].to = u THEN "received"
                             ELSE c[i].state
  BY <1>1 DEF MarkReceived, Message
<1>3. DOMAIN d = 1 .. Len(c) /\ Len(c) \in Nat /\ d = [i \in 1 .. Len(c) |-> d[i]]
  BY DEF MarkReceived
<1> HIDE DEF d
<1>4. d \in Seq(Message) /\ Len(d) = Len(c)
  BY <1>2, <1>3
<1>5. QED
  BY <1>2, <1>4 DEF d

(* The sequence s holds positions a to b of the conversation c.              *)
Slice(s, c, a, b) ==
    /\ s \in Seq(Message)
    /\ \A k \in 1 .. Len(s) : a + k - 1 \in a .. b /\ s[k] = c[a + k - 1]
    /\ \A i \in a .. b : i - a + 1 \in 1 .. Len(s) /\ s[i - a + 1] = c[i]

LEMMA Positions ==
    ASSUME NEW c \in Seq(Message), NEW a \in Nat, a >= 1, NEW b \in Nat, b <= Len(c)
    PROVE  Slice(SubSeq(c, a, b), c, a, b)
<1>1. \A i \in a .. b : i \in 1 .. Len(c) /\ c[i] \in Message
  OBVIOUS
<1>2. Len(SubSeq(c, a, b)) = IF a <= b THEN b - a + 1 ELSE 0
  OBVIOUS
<1>3. SubSeq(c, a, b) \in Seq(Message)
  BY <1>1
<1>4. \A k \in 1 .. b - a + 1 : SubSeq(c, a, b)[k] = c[a + k - 1]
  BY <1>1
<1>5. \A i \in a .. b : i - a + 1 \in 1 .. b - a + 1 /\ a + (i - a + 1) - 1 = i
  OBVIOUS
<1>6. QED
  BY <1>2, <1>3, <1>4, <1>5 DEF Slice

(* A page that does not begin past the end shows messages of its             *)
(* conversation.                                                             *)
LEMMA PageOfConversation ==
    ASSUME NEW c \in Seq(Message), NEW first \in 0 .. MaxIndex, NEW last \in 0 .. MaxIndex,
           ~PastTheEnd(Len(c), first, last)
    PROVE  /\ Page(c, first, last) \in Seq(Message)
           /\ \A k \in 1 .. Len(Page(c, first, last)) :
                 \E i \in 1 .. Len(c) : Page(c, first, last)[k] = c[i]
<1> DEFINE b == PageBounds(Len(c), first, last)
<1>1. /\ Len(c) \in Nat /\ LastIndex(first, last) \in Nat /\ FirstIndex(first) \in Nat
      /\ WordSize \in Nat \ {0}
  BY BoundsAssumption, WordAssumption DEF LastIndex, FirstIndex
<1>2. b.from \in Nat /\ b.from >= 1
  BY <1>1 DEF PageBounds, Clamp
<1>3. b.to \in Nat /\ b.to <= Len(c)
  <2>1. Len(c) - FirstIndex(first) + 1 \in Int
    BY <1>1
  <2>2. (Len(c) - FirstIndex(first) + 1) % WordSize \in 0 .. WordSize - 1
    BY <1>1, <2>1
  <2>3. QED
    BY <1>1, <2>2 DEF PageBounds, PastTheEnd
<1>4. Page(c, first, last) = SubSeq(c, b.from, b.to)
  BY DEF Page
<1> HIDE DEF b
<1>5. Slice(SubSeq(c, b.from, b.to), c, b.from, b.to)
  BY <1>2, <1>3, Positions
<1>6. \A i \in b.from .. b.to : i \in 1 .. Len(c)
  BY <1>1, <1>2, <1>3
<1>7. QED
  BY <1>4, <1>5, <1>6 DEF Slice

-----------------------------------------------------------------------------
(* No conversation satisfies the invariant.                                  *)
LEMMA InitInv == MessagesInit => IInv
<1> SUFFICES ASSUME MessagesInit PROVE IInv
  OBVIOUS
<1>1. \A p \in Pair : conv[p] = <<>> /\ Len(conv[p]) = 0
  BY DEF MessagesInit
<1>2. MessagesTypeOK
  BY BoundsAssumption DEF MessagesInit, MessagesTypeOK
<1>3. Ordered /\ Apart /\ SentAreNew /\ StoredAreAcked /\ ReceivedWereFetched
  BY <1>1 DEF Ordered, Apart, SentAreNew, StoredAreAcked, ReceivedWereFetched
<1>4. Numbered
  BY <1>1 DEF MessagesInit, Numbered
<1>5. QED
  BY <1>2, <1>3, <1>4 DEF IInv

(* What sending does to the conversations: one of them may have the new      *)
(* message behind all others.                                                *)
SendStep(p, m, stored) ==
    /\ p \in Pair /\ m \in Message /\ m.id = sent + 1
    /\ {m.from, m.to} = p /\ m.state = "sent"
    /\ conv' \in [Pair -> Seq(Message)]
    /\ \A q \in Pair :
          /\ Len(conv'[q]) \in {Len(conv[q]), Len(conv[q]) + 1}
          /\ Len(conv'[q]) = Len(conv[q]) + 1 <=> q = p /\ stored
          /\ \A i \in 1 .. Len(conv'[q]) :
                conv'[q][i] = IF i <= Len(conv[q]) THEN conv[q][i] ELSE m

LEMMA SentConversations ==
    ASSUME MessagesTypeOK, NEW from \in User, NEW to \in User, NEW stored,
           PutMessage(from, to, stored)
    PROVE  SendStep({from, to}, NewMessage(from, to), stored)
<1> DEFINE m == NewMessage(from, to)
           p == {from, to}
<1>1. p \in Pair
  BY PairOf DEF PutMessage, ValidUsers
<1>2. m \in Message /\ m.id = sent + 1 /\ m.from = from /\ m.to = to /\ m.state = "sent"
  BY BoundsAssumption DEF NewMessage, Message, MessageId, PutMessage, MessagesTypeOK
<1> HIDE DEF m
<1>3. \A q \in Pair : conv[q] \in Seq(Message) /\ Len(conv[q]) \in Nat
  BY DEF MessagesTypeOK
<1>4. DOMAIN conv = Pair
  BY DEF MessagesTypeOK
<1>5. CASE stored
  <2>1. conv' = [conv EXCEPT ![p] = Append(@, m)]
    BY <1>5 DEF PutMessage, m
  <2>2. /\ Append(conv[p], m) \in Seq(Message)
        /\ Len(Append(conv[p], m)) = Len(conv[p]) + 1
        /\ \A i \in 1 .. Len(conv[p]) + 1 :
              Append(conv[p], m)[i] = IF i <= Len(conv[p]) THEN conv[p][i] ELSE m
    BY <1>1, <1>2, <1>3
  <2>3. conv'[p] = Append(conv[p], m) /\ \A q \in Pair : q # p => conv'[q] = conv[q]
    BY <1>1, <1>4, <2>1
  <2>4. conv' \in [Pair -> Seq(Message)]
    BY <1>3, <1>4, <2>1, <2>2
  <2> HIDE DEF p
  <2>5. ASSUME NEW q \in Pair
        PROVE  /\ Len(conv'[q]) \in {Len(conv[q]), Len(conv[q]) + 1}
               /\ Len(conv'[q]) = Len(conv[q]) + 1 <=> q = p /\ stored
               /\ \A i \in 1 .. Len(conv'[q]) :
                     conv'[q][i] = IF i <= Len(conv[q]) THEN conv[q][i] ELSE m
    <3>1. CASE q = p
      BY <1>5, <2>2, <2>3, <3>1
    <3>2. CASE q # p
      BY <1>3, <2>3, <3>2
    <3>3. QED
      BY <3>1, <3>2
  <2>6. QED
    BY <1>1, <1>2, <2>4, <2>5 DEF SendStep, m, p
<1>6. CASE ~stored
  <2>1. conv' = conv
    BY <1>6 DEF PutMessage
  <2>2. \A q \in Pair : Len(conv[q]) # Len(conv[q]) + 1
    BY <1>3
  <2>3. conv' \in [Pair -> Seq(Message)]
    BY <2>1 DEF MessagesTypeOK
  <2>4. QED
    BY <1>1, <1>2, <1>3, <1>6, <2>1, <2>2, <2>3 DEF SendStep, m
<1>7. QED
  BY <1>5, <1>6

(* Sending keeps the invariant: the new id is larger than all others.        *)
LEMMA PutInv ==
    ASSUME IInv, NEW from \in User, NEW to \in User, NEW stored,
           PutMessage(from, to, stored)
    PROVE  IInv'
<1> DEFINE m == NewMessage(from, to)
           p == {from, to}
<1>0. SendStep(p, m, stored)
  BY SentConversations DEF IInv
<1> HIDE DEF m, p
<1>1. /\ p \in Pair /\ m \in Message /\ m.id = sent + 1
      /\ {m.from, m.to} = p /\ m.state = "sent"
      /\ conv' \in [Pair -> Seq(Message)]
  BY <1>0 DEF SendStep
<1>2. \A q \in Pair :
         /\ Len(conv'[q]) \in {Len(conv[q]), Len(conv[q]) + 1}
         /\ Len(conv'[q]) = Len(conv[q]) + 1 => q = p
         /\ \A i \in 1 .. Len(conv'[q]) :
               conv'[q][i] = IF i <= Len(conv[q]) THEN conv[q][i] ELSE m
  BY <1>0 DEF SendStep
<1>3. /\ sent \in Nat /\ sent' = sent + 1 /\ sent < MaxMessages
      /\ acked' = acked \cup {sent + 1}
      /\ UNCHANGED <<account, up, shown, unmarked, readers>>
  BY BoundsAssumption DEF PutMessage, IInv, MessagesTypeOK
<1>4. \A q \in Pair : Len(conv[q]) \in Nat /\ Len(conv'[q]) \in Nat
  BY <1>1 DEF IInv, MessagesTypeOK
<1>5. \A q \in Pair : \A i \in 1 .. Len(conv'[q]) :
         \/ i \in 1 .. Len(conv[q]) /\ conv'[q][i] = conv[q][i]
         \/ q = p /\ i = Len(conv[q]) + 1 /\ conv'[q][i] = m
  BY <1>2, <1>4
<1>6. \A q \in Pair : \A i \in 1 .. Len(conv[q]) :
         conv[q][i].id \in Nat /\ conv[q][i].id <= sent
  BY StoredMessage DEF IInv, Numbered
<1>7. MessagesTypeOK'
  BY <1>1, <1>3, BoundsAssumption DEF IInv, MessagesTypeOK, MessageId
<1>8. Ordered'
  <2>1. ASSUME NEW q \in Pair, NEW i \in 1 .. Len(conv'[q]), NEW j \in 1 .. Len(conv'[q])
        PROVE  /\ {conv'[q][i].from, conv'[q][i].to} = q
               /\ i < j => conv'[q][i].id < conv'[q][j].id
    <3>1. {conv'[q][i].from, conv'[q][i].to} = q
      <4>1. CASE i \in 1 .. Len(conv[q]) /\ conv'[q][i] = conv[q][i]
        BY <4>1 DEF IInv, Ordered
      <4>2. CASE q = p /\ conv'[q][i] = m
        BY <1>1, <4>2
      <4>3. QED
        BY <1>5, <4>1, <4>2
    <3>2. ASSUME i < j, j \in 1 .. Len(conv[q])
          PROVE  conv'[q][i].id < conv'[q][j].id
      <4>1. i \in 1 .. Len(conv[q])
        BY <1>4, <3>2
      <4>2. conv'[q][i] = conv[q][i] /\ conv'[q][j] = conv[q][j]
        BY <1>2, <1>4, <3>2, <4>1
      <4>3. QED
        BY <3>2, <4>1, <4>2 DEF IInv, Ordered
    <3>3. ASSUME i < j, conv'[q][j] = m, j = Len(conv[q]) + 1
          PROVE  conv'[q][i].id < conv'[q][j].id
      <4>1. i \in 1 .. Len(conv[q])
        BY <1>4, <3>3
      <4>2. conv'[q][i] = conv[q][i]
        BY <1>2, <1>4, <4>1
      <4>3. QED
        BY <1>1, <1>3, <1>6, <3>3, <4>1, <4>2
    <3>4. QED
      BY <1>5, <3>1, <3>2, <3>3
  <2>2. QED
    BY <2>1 DEF Ordered
<1>9. Numbered'
  <2>1. \A q \in Pair : Len(conv'[q]) <= sent'
    BY <1>2, <1>3, <1>4 DEF IInv, Numbered
  <2>2. \A q \in Pair : \A i \in 1 .. Len(conv'[q]) : conv'[q][i].id <= sent'
    BY <1>1, <1>3, <1>5, <1>6
  <2>3. \A k \in shown' : k <= sent'
    BY <1>3 DEF IInv, MessagesTypeOK, Numbered, MessageId
  <2>4. QED
    BY <2>1, <2>2, <2>3 DEF Numbered
<1>10. Apart'
  <2>1. ASSUME NEW q \in Pair, NEW r \in Pair, NEW i \in 1 .. Len(conv'[q]),
               NEW j \in 1 .. Len(conv'[r]), conv'[q][i].id = conv'[r][j].id
        PROVE  q = r
    <3>1. CASE i \in 1 .. Len(conv[q]) /\ j \in 1 .. Len(conv[r])
      <4>1. conv'[q][i] = conv[q][i] /\ conv'[r][j] = conv[r][j]
        BY <1>2, <1>4, <3>1
      <4>2. QED
        BY <2>1, <3>1, <4>1 DEF IInv, Apart
    <3>2. CASE i \notin 1 .. Len(conv[q]) /\ j \in 1 .. Len(conv[r])
      <4>1. conv'[q][i] = m /\ conv'[r][j] = conv[r][j]
        BY <1>2, <1>4, <1>5, <3>2
      <4>2. conv[r][j].id \in Nat /\ conv[r][j].id <= sent
        BY <1>6, <3>2
      <4>3. conv'[q][i].id # conv'[r][j].id
        BY <1>1, <1>3, <4>1, <4>2
      <4>4. QED
        BY <2>1, <4>3
    <3>3. CASE i \in 1 .. Len(conv[q]) /\ j \notin 1 .. Len(conv[r])
      <4>1. conv'[q][i] = conv[q][i] /\ conv'[r][j] = m
        BY <1>2, <1>4, <1>5, <3>3
      <4>2. conv[q][i].id \in Nat /\ conv[q][i].id <= sent
        BY <1>6, <3>3
      <4>3. conv'[q][i].id # conv'[r][j].id
        BY <1>1, <1>3, <4>1, <4>2
      <4>4. QED
        BY <2>1, <4>3
    <3>4. CASE i \notin 1 .. Len(conv[q]) /\ j \notin 1 .. Len(conv[r])
      BY <1>5, <3>4
    <3>5. QED
      BY <3>1, <3>2, <3>3, <3>4
  <2>2. QED
    BY <2>1 DEF Apart
<1>11. SentAreNew'
  <2>1. sent + 1 \notin shown
    BY <1>3 DEF IInv, Numbered
  <2>2. QED
    BY <1>1, <1>3, <1>5, <2>1 DEF IInv, SentAreNew
<1>12. StoredAreAcked'
  BY <1>1, <1>3, <1>5 DEF IInv, StoredAreAcked
<1>13. ReceivedWereFetched'
  BY <1>1, <1>3, <1>5 DEF IInv, ReceivedWereFetched
<1>14. QED
  BY <1>7, <1>8, <1>9, <1>10, <1>11, <1>12, <1>13 DEF IInv

-----------------------------------------------------------------------------
(* What reading does: messages to the reader may change their state to       *)
(* "received", and those that she is shown do unless the put is lost.        *)
ReadStep(u, p, page, stored) ==
    /\ p \in Pair
    /\ conv' \in [Pair -> Seq(Message)]
    /\ \A q \in Pair : Len(conv'[q]) = Len(conv[q])
    /\ \A q \in Pair : \A i \in 1 .. Len(conv[q]) :
          /\ conv'[q][i].id = conv[q][i].id
          /\ conv'[q][i].from = conv[q][i].from
          /\ conv'[q][i].to = conv[q][i].to
          /\ conv'[q][i].state = IF q = p /\ stored /\ page # <<>> /\ conv[q][i].to = u
                                THEN "received" ELSE conv[q][i].state
    /\ \A k \in IdsTo(u, page) :
          /\ page # <<>>
          /\ \E i \in 1 .. Len(conv[p]) : conv[p][i].id = k /\ conv[p][i].to = u

LEMMA ReadConversations ==
    ASSUME MessagesTypeOK, NEW u \in User, NEW w \in User, NEW first \in 0 .. MaxIndex,
           NEW last \in 0 .. MaxIndex, NEW stored \in BOOLEAN,
           GetMessages(u, w, first, last, stored)
    PROVE  ReadStep(u, {u, w}, Page(conv[{u, w}], first, last), stored)
<1> DEFINE p    == {u, w}
           page == Page(conv[p], first, last)
<1>1. p \in Pair
  BY PairOf DEF GetMessages, ValidUsers
<1>2. \A q \in Pair : conv[q] \in Seq(Message)
  BY DEF MessagesTypeOK
<1>3. /\ page \in Seq(Message)
      /\ \A k \in 1 .. Len(page) : \E i \in 1 .. Len(conv[p]) : page[k] = conv[p][i]
  BY <1>1, <1>2, PageOfConversation DEF GetMessages
<1>4. DOMAIN conv = Pair
  BY DEF MessagesTypeOK
<1>5. conv' = IF stored THEN [conv EXCEPT ![p] = MarkReceived(conv[p], u, page)] ELSE conv
  BY DEF GetMessages
<1> HIDE DEF p, page
<1>6. \A k \in IdsTo(u, page) :
         /\ page # <<>>
         /\ \E i \in 1 .. Len(conv[p]) : conv[p][i].id = k /\ conv[p][i].to = u
  <2>1. ASSUME NEW k \in IdsTo(u, page)
        PROVE  /\ page # <<>>
               /\ \E i \in 1 .. Len(conv[p]) : conv[p][i].id = k /\ conv[p][i].to = u
    <3>1. PICK j \in 1 .. Len(page) : page[j].to = u /\ page[j].id = k
      BY DEF IdsTo
    <3>2. page # <<>>
      BY <1>3, <3>1
    <3>3. QED
      BY <1>3, <3>1, <3>2
  <2>2. QED
    BY <2>1
<1> DEFINE d == MarkReceived(conv[p], u, page)
<1>7. /\ d \in Seq(Message) /\ Len(d) = Len(conv[p])
      /\ \A i \in 1 .. Len(conv[p]) :
            /\ d[i].id = conv[p][i].id /\ d[i].from = conv[p][i].from
            /\ d[i].to = conv[p][i].to
            /\ d[i].state = IF page # <<>> /\ conv[p][i].to = u THEN "received"
                            ELSE conv[p][i].state
  BY <1>1, <1>2, MarkedConversation
<1>8. conv' = IF stored THEN [conv EXCEPT ![p] = d] ELSE conv
  BY <1>5
<1> HIDE DEF d
<1>9. /\ \A q \in Pair : q # p \/ ~stored => conv'[q] = conv[q]
      /\ stored => conv'[p] = d
  BY <1>1, <1>4, <1>8
<1>10. conv' \in [Pair -> Seq(Message)]
  BY <1>7, <1>8 DEF MessagesTypeOK
<1>11. ASSUME NEW q \in Pair
       PROVE  /\ Len(conv'[q]) = Len(conv[q])
              /\ \A i \in 1 .. Len(conv[q]) :
                    /\ conv'[q][i].id = conv[q][i].id
                    /\ conv'[q][i].from = conv[q][i].from
                    /\ conv'[q][i].to = conv[q][i].to
                    /\ conv'[q][i].state =
                          IF q = p /\ stored /\ page # <<>> /\ conv[q][i].to = u
                          THEN "received" ELSE conv[q][i].state
  <2>1. CASE q # p \/ ~stored
    BY <1>9, <2>1
  <2>2. CASE q = p /\ stored
    BY <1>7, <1>9, <2>2
  <2>3. QED
    BY <2>1, <2>2
<1>12. QED
  BY <1>1, <1>6, <1>10, <1>11 DEF ReadStep, p, page

(* Reading keeps the invariant: ids tell the messages shown from all others. *)
LEMMA GetInv ==
    ASSUME IInv, NEW u \in User, NEW w \in User, NEW first \in 0 .. MaxIndex,
           NEW last \in 0 .. MaxIndex, NEW stored \in BOOLEAN,
           GetMessages(u, w, first, last, stored)
    PROVE  IInv'
<1> DEFINE p    == {u, w}
           page == Page(conv[p], first, last)
<1>0. ReadStep(u, p, page, stored)
  BY ReadConversations DEF IInv
<1>1. /\ shown' = shown \cup IdsTo(u, page)
      /\ unmarked' = IF stored THEN unmarked ELSE unmarked \cup IdsTo(u, page)
      /\ readers' = IF page = <<>> THEN readers ELSE readers \cup {<<u, p>>}
      /\ UNCHANGED <<account, sent, up, acked>>
  BY DEF GetMessages
<1> HIDE DEF p, page
<1>2. /\ p \in Pair
      /\ conv' \in [Pair -> Seq(Message)]
      /\ \A q \in Pair : Len(conv'[q]) = Len(conv[q])
  BY <1>0 DEF ReadStep
<1>3. \A q \in Pair : \A i \in 1 .. Len(conv[q]) :
         /\ conv'[q][i].id = conv[q][i].id
         /\ conv'[q][i].from = conv[q][i].from
         /\ conv'[q][i].to = conv[q][i].to
         /\ conv'[q][i].state = IF q = p /\ stored /\ page # <<>> /\ conv[q][i].to = u
                               THEN "received" ELSE conv[q][i].state
  BY <1>0 DEF ReadStep
<1>4. \A k \in IdsTo(u, page) :
         /\ page # <<>>
         /\ \E i \in 1 .. Len(conv[p]) : conv[p][i].id = k /\ conv[p][i].to = u
  BY <1>0 DEF ReadStep
<1>5. IdsTo(u, page) \subseteq MessageId
  BY <1>2, <1>4, StoredMessage DEF IInv, Message
<1>6. MessagesTypeOK'
  BY <1>2, <1>1, <1>5 DEF IInv, MessagesTypeOK
<1>7. Ordered' /\ Apart'
  <2>1. Ordered'
    <3>1. ASSUME NEW q \in Pair, NEW i \in 1 .. Len(conv[q]), NEW j \in 1 .. Len(conv[q])
          PROVE  /\ {conv'[q][i].from, conv'[q][i].to} = q
                 /\ i < j => conv'[q][i].id < conv'[q][j].id
      <4>1. /\ {conv[q][i].from, conv[q][i].to} = q
            /\ i < j => conv[q][i].id < conv[q][j].id
        BY DEF IInv, Ordered
      <4>2. QED
        BY <1>3, <4>1
    <3>2. QED
      BY <1>2, <3>1 DEF Ordered
  <2>2. Apart'
    BY <1>2, <1>3 DEF IInv, Apart
  <2>3. QED
    BY <2>1, <2>2
<1>8. Numbered'
  <2>1. \A k \in IdsTo(u, page) : k <= sent
    BY <1>2, <1>4 DEF IInv, Numbered
  <2>2. QED
    BY <1>2, <1>3, <1>1, <2>1 DEF IInv, Numbered
<1>9. StoredAreAcked'
  BY <1>2, <1>3, <1>1 DEF IInv, StoredAreAcked
<1>10. ReceivedWereFetched'
  BY <1>2, <1>3, <1>1 DEF IInv, ReceivedWereFetched
<1>11. SentAreNew'
  <2>1. ASSUME NEW q \in Pair, NEW i \in 1 .. Len(conv[q]), conv'[q][i].state = "sent",
               conv[q][i].id \in shown' \ unmarked'
        PROVE  FALSE
    <3>1. conv[q][i].state = "sent"
      BY <1>3, <2>1
    <3>2. conv[q][i].id \notin shown \ unmarked
      BY <3>1 DEF IInv, SentAreNew
    <3>3. stored /\ conv[q][i].id \in IdsTo(u, page)
      BY <1>1, <2>1, <3>2
    <3>4. PICK j \in 1 .. Len(conv[p]) : conv[p][j].id = conv[q][i].id /\ conv[p][j].to = u
      BY <1>4, <3>3
    <3>5. q = p
      BY <1>2, <3>4 DEF IInv, Apart
    <3>6. i = j
      <4>1. conv[p][i].id \in Nat
        BY <1>2, <3>5, StoredMessage DEF IInv
      <4>2. ~(i < j) /\ ~(j < i)
        BY <1>2, <3>4, <3>5, <4>1 DEF IInv, Ordered
      <4>3. QED
        BY <3>5, <4>2
    <3>7. page # <<>>
      BY <1>4, <3>3
    <3>8. QED
      BY <1>3, <2>1, <3>3, <3>4, <3>5, <3>6, <3>7
  <2>2. QED
    BY <1>2, <1>3, <2>1 DEF SentAreNew
<1>12. QED
  BY <1>6, <1>7, <1>8, <1>9, <1>10, <1>11 DEF IInv

(* Every step of the system keeps the invariant.                             *)
LEMMA NextInv == IInv /\ [MessagesNext]_messagesVars => IInv'
<1> SUFFICES ASSUME IInv, [MessagesNext]_messagesVars PROVE IInv'
  OBVIOUS
<1>1. ASSUME NEW from \in User, NEW to \in User, NEW stored \in SendOutcomes,
             PutMessage(from, to, stored)
      PROVE  IInv'
  BY <1>1, PutInv
<1>2. ASSUME NEW u \in User, NEW w \in User, NEW first \in 0 .. MaxIndex,
             NEW last \in 0 .. MaxIndex, NEW stored \in MarkOutcomes,
             GetMessages(u, w, first, last, stored)
      PROVE  IInv'
  BY <1>2, GetInv, OutcomesAssumption
<1>3. ASSUME UNCHANGED <<conv, sent, acked, shown, unmarked, readers>>, MessagesTypeOK'
      PROVE  IInv'
  BY <1>3 DEF IInv, Ordered, Numbered, Apart, SentAreNew, StoredAreAcked,
              ReceivedWereFetched
<1>4. ASSUME NEW u \in User, SavePersonTalks(u) \/ DeletePersonTalks(u)
      PROVE  IInv'
  BY <1>3, <1>4 DEF SavePersonTalks, DeletePersonTalks, IInv, MessagesTypeOK
<1>5. CASE Restart \/ UNCHANGED messagesVars
  BY <1>3, <1>5 DEF Restart, messagesVars, IInv, MessagesTypeOK
<1>6. ASSUME NEW u \in User, NEW w \in User, NEW first \in 0 .. MaxIndex,
             NEW last \in 0 .. MaxIndex, GetMessagesPastTheEnd(u, w, first, last)
      PROVE  IInv'
  BY <1>3, <1>6 DEF GetMessagesPastTheEnd, IInv, MessagesTypeOK
<1>7. QED
  BY <1>1, <1>2, <1>4, <1>5, <1>6 DEF MessagesNext, RequestLeavesTalks

(***************************************************************************)
(* The inductive invariant holds in every reachable state, whichever puts  *)
(* fail.                                                                   *)
(***************************************************************************)
THEOREM Inductive == MessagesSpec => []IInv
BY InitInv, NextInv, PTL DEF MessagesSpec

(***************************************************************************)
(* Every reachable state of the conversations is well typed.               *)
(***************************************************************************)
THEOREM TypeCorrect == MessagesSpec => []MessagesTypeOK
<1>1. IInv => MessagesTypeOK
  BY DEF IInv
<1>2. QED
  BY <1>1, Inductive, PTL

(***************************************************************************)
(* A sender sees "received" only after the recipient fetched a page of the *)
(* conversation, for any users, pages and failures of puts.                *)
(***************************************************************************)
THEOREM ReceivedMeansFetched == MessagesSpec => []ReceivedWereFetched
<1>1. IInv => ReceivedWereFetched
  BY DEF IInv
<1>2. QED
  BY <1>1, Inductive, PTL

-----------------------------------------------------------------------------
(* Every acknowledged message is stored, if no put of a message fails.       *)
AllStored ==
    \A k \in acked : \E p \in Pair : \E i \in 1 .. Len(conv[p]) : conv[p][i].id = k

(* A put appends, and marking puts back what it read.                        *)
LEMMA AllStoredStep ==
    ASSUME SendOutcomes = {TRUE}, IInv, AllStored, [MessagesNext]_messagesVars
    PROVE  AllStored'
<1>1. ASSUME NEW from \in User, NEW to \in User, PutMessage(from, to, TRUE)
      PROVE  AllStored'
  <2> DEFINE m == NewMessage(from, to)
             p == {from, to}
  <2>1. SendStep(p, m, TRUE)
    BY <1>1, SentConversations DEF IInv
  <2> HIDE DEF m, p
  <2>2. acked' = acked \cup {sent + 1}
    BY <1>1 DEF PutMessage
  <2>3. \A q \in Pair : Len(conv[q]) \in Nat
    BY DEF IInv, MessagesTypeOK
  <2>4. p \in Pair /\ Len(conv'[p]) \in 1 .. Len(conv'[p]) /\ conv'[p][Len(conv'[p])].id = sent + 1
    BY <2>1, <2>3 DEF SendStep
  <2>5. \A q \in Pair : \A i \in 1 .. Len(conv[q]) :
           i \in 1 .. Len(conv'[q]) /\ conv'[q][i] = conv[q][i]
    BY <2>1, <2>3 DEF SendStep
  <2>6. ASSUME NEW k \in acked'
        PROVE  \E q \in Pair : \E i \in 1 .. Len(conv'[q]) : conv'[q][i].id = k
    <3>1. CASE k = sent + 1
      BY <2>4, <3>1
    <3>2. CASE k \in acked
      <4>1. PICK q \in Pair : \E i \in 1 .. Len(conv[q]) : conv[q][i].id = k
        BY <3>2 DEF AllStored
      <4>2. QED
        BY <2>5, <4>1
    <3>3. QED
      BY <2>2, <3>1, <3>2
  <2>7. QED
    BY <2>6 DEF AllStored
<1>2. ASSUME NEW u \in User, NEW w \in User, NEW first \in 0 .. MaxIndex,
             NEW last \in 0 .. MaxIndex, NEW stored \in MarkOutcomes,
             GetMessages(u, w, first, last, stored)
      PROVE  AllStored'
  <2>1. ReadStep(u, {u, w}, Page(conv[{u, w}], first, last), stored)
    BY <1>2, ReadConversations, OutcomesAssumption DEF IInv
  <2>2. \A q \in Pair : /\ Len(conv'[q]) = Len(conv[q])
                        /\ \A i \in 1 .. Len(conv[q]) : conv'[q][i].id = conv[q][i].id
    BY <2>1 DEF ReadStep
  <2>3. acked' = acked
    BY <1>2 DEF GetMessages
  <2>4. QED
    BY <2>2, <2>3 DEF AllStored
<1>3. ASSUME UNCHANGED <<conv, acked>> PROVE AllStored'
  BY <1>3 DEF AllStored
<1>4. QED
  BY <1>1, <1>2, <1>3
     DEF MessagesNext, GetMessagesPastTheEnd, Restart, RequestLeavesTalks, SavePersonTalks,
         DeletePersonTalks, messagesVars

(***************************************************************************)
(* No message is lost, reordered or stored twice once its sender got a     *)
(* 200, as long as the puts of saveMessage succeed: whatever the two users *)
(* read meanwhile, whether or not those puts fail, and whoever deletes her *)
(* account.                                                                *)
(***************************************************************************)
THEOREM MessagesPersist ==
    ASSUME SendOutcomes = {TRUE} PROVE MessagesSpec => []Persisted
<1>1. MessagesInit => AllStored
  BY DEF MessagesInit, AllStored
<1>2. MessagesSpec => [](IInv /\ AllStored)
  <2>1. IInv /\ AllStored /\ [MessagesNext]_messagesVars => AllStored'
    BY AllStoredStep
  <2>2. QED
    BY <1>1, <2>1, InitInv, NextInv, PTL DEF MessagesSpec
<1>3. IInv /\ AllStored => Persisted
  <2> SUFFICES ASSUME IInv, AllStored PROVE Persisted
    OBVIOUS
  <2>1. \A p \in Pair : \A k : k \in Ids(conv[p]) <=> \E i \in 1 .. Len(conv[p]) : conv[p][i].id = k
    BY DEF Ids
  <2>2. acked = UNION {Ids(conv[p]) : p \in Pair}
    <3>1. ASSUME NEW k \in acked PROVE k \in UNION {Ids(conv[p]) : p \in Pair}
      BY <2>1 DEF AllStored
    <3>2. ASSUME NEW p \in Pair, NEW k \in Ids(conv[p]) PROVE k \in acked
      BY <2>1 DEF IInv, StoredAreAcked
    <3>3. QED
      BY <3>1, <3>2
  <2>3. \A p, q \in Pair : p # q => Ids(conv[p]) \cap Ids(conv[q]) = {}
    <3>1. ASSUME NEW p \in Pair, NEW q \in Pair, NEW k \in Ids(conv[p]), k \in Ids(conv[q])
          PROVE  p = q
      <4>1. PICK i \in 1 .. Len(conv[p]) : conv[p][i].id = k
        BY <2>1
      <4>2. PICK j \in 1 .. Len(conv[q]) : conv[q][j].id = k
        BY <2>1, <3>1
      <4>3. QED
        BY <4>1, <4>2 DEF IInv, Apart
    <3>2. QED
      BY <3>1
  <2>4. QED
    BY <2>2, <2>3 DEF IInv, Ordered, Persisted
<1>4. QED
  BY <1>2, <1>3, PTL

-----------------------------------------------------------------------------
(***************************************************************************)
(* GET /conversations counts no message as unread that its recipient was   *)
(* shown, unless the put that marked it was lost: an unread position leads *)
(* to an id that was not shown, and no two positions to the same one.      *)
(***************************************************************************)
THEOREM UnreadMessagesAreNew == MessagesSpec => []UnreadAreNew
<1>1. ASSUME IInv, NEW u \in User, NEW w \in Conversations(u)
      PROVE  getUnreadCount(u, w) <= Cardinality(IdsTo(u, conv[{u, w}]) \ (shown \ unmarked))
  <2> DEFINE p == {u, w}
             S == Unread(u, w)
             T == IdsTo(u, conv[p]) \ (shown \ unmarked)
             f == [i \in S |-> conv[p][i].id]
  <2>1. p \in Pair
    BY <1>1, PairOf DEF Conversations
  <2>2. \A i \in 1 .. Len(conv[p]) : conv[p][i].id \in MessageId
    BY <1>1, <2>1, StoredMessage DEF IInv, Message
  <2>3. IsFiniteSet(T)
    <3>1. T \subseteq 1 .. MaxMessages
      BY <2>2 DEF IdsTo, MessageId
    <3>2. IsFiniteSet(1 .. MaxMessages)
      BY BoundsAssumption, FS_Interval
    <3>3. QED
      BY <3>1, <3>2, FS_Subset
  <2>4. \A i \in S : i \in 1 .. Len(conv[p]) /\ conv[p][i].id \in T
    BY <1>1, <2>1 DEF Unread, IdsTo, IInv, SentAreNew
  <2> HIDE DEF p
  <2>5. \A i, j \in 1 .. Len(conv[p]) : conv[p][i].id = conv[p][j].id => i = j
    <3>1. ASSUME NEW i \in 1 .. Len(conv[p]), NEW j \in 1 .. Len(conv[p]), i < j
          PROVE  conv[p][i].id # conv[p][j].id
      <4>1. conv[p][i].id < conv[p][j].id
        BY <1>1, <2>1, <3>1 DEF IInv, Ordered
      <4>2. QED
        <5>1. conv[p][i].id \in Int /\ conv[p][j].id \in Int
          BY <2>2, BoundsAssumption DEF MessageId
        <5>2. QED
          BY <4>1, <5>1
    <3>2. ASSUME NEW i \in 1 .. Len(conv[p]), NEW j \in 1 .. Len(conv[p]), i # j
          PROVE  i < j \/ j < i
      BY <3>2
    <3>3. QED
      BY <3>1, <3>2
  <2>6. f \in Injection(S, T)
    BY <2>4, <2>5 DEF Injection, IsInjective
  <2>7. Cardinality(S) <= Cardinality(T)
    BY <2>3, <2>6, FS_Injection
  <2>8. QED
    BY <2>7 DEF getUnreadCount, p
<1>2. IInv => UnreadAreNew
  BY <1>1 DEF UnreadAreNew
<1>3. QED
  BY <1>2, Inductive, PTL

-----------------------------------------------------------------------------
(* A page that begins within the conversation, or just behind it: its        *)
(* bounds do not wrap around, and are those of the ranks asked for.          *)
LEMMA WindowBounds ==
    ASSUME NEW n \in 0 .. MaxMessages, NEW first \in 0 .. MaxIndex,
           NEW last \in 0 .. MaxIndex, GoodInterval(first, last),
           FirstIndex(first) <= n + 1
    PROVE  LET b == PageBounds(n, first, last)
           IN  /\ b.from \in 1 .. n + 1 /\ b.to \in 0 .. n
               /\ \A j \in 1 .. n :
                     j \in b.from .. b.to <=>
                        n - j + 1 \in FirstIndex(first) .. LastIndex(first, last)
<1> DEFINE F == FirstIndex(first)
           L == LastIndex(first, last)
           b == PageBounds(n, first, last)
<1>1. F \in Nat \ {0} /\ L \in Nat /\ F <= L /\ F <= n + 1 /\ n \in Nat
  BY BoundsAssumption DEF FirstIndex, LastIndex, GoodInterval
<1>2. WordSize \in Nat /\ WordSize > n
  BY BoundsAssumption, WordAssumption
<1>3. b.from = n - (IF L > n THEN n ELSE L) + 1 /\ b.to = (n - F + 1) % WordSize
  BY DEF PageBounds, Clamp
<1> HIDE DEF F, L, b
<1>4. (n - F + 1) % WordSize = n - F + 1
  BY <1>1, <1>2
<1>5. QED
  BY <1>1, <1>3, <1>4 DEF F, L, b

(***************************************************************************)
(* truncateMessages and doTruncate answer with the window asked for, for   *)
(* any conversation, whenever the page does not begin beyond the message   *)
(* after the oldest one.                                                   *)
(***************************************************************************)
THEOREM PagesShowWindows == MessagesSpec => []PagesAreWindows
<1>1. ASSUME IInv, NEW p \in Pair, NEW first \in 0 .. MaxIndex, NEW last \in 0 .. MaxIndex,
             GoodInterval(first, last), FirstIndex(first) <= Len(conv[p]) + 1
      PROVE  Ids(Page(conv[p], first, last)) =
                {conv[p][i].id : i \in {j \in 1 .. Len(conv[p]) :
                    Len(conv[p]) - j + 1 \in FirstIndex(first) .. LastIndex(first, last)}}
  <2> DEFINE c == conv[p]
             n == Len(c)
             b == PageBounds(n, first, last)
             I == {j \in 1 .. n : n - j + 1 \in FirstIndex(first) .. LastIndex(first, last)}
  <2>1. c \in Seq(Message) /\ n \in Nat /\ n \in 0 .. MaxMessages
    BY <1>1, BoundsAssumption DEF IInv, MessagesTypeOK, Numbered
  <2>2. /\ b.from \in 1 .. n + 1 /\ b.to \in 0 .. n
        /\ \A j \in 1 .. n : j \in b.from .. b.to <=> j \in I
    BY <1>1, <2>1, WindowBounds
  <2>3. Page(c, first, last) = SubSeq(c, b.from, b.to)
    BY DEF Page
  <2> HIDE DEF c, b, I
  <2> DEFINE s == SubSeq(c, b.from, b.to)
  <2>4. Slice(s, c, b.from, b.to)
    <3>1. b.from \in Nat /\ b.from >= 1 /\ b.to \in Nat /\ b.to <= Len(c)
      BY <2>1, <2>2
    <3>2. QED
      BY <2>1, <3>1, Positions
  <2>5. \A i \in b.from .. b.to : i \in 1 .. n
    BY <2>1, <2>2
  <2> HIDE DEF s, n
  <2>6. Ids(s) = {c[i].id : i \in I}
    <3>1. ASSUME NEW k \in 1 .. Len(s)
          PROVE  \E i \in I : s[k] = c[i]
      BY <2>2, <2>4, <2>5 DEF Slice
    <3>2. ASSUME NEW i \in I
          PROVE  \E k \in 1 .. Len(s) : s[k] = c[i]
      <4>1. i \in b.from .. b.to
        BY <2>2, <3>2 DEF I
      <4>2. QED
        BY <2>4, <4>1 DEF Slice
    <3>3. Ids(s) = {s[k].id : k \in 1 .. Len(s)}
      BY DEF Ids
    <3>4. \A x \in Ids(s) : \E i \in I : x = c[i].id
      BY <3>1, <3>3
    <3>5. \A i \in I : c[i].id \in Ids(s)
      BY <3>2, <3>3
    <3>6. QED
      BY <3>4, <3>5
  <2>7. QED
    BY <2>3, <2>6 DEF c, n, I, s
<1>2. IInv => PagesAreWindows
  BY <1>1 DEF PagesAreWindows
<1>3. QED
  BY <1>2, Inductive, PTL

(***************************************************************************)
(* No step takes a message out of a conversation, gives it another id or   *)
(* takes it back from received to sent, although each request puts the     *)
(* whole conversation back.                                                *)
(***************************************************************************)
THEOREM OnlyForward == MessagesSpec => ForwardOnly
<1> DEFINE Forward ==
       \A p \in Pair : \A i \in 1 .. Len(conv[p]) :
          /\ i \in 1 .. Len(conv'[p])
          /\ conv'[p][i].id = conv[p][i].id
          /\ conv[p][i].state = "received" => conv'[p][i].state = "received"
<1>1. ASSUME IInv, NEW from \in User, NEW to \in User, NEW stored \in SendOutcomes,
             PutMessage(from, to, stored)
      PROVE  Forward
  <2>1. SendStep({from, to}, NewMessage(from, to), stored)
    BY <1>1, SentConversations DEF IInv
  <2>2. \A q \in Pair : Len(conv[q]) \in Nat
    BY <1>1 DEF IInv, MessagesTypeOK
  <2>3. \A q \in Pair : /\ Len(conv'[q]) \in {Len(conv[q]), Len(conv[q]) + 1}
                        /\ \A i \in 1 .. Len(conv'[q]) :
                              i <= Len(conv[q]) => conv'[q][i] = conv[q][i]
    BY <2>1 DEF SendStep
  <2>4. QED
    BY <2>2, <2>3
<1>2. ASSUME IInv, NEW u \in User, NEW w \in User, NEW first \in 0 .. MaxIndex,
             NEW last \in 0 .. MaxIndex, NEW stored \in MarkOutcomes,
             GetMessages(u, w, first, last, stored)
      PROVE  Forward
  <2>1. ReadStep(u, {u, w}, Page(conv[{u, w}], first, last), stored)
    BY <1>2, ReadConversations, OutcomesAssumption DEF IInv
  <2>2. QED
    BY <2>1 DEF ReadStep
<1>3. ASSUME conv' = conv PROVE Forward
  BY <1>3
<1>4. IInv /\ [MessagesNext]_messagesVars => [Forward]_messagesVars
  BY <1>1, <1>2, <1>3
     DEF MessagesNext, GetMessagesPastTheEnd, Restart, RequestLeavesTalks, SavePersonTalks,
         DeletePersonTalks, messagesVars
<1>5. QED
  BY <1>4, Inductive, PTL DEF MessagesSpec, ForwardOnly
===============================================================================
