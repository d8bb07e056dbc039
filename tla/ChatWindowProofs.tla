-------------------------- MODULE ChatWindowProofs --------------------------
(***************************************************************************)
(* Proofs about ChatWindow and the RoomTimeline it is built on, for any    *)
(* senders, any number of messages and pages of any size: what             *)
(* rooms.last_msg_id refers to, what the card of a room says, what a       *)
(* window shows, and how far the read position goes.                       *)
(*                                                                         *)
(* The parts: the inductive invariants; facts about greatest elements,     *)
(* pages and sequences; that the messages keep their invariant, then the   *)
(* client, then the card; the theorems.                                    *)
(***************************************************************************)
EXTENDS ChatWindow, FiniteSetTheorems, SequenceTheorems, WellFoundedInduction, TLAPS

InFlight == {"touch", "commit"}

\* The types of the messages and of those that are being sent.
MessagesTyped ==
  /\ nextId \in Nat \ {0} /\ there \subseteq 1..(nextId - 1)
  /\ send \in [Senders -> [pc : {"idle", "touch", "commit", "recall"}, id : 0..(nextId - 1)]]
  /\ \A t \in Senders : send[t].pc \in InFlight => send[t].id # NoId
  /\ overlapped \in BOOLEAN

\* last_msg_id refers to a message that is there.
LastIsThere == lastMsg # NoId => lastMsg \in there

\* As long as no two were sent at the same time, one is at most.
OneInFlight ==
  ~overlapped => \A s, t \in Senders : send[s].pc \in InFlight /\ send[t].pc \in InFlight => s = t

\* Its id is greater than those that are there.
InFlightIsNewer ==
  ~overlapped => \A t \in Senders : send[t].pc \in InFlight => \A id \in there : id < send[t].id

LastIsNewest == ~overlapped => \A id \in there : id <= lastMsg

IInv == MessagesTyped /\ LastIsThere /\ OneInFlight /\ InFlightIsNewer /\ LastIsNewest

-----------------------------------------------------------------------------
\* The messages once more: their numbers.

Numbered ==
  /\ nextId \in 1..(MaxId + 1)
  /\ there \union elsewhere \subseteq 1..(nextId - 1) /\ there \intersect elsewhere = {}
  /\ recalled \subseteq there /\ lastMsg \in Ids \union {NoId}

\* A message that is being sent is not there yet, and nobody else's.
InFlightApart ==
  \A t \in Senders : send[t].pc \in InFlight =>
    /\ send[t].id \notin there \union elsewhere
    /\ \A s \in Senders : send[s].pc \in InFlight /\ send[s].id = send[t].id => s = t

RecallIsThere == \A t \in Senders : send[t].pc = "recall" => send[t].id \in there

SomeLast == lastMsg = NoId => there = {}

MInv == Numbered /\ InFlightApart /\ RecallIsThere /\ SomeLast

\* The list of rooms: what one statement has read of the room still holds when
\* the next one runs, because messages are never taken away.
CardKnows ==
  card.pc \in {"last", "count"} =>
    /\ card.least <= Cardinality(Unread(card.read))
    /\ IF card.last = NoId THEN card.least = 0 ELSE card.last \in there
    /\ card.pc = "count" /\ card.last # NoId => card.found

CardTyped ==
  card \in [pc : {"idle", "last", "count"}, last : Ids \union {NoId},
            read : Ids \union {0}, least : 0..MaxId, found : BOOLEAN, unread : 0..MaxId]

-----------------------------------------------------------------------------
\* The client.

Requests == [room : BOOLEAN, scroll : BOOLEAN, cursor : Ids \union {NoId}]

ClientTyped ==
  /\ open \in BOOLEAN /\ loading \in BOOLEAN /\ crossed \in BOOLEAN
  /\ history \in Seq(Elements) /\ appended \in Seq(Elements) /\ Len(appended) <= MaxAppended
  /\ cursor \in Ids \union {NoId} /\ newest \in there \union {0} /\ readPos \in Ids \union {0}
  /\ loads \in Seq(Requests) /\ Len(loads) <= MaxLoads
  /\ answers \union start \subseteq there \union elsewhere /\ reads \subseteq elsewhere

\* Only a recalled message has no id, and another room's window is none.
Tagged(w) == \A i \in DOMAIN w : w[i].tagged \/ w[i].id \in recalled
WindowOfRoom ==
  /\ Tagged(history) /\ Tagged(appended)
  /\ ~open => history = <<>> /\ appended = <<>> /\ reads = {}

\* Unless rooms were crossed, what is under way is for the room that is open.
OneRoom ==
  ~crossed => /\ \A i \in DOMAIN loads : loads[i].room = open
              /\ open => answers \subseteq there

\* What a window shows is there, and has counted for `newest`; the read
\* position is one of these or comes from another room.
Counted(w) == \A i \in DOMAIN w : w[i].id \in there /\ w[i].id <= newest
ReadShown == readPos <= newest \/ readPos \in elsewhere
ShownCounted == ~crossed => Counted(history) /\ Counted(appended) /\ ReadShown

\* One request for history at a time: the first page of an empty window, or
\* what comes below the cursor.
InTurn ==
  ~crossed /\ open =>
    /\ Len(loads) <= 1 /\ start \subseteq there
    /\ \A i \in DOMAIN loads :
         IF loads[i].scroll
         THEN loading /\ cursor # NoId /\ loads[i].cursor = cursor
         ELSE ~loading /\ cursor = NoId /\ loads[i].cursor = NoId /\ history = <<>>

\* The history holds nothing twice, nothing below the cursor, and all from the
\* cursor on that was there at the start.
Holds(w, id) == \E i \in DOMAIN w : w[i].id = id
Contiguous ==
  ~crossed /\ open =>
    /\ \A i, j \in DOMAIN history : i # j => history[i].id # history[j].id
    /\ \A i \in DOMAIN history : history[i].id >= cursor
    /\ (\A i \in DOMAIN loads : loads[i].scroll) =>
         \A id \in start : id >= cursor => Holds(history, id)

CInv == ClientTyped /\ WindowOfRoom /\ OneRoom /\ ShownCounted /\ InTurn /\ Contiguous

\* The card, by itself.
CardInv == CardTyped /\ CardKnows

ChatInv == IInv /\ MInv /\ CInv /\ CardInv

-----------------------------------------------------------------------------
\* Sets of numbers and pages

\* A set of ids is finite.
LEMMA FiniteRange ==
  ASSUME NEW n \in Nat, NEW S \in SUBSET (1..n)
  PROVE  IsFiniteSet(S) /\ Cardinality(S) \in 0..n
<1>1. IsFiniteSet(1..n) /\ Cardinality(1..n) = n
  <2>1. 1 \in Int /\ n \in Int
    OBVIOUS
  <2>2. IsFiniteSet(1..n) /\ Cardinality(1..n) = IF 1 > n THEN 0 ELSE n - 1 + 1
    BY ONLY <2>1, FS_Interval
  <2> QED
    BY <2>2
<1>2. IsFiniteSet(S) /\ Cardinality(S) <= Cardinality(1..n)
  BY <1>1, FS_Subset
<1> QED
  BY <1>1, <1>2, FS_CardinalityType

\* A set of numbers has a least element.
LEMMA LeastExists ==
  ASSUME NEW S \in SUBSET Nat, S # {}
  PROVE  \E m \in S : \A x \in S : m <= x
<1>1. PICK m \in S : \A x \in S : ~(<<x, m>> \in OpToRel(<, Nat))
  BY WFMin, NatLessThanWellFounded
<1>2. \A x \in S : ~(x < m)
  BY <1>1 DEF OpToRel
<1> QED
  BY <1>2

\* One that is bounded has a greatest, and Max is it.
LEMMA MaxOf ==
  ASSUME NEW n \in Nat, NEW S \in SUBSET (0..n), S # {}
  PROVE  Max(S) \in S /\ \A x \in S : x <= Max(S)
<1> DEFINE Distance == {n - x : x \in S}
<1>1. Distance \in SUBSET Nat /\ Distance # {}
  <2>1. \A x \in S : n - x \in Nat
    OBVIOUS
  <2>2. Distance \subseteq Nat
    BY <2>1
  <2> QED
    BY <2>2
<1>2. PICK d \in Distance : \A e \in Distance : d <= e
  <2> HIDE DEF Distance
  <2> QED
    BY <1>1, LeastExists
<1>3. PICK m \in S : d = n - m
  OBVIOUS
<1>4. \A x \in S : m >= x
  BY <1>2, <1>3
<1> QED
  BY <1>4 DEF Max

\* Rows in descending order: there is such an order of a finite set of numbers.
Descends(s) == \A i, j \in DOMAIN s : i < j => s[i] > s[j]

\* A finite set of numbers can be put in descending order.
LEMMA DescendingExists ==
  ASSUME NEW n \in Nat, NEW S \in SUBSET (1..n)
  PROVE  \E s \in [1..Cardinality(S) -> S] : Descends(s)
<1> DEFINE Fails(k) == \E T \in SUBSET (1..k) : ~\E s \in [1..Cardinality(T) -> T] : Descends(s)
           Bad == {k \in Nat : Fails(k)}
<1> SUFFICES ASSUME Bad # {} PROVE FALSE
  OBVIOUS
<1>1. PICK k \in Bad : \A j \in Bad : k <= j
  <2>1. Bad \in SUBSET Nat
    OBVIOUS
  <2> HIDE DEF Bad
  <2> QED
    BY <2>1, LeastExists
<1>2. PICK T \in SUBSET (1..k) : ~\E s \in [1..Cardinality(T) -> T] : Descends(s)
  OBVIOUS
<1>3. \A U \in SUBSET (1..(k - 1)) : k # 0 => \E s \in [1..Cardinality(U) -> U] : Descends(s)
  <2> SUFFICES ASSUME k # 0 PROVE ~Fails(k - 1)
    OBVIOUS
  <2>1. k - 1 \in Nat /\ ~(k <= k - 1)
    OBVIOUS
  <2> QED
    BY <2>1, <1>1
<1>4. k \in Nat
  OBVIOUS
<1> HIDE DEF Fails, Bad
<1>5. IsFiniteSet(T)
  BY <1>4, FiniteRange
<1>6. CASE k \notin T
  <2>1. k # 0
    <3> SUFFICES ASSUME k = 0 PROVE FALSE
      OBVIOUS
    <3>1. T = {}
      OBVIOUS
    <3>2. Cardinality(T) = 0
      BY <3>1, FS_EmptySet
    <3>3. <<>> \in [1..Cardinality(T) -> T] /\ Descends(<<>>)
      BY <3>1, <3>2 DEF Descends
    <3> QED
      BY <3>3, <1>2
  <2>2. T \in SUBSET (1..(k - 1))
    BY <1>4, <1>6, <2>1
  <2> QED
    BY <1>2, <1>3, <2>1, <2>2
<1>7. CASE k \in T
  <2> DEFINE U == T \ {k}
  <2>1. k # 0 /\ U \in SUBSET (1..(k - 1))
    BY <1>4, <1>7
  <2>2. PICK s \in [1..Cardinality(U) -> U] : Descends(s)
    BY <2>1, <1>3
  <2>3. Cardinality(T) \in Nat /\ Cardinality(U) = Cardinality(T) - 1 /\ Cardinality(U) \in Nat
    BY <1>5, <1>7, FS_RemoveElement, FS_CardinalityType
  <2> DEFINE t == [i \in 1..Cardinality(T) |-> IF i = 1 THEN k ELSE s[i - 1]]
  <2>4. \A i \in 2..Cardinality(T) : s[i - 1] \in U /\ s[i - 1] < k
    <3> SUFFICES ASSUME NEW i \in 2..Cardinality(T) PROVE s[i - 1] \in U /\ s[i - 1] < k
      OBVIOUS
    <3>1. i - 1 \in 1..Cardinality(U)
      BY <2>3
    <3>2. s[i - 1] \in U
      <4> HIDE DEF U
      <4> QED
        BY <3>1
    <3>3. s[i - 1] \in 1..(k - 1)
      BY <3>2, <2>1
    <3> QED
      BY <3>2, <3>3, <1>4
  <2>5. t \in [1..Cardinality(T) -> T]
    <3>1. \A i \in 1..Cardinality(T) : i # 1 => i \in 2..Cardinality(T)
      BY <2>3
    <3>2. \A i \in 1..Cardinality(T) : i # 1 => s[i - 1] \in T
      BY <3>1, <2>4
    <3> QED
      BY <3>2, <1>7
  <2>6. Descends(t)
    <3> SUFFICES ASSUME NEW i \in 1..Cardinality(T), NEW j \in 1..Cardinality(T), i < j
                 PROVE  t[i] > t[j]
      BY DEF Descends
    <3>1. j \in 2..Cardinality(T) /\ t[j] = s[j - 1]
      BY <2>3
    <3>2. CASE i = 1
      BY <3>1, <3>2, <2>4, <2>1, <1>4
    <3>3. CASE i # 1
      <4>1. i - 1 \in 1..Cardinality(U) /\ j - 1 \in 1..Cardinality(U) /\ i - 1 < j - 1
        BY <2>3, <3>3
      <4>2. t[i] = s[i - 1]
        BY <3>3
      <4> QED
        BY <4>1, <4>2, <3>1, <2>2 DEF Descends
    <3> QED
      BY <3>2, <3>3
  <2> QED
    BY <2>5, <2>6, <1>2
<1> QED
  BY <1>6, <1>7

\* Descending lists each number once, the greatest first.
LEMMA DescendingIs ==
  ASSUME NEW n \in Nat, NEW S \in SUBSET (1..n)
  PROVE  /\ Cardinality(S) \in Nat /\ Descending(S) \in [1..Cardinality(S) -> S]
         /\ \A i, j \in 1..Cardinality(S) : i < j => Descending(S)[i] > Descending(S)[j]
         /\ \A x \in S : \E i \in 1..Cardinality(S) : Descending(S)[i] = x
<1>1. IsFiniteSet(S) /\ Cardinality(S) \in Nat
  BY FiniteRange
<1> DEFINE d == Descending(S)
<1>2. d \in [1..Cardinality(S) -> S] /\ Descends(d)
  BY DescendingExists DEF Descending, Descends
<1>3. \A i, j \in 1..Cardinality(S) : i < j => d[i] > d[j]
  BY <1>2 DEF Descends
<1>4. d \in Injection(1..Cardinality(S), S)
  <2> HIDE DEF d
  <2>1. \A i, j \in 1..Cardinality(S) : d[i] = d[j] => i = j
    <3> SUFFICES ASSUME NEW i \in 1..Cardinality(S), NEW j \in 1..Cardinality(S), d[i] = d[j], i # j
                 PROVE  FALSE
      OBVIOUS
    <3>1. d[i] \in Nat /\ d[j] \in Nat
      <4>1. d[i] \in S /\ d[j] \in S
        BY <1>2
      <4>2. \A x \in S : x \in Nat
        OBVIOUS
      <4> QED
        BY <4>1, <4>2
    <3>2. i < j \/ j < i
      BY <1>1
    <3> QED
      BY <3>1, <3>2, <1>3
  <2> QED
    BY <1>2, <2>1 DEF Injection, IsInjective
<1>5. d \in Surjection(1..Cardinality(S), S)
  <2> HIDE DEF d
  <2>1. IsFiniteSet(1..Cardinality(S)) /\ Cardinality(1..Cardinality(S)) = Cardinality(S)
    BY <1>1, FS_Interval
  <2> QED
    BY <1>1, <1>4, <2>1, FS_Injection
<1> QED
  BY <1>1, <1>2, <1>3, <1>5 DEF Surjection

\* FirstRows cuts a list off, if it is longer.
LEMMA FirstRowsIs ==
  ASSUME NEW S, NEW s \in Seq(S), NEW n \in Nat
  PROVE  /\ FirstRows(s, n) \in Seq(S)
         /\ Len(FirstRows(s, n)) = IF Len(s) < n THEN Len(s) ELSE n
         /\ \A i \in 1..Len(FirstRows(s, n)) : FirstRows(s, n)[i] = s[i]
<1> DEFINE m == IF Len(s) < n THEN Len(s) ELSE n
<1>1. Len(s) \in Nat /\ m \in Nat /\ m <= Len(s)
  BY LenProperties
<1>2. \A i \in 1..m : s[i] \in S
  BY <1>1, ElementOfSeq
<1>3. FirstRows(s, n) = SubSeq(s, 1, m)
  BY DEF FirstRows
<1> HIDE DEF m
<1>4. /\ SubSeq(s, 1, m) \in Seq(S)
      /\ Len(SubSeq(s, 1, m)) = IF 1 <= m THEN m - 1 + 1 ELSE 0
      /\ \A i \in 1..(m - 1 + 1) : SubSeq(s, 1, m)[i] = s[1 + i - 1]
  <2>1. 1 \in Int /\ m \in Int
    BY <1>1
  <2> QED
    BY ONLY <2>1, <1>2, SubSeqProperties
<1>5. Len(SubSeq(s, 1, m)) = m
  BY <1>1, <1>4
<1>6. \A i \in 1..m : SubSeq(s, 1, m)[i] = s[i]
  BY <1>1, <1>4
<1> QED
  BY <1>3, <1>4, <1>5, <1>6 DEF m

\* A page holds what list_by_cursor finds below the cursor, newest first and
\* nothing twice, down to the next cursor.
THEOREM PageIs ==
  ASSUME NEW S \in SUBSET Ids, NEW c \in Nat
  PROVE  LET page == Page(S, c)
         IN  /\ page.items \in Seq(Before(S, c))
             /\ page.next \in Before(S, c) \union {NoId}
             /\ \A i, j \in DOMAIN page.items : i # j => page.items[i] # page.items[j]
             /\ \A i \in DOMAIN page.items : page.items[i] >= page.next
             /\ \A x \in Before(S, c) : x >= page.next => \E i \in DOMAIN page.items : page.items[i] = x
<1> DEFINE B == Before(S, c)
           d == Descending(B)
           C == Cardinality(B)
           rows == FirstRows(d, PageSize + 1)
           items == FirstRows(rows, PageSize)
           next == IF Len(rows) > PageSize THEN Last(items) ELSE NoId
<1>1. B \in SUBSET (1..MaxId) /\ \A x \in B : x \in Nat
  <2>1. B \subseteq S
    BY DEF Before
  <2>2. \A x \in S : x \in 1..MaxId /\ MaxId \in Nat
    BY SizesAssumption DEF Ids
  <2> HIDE DEF B
  <2> QED
    BY <2>1, <2>2
<1>2. PageSize \in Nat \ {0} /\ NoId = 0
  BY SizesAssumption DEF NoId
<1>3. Page(S, c).items = items /\ Page(S, c).next = next
  BY DEF Page
<1> HIDE DEF B
<1>0. MaxId \in Nat
  BY SizesAssumption
<1>4. /\ C \in Nat /\ d \in [1..C -> B]
      /\ \A i, j \in 1..C : i < j => d[i] > d[j]
      /\ \A x \in B : \E i \in 1..C : d[i] = x
  BY <1>0, <1>1, DescendingIs
<1> HIDE DEF d, C
<1>5. d \in Seq(B) /\ Len(d) = C
  BY <1>4
<1>6. /\ rows \in Seq(B) /\ Len(rows) = (IF C < PageSize + 1 THEN C ELSE PageSize + 1)
      /\ \A i \in 1..Len(rows) : rows[i] = d[i]
  <2>1. PageSize + 1 \in Nat
    BY <1>2
  <2> QED
    BY <2>1, <1>5, FirstRowsIs
<1> HIDE DEF rows
<1>7. /\ items \in Seq(B) /\ Len(items) = (IF Len(rows) < PageSize THEN Len(rows) ELSE PageSize)
      /\ \A i \in 1..Len(items) : items[i] = rows[i]
  BY <1>2, <1>6, FirstRowsIs
<1> HIDE DEF items
<1>8. /\ Len(items) \in Nat /\ Len(items) <= C /\ Len(items) <= PageSize /\ DOMAIN items = 1..Len(items)
      /\ Len(rows) > PageSize => Len(items) = PageSize
      /\ ~(Len(rows) > PageSize) => Len(items) = C
  BY <1>2, <1>4, <1>6, <1>7
<1>9. \A i \in 1..Len(items) : items[i] = d[i] /\ d[i] \in B
  BY <1>2, <1>4, <1>6, <1>7, <1>8
<1>10. \A i \in 1..C : d[i] \in Nat
  BY <1>1, <1>4
<1>11. \A i, j \in DOMAIN items : i # j => items[i] # items[j]
  <2> SUFFICES ASSUME NEW i \in 1..Len(items), NEW j \in 1..Len(items), i # j PROVE items[i] # items[j]
    BY <1>8
  <2>0. Len(items) \in Nat /\ Len(items) <= C /\ C \in Nat
    BY <1>4, <1>8
  <2>1. i \in 1..C /\ j \in 1..C /\ (i < j \/ j < i)
    BY <2>0
  <2>2. d[i] \in Nat /\ d[j] \in Nat /\ (d[i] > d[j] \/ d[j] > d[i])
    BY <2>1, <1>4, <1>10
  <2> QED
    <3>1. items[i] = d[i] /\ items[j] = d[j]
      BY <1>9
    <3> QED
      BY <2>2, <3>1
<1>12. CASE Len(rows) > PageSize
  <2>1. next = items[PageSize] /\ PageSize \in 1..Len(items) /\ Len(items) = PageSize
    BY <1>2, <1>8, <1>12 DEF Last
  <2>2. next = d[PageSize] /\ next \in B
    BY <2>1, <1>9
  <2> HIDE DEF next
  <2>3. \A i \in DOMAIN items : items[i] >= next
    <3> SUFFICES ASSUME NEW i \in 1..Len(items) PROVE items[i] >= next
      BY <1>8
    <3>1. i \in 1..C /\ PageSize \in 1..C /\ (i < PageSize \/ i = PageSize)
      BY <1>4, <1>8, <2>1
    <3>2. d[i] >= d[PageSize]
      BY <3>1, <1>4, <1>10
    <3> QED
      BY <3>2, <1>9, <2>2
  <2>4. ASSUME NEW x \in B, x >= next PROVE \E i \in DOMAIN items : items[i] = x
    <3>1. PICK i \in 1..C : d[i] = x
      BY <1>4
    <3>2. PageSize \in 1..C /\ ~(PageSize < i)
      BY <1>4, <1>8, <1>10, <2>1, <2>2, <2>4, <3>1
    <3>3. i \in 1..Len(items)
      BY <2>1, <3>2, <1>4
    <3> QED
      BY <3>1, <3>3, <1>8, <1>9
  <2> QED
    BY <1>3, <1>7, <1>11, <2>2, <2>3, <2>4 DEF B
<1>13. CASE ~(Len(rows) > PageSize)
  <2>1. next = 0 /\ Len(items) = C
    BY <1>2, <1>8, <1>13
  <2> HIDE DEF next
  <2>2. \A i \in DOMAIN items : items[i] >= next
    <3> SUFFICES ASSUME NEW i \in 1..Len(items) PROVE items[i] >= next
      BY <1>8
    <3>1. d[i] \in Nat /\ d[i] = items[i]
      BY <1>9, <1>10, <2>1
    <3> QED
      BY <3>1, <2>1
  <2>3. \A x \in B : \E i \in DOMAIN items : items[i] = x
    BY <1>4, <1>8, <1>9, <2>1
  <2> QED
    BY <1>2, <1>3, <1>7, <1>11, <2>1, <2>2, <2>3 DEF B
<1> QED
  BY <1>12, <1>13

-----------------------------------------------------------------------------
\* The messages: last_msg_id

\* The steps that change the messages, and those that do not.
Sending(t) == Insert(t) \/ Touch(t) \/ Commit(t) \/ Rollback(t) \/ Recall(t)
Elsewhere == UNCHANGED <<messages, overlapped>>

\* What a step is to the messages.
LEMMA Steps ==
  ASSUME [ChatNext]_vars
  PROVE  (\E t \in Senders : Sending(t)) \/ InsertElsewhere \/ Elsewhere
<1>1. CASE \E t \in Senders : Write(t) \/ Appear(t)
  BY <1>1 DEF Write, Appear, Sending
<1>2. CASE WriteElsewhere
  BY <1>2 DEF WriteElsewhere
<1>3. CASE ListMyRooms /\ UNCHANGED client
  BY <1>3 DEF ListMyRooms, ListForUser, GetLast, CountAfter, Elsewhere
<1>4. CASE Client
  <2>1. CASE \E room \in BOOLEAN : OpenRoom(room)
    BY <2>1 DEF OpenRoom, Elsewhere, timeline
  <2>2. CASE Scroll
    BY <2>2 DEF Scroll, Elsewhere, timeline
  <2>3. CASE \E i \in DOMAIN loads : HistoryArrives(i) \/ HistoryFails(i)
    BY <2>3 DEF HistoryArrives, HistoryFails, Elsewhere, timeline
  <2>4. CASE \E id \in Ids : MessageNew(id) \/ Answered(id) \/ ReportAnswered(id)
    BY <2>4 DEF MessageNew, Answered, ReportAnswered, Elsewhere
  <2>5. CASE MessageRead
    BY <2>5 DEF MessageRead, Elsewhere
  <2> QED
    BY <1>4, <2>1, <2>2, <2>3, <2>4, <2>5 DEF Client
<1>5. CASE UNCHANGED vars
  BY <1>5 DEF vars, timeline, Elsewhere
<1> QED
  BY <1>1, <1>2, <1>3, <1>4, <1>5 DEF ChatNext

\* A room starts with messages 1..Initial, and nobody sends.
THEOREM InitIInv == ChatInit => IInv
<1> SUFFICES ASSUME Init PROVE IInv
  BY DEF ChatInit
<1>1. Initial \in Nat
  BY SizesAssumption
<1>2. MessagesTyped
  <2>1. nextId \in Nat \ {0} /\ nextId - 1 = Initial
    BY <1>1 DEF Init
  <2>2. there \subseteq 1..(nextId - 1) /\ overlapped \in BOOLEAN
    BY <2>1 DEF Init
  <2>3. \A t \in Senders : send[t].pc \notin InFlight
    BY DEF Init, Idle, InFlight
  <2>4. send \in [Senders -> [pc : {"idle", "touch", "commit", "recall"}, id : 0..(nextId - 1)]]
    BY <1>1, <2>1 DEF Init, Idle, NoId
  <2> QED
    BY <2>1, <2>2, <2>3, <2>4 DEF MessagesTyped
<1>3. LastIsThere /\ LastIsNewest
  BY <1>1 DEF Init, NoId, LastIsThere, LastIsNewest
<1>4. OneInFlight /\ InFlightIsNewer
  BY DEF Init, Idle, InFlight, OneInFlight, InFlightIsNewer
<1> QED
  BY <1>2, <1>3, <1>4 DEF IInv

\* The invariant is kept by every step of the chat.
THEOREM StepIInv == IInv /\ [ChatNext]_vars => IInv'
<1> SUFFICES ASSUME IInv, [ChatNext]_vars PROVE IInv'
  OBVIOUS
<1> USE DEF IInv
<1>1. ASSUME NEW t \in Senders, Insert(t) PROVE IInv'
  <2> nextId \in Nat \ {0} /\ nextId' = nextId + 1 /\ there' = there /\ lastMsg' = lastMsg
    BY <1>1 DEF Insert, MessagesTyped
  <2> send' = [send EXCEPT ![t] = [pc |-> "touch", id |-> nextId]]
    BY <1>1 DEF Insert
  <2> overlapped' = (overlapped \/ \E s \in Senders : send[s].pc \in InFlight)
    BY <1>1 DEF Insert, InFlight
  <2>1. MessagesTyped'
    BY DEF MessagesTyped, InFlight, NoId
  <2>2. LastIsThere' /\ LastIsNewest'
    BY DEF LastIsThere, LastIsNewest, MessagesTyped
  <2>3. OneInFlight'
    BY DEF OneInFlight, MessagesTyped, InFlight
  <2>4. InFlightIsNewer'
    BY DEF InFlightIsNewer, MessagesTyped, InFlight
  <2> QED
    BY <2>1, <2>2, <2>3, <2>4
<1>2. ASSUME NEW t \in Senders, Touch(t) PROVE IInv'
  <2> send' = [send EXCEPT ![t].pc = "commit"] /\ send[t].pc = "touch"
    BY <1>2 DEF Touch
  <2> UNCHANGED <<nextId, there, lastMsg, overlapped>>
    BY <1>2 DEF Touch
  <2>1. MessagesTyped'
    BY DEF MessagesTyped, InFlight, NoId
  <2>2. LastIsThere' /\ LastIsNewest'
    BY DEF LastIsThere, LastIsNewest
  <2>3. OneInFlight' /\ InFlightIsNewer'
    BY DEF OneInFlight, InFlightIsNewer, MessagesTyped, InFlight
  <2> QED
    BY <2>1, <2>2, <2>3
<1>3. ASSUME NEW t \in Senders, Commit(t) PROVE IInv'
  <2> /\ send[t].pc = "commit" /\ send' = [send EXCEPT ![t] = Idle]
      /\ there' = there \union {send[t].id} /\ lastMsg' = send[t].id
      /\ UNCHANGED <<nextId, overlapped>>
    BY <1>3 DEF Commit
  <2>0. send[t].id \in 1..(nextId - 1)
    BY DEF MessagesTyped, InFlight, NoId
  <2>1. MessagesTyped'
    <3>1. there' \subseteq 1..(nextId' - 1)
      BY <2>0 DEF MessagesTyped
    <3>2. send' \in [Senders -> [pc : {"idle", "touch", "commit", "recall"}, id : 0..(nextId' - 1)]]
      BY DEF MessagesTyped, Idle, NoId
    <3>3. \A s \in Senders : send'[s].pc \in InFlight => send'[s].id # NoId
      BY DEF MessagesTyped, InFlight, Idle
    <3> QED
      BY <3>1, <3>2, <3>3 DEF MessagesTyped
  <2>2. LastIsThere'
    BY DEF LastIsThere
  <2>3. LastIsNewest'
    BY <2>0 DEF LastIsNewest, InFlightIsNewer, InFlight, MessagesTyped
  <2>4. OneInFlight'
    BY DEF OneInFlight, MessagesTyped, InFlight, Idle
  <2>5. InFlightIsNewer'
    BY DEF InFlightIsNewer, OneInFlight, MessagesTyped, InFlight, Idle
  <2> QED
    BY <2>1, <2>2, <2>3, <2>4, <2>5
<1>4. ASSUME NEW t \in Senders, Rollback(t) \/ Recall(t) PROVE IInv'
  <2>1. /\ \/ send' = [send EXCEPT ![t] = Idle]
           \/ \E id \in there : send' = [send EXCEPT ![t] = [pc |-> "recall", id |-> id]]
        /\ UNCHANGED <<nextId, there, lastMsg, overlapped>>
    BY <1>4 DEF Rollback, Recall, RecallCheck, RecallCommit
  <2>2. \A s \in Senders : send'[s].pc \in InFlight => send'[s] = send[s]
    BY <2>1 DEF MessagesTyped, InFlight, Idle
  <2>3. MessagesTyped'
    BY <2>1, <2>2 DEF MessagesTyped, Idle, NoId, InFlight
  <2>4. LastIsThere' /\ LastIsNewest'
    BY <2>1 DEF LastIsThere, LastIsNewest
  <2>5. OneInFlight' /\ InFlightIsNewer'
    BY <2>1, <2>2 DEF OneInFlight, InFlightIsNewer
  <2> QED
    BY <2>3, <2>4, <2>5
<1>5. CASE InsertElsewhere
  <2> /\ nextId' = nextId + 1 /\ nextId \in Nat \ {0}
      /\ UNCHANGED <<there, lastMsg, send, overlapped>>
    BY <1>5 DEF InsertElsewhere, MessagesTyped
  <2>1. MessagesTyped'
    BY DEF MessagesTyped, InFlight, NoId
  <2>2. (LastIsThere /\ LastIsNewest /\ OneInFlight /\ InFlightIsNewer)'
    BY DEF LastIsThere, LastIsNewest, OneInFlight, InFlightIsNewer
  <2> QED
    BY <2>1, <2>2
<1>6. CASE Elsewhere
  BY <1>6 DEF Elsewhere, messages, MessagesTyped, LastIsThere, LastIsNewest, OneInFlight, InFlightIsNewer
<1> QED
  BY <1>1, <1>2, <1>3, <1>4, <1>5, <1>6, Steps DEF Sending

-----------------------------------------------------------------------------
\* The messages: their numbers

\* The messages at the start have the first numbers.
LEMMA InitMInv == Init => MInv
<1> SUFFICES ASSUME Init PROVE MInv
  OBVIOUS
<1>1. MaxId \in Nat /\ Initial \in 0..MaxId
  BY SizesAssumption
<1>2. Numbered
  <2>1. nextId \in 1..(MaxId + 1) /\ nextId - 1 = Initial
    BY <1>1 DEF Init
  <2>2. there = 1..Initial /\ elsewhere = {} /\ recalled = {} /\ lastMsg = Initial
    BY DEF Init
  <2> QED
    BY <1>1, <2>1, <2>2 DEF Numbered, Ids, NoId
<1>3. \A t \in Senders : send[t].pc = "idle"
  BY DEF Init, Idle
<1>4. InFlightApart /\ RecallIsThere
  BY <1>3 DEF InFlightApart, InFlight, RecallIsThere
<1>5. SomeLast
  BY <1>1 DEF Init, SomeLast, NoId
<1> QED
  BY <1>2, <1>4, <1>5 DEF MInv

\* It takes the number of the message that is being sent, of no other.
LEMMA StepMInv ==
  ASSUME IInv, MInv, [ChatNext]_vars
  PROVE  MInv'
<1> USE DEF MInv
<1>0. MaxId \in Nat /\ nextId \in 1..(MaxId + 1) /\ MessagesTyped
  BY SizesAssumption DEF Numbered, IInv
<1>1. ASSUME NEW t \in Senders, Insert(t) PROVE MInv'
  <2>1. /\ nextId' = nextId + 1 /\ nextId \in Ids /\ send[t].pc = "idle"
        /\ send' = [send EXCEPT ![t] = [pc |-> "touch", id |-> nextId]]
        /\ UNCHANGED <<there, elsewhere, recalled, lastMsg>>
    BY <1>1 DEF Insert
  <2>2. Numbered'
    BY <1>0, <2>1 DEF Numbered, Ids
  <2>3. nextId \notin there \union elsewhere /\ \A s \in Senders : send[s].id # nextId
    BY <1>0 DEF Numbered, MessagesTyped
  <2>4. \A s \in Senders : send'[s] = IF s = t THEN [pc |-> "touch", id |-> nextId] ELSE send[s]
    BY <1>0, <2>1 DEF MessagesTyped
  <2>5. InFlightApart'
    <3> SUFFICES ASSUME NEW s \in Senders, send'[s].pc \in InFlight
                 PROVE  /\ send'[s].id \notin there \union elsewhere
                        /\ \A r \in Senders : send'[r].pc \in InFlight /\ send'[r].id = send'[s].id => r = s
      BY <2>1 DEF InFlightApart
    <3>1. CASE s = t
      BY <2>3, <2>4, <3>1
    <3>2. CASE s # t
      BY <2>3, <2>4, <3>2 DEF InFlightApart
    <3> QED
      BY <3>1, <3>2
  <2>6. (RecallIsThere /\ SomeLast)'
    BY <2>1, <2>4 DEF RecallIsThere, SomeLast
  <2> QED
    BY <2>2, <2>5, <2>6
<1>2. ASSUME NEW t \in Senders, Touch(t) PROVE MInv'
  <2>1. /\ send[t].pc = "touch" /\ send' = [send EXCEPT ![t].pc = "commit"]
        /\ UNCHANGED <<nextId, there, elsewhere, recalled, lastMsg>>
    BY <1>2 DEF Touch
  <2>2. \A s \in Senders : /\ send'[s].id = send[s].id
                           /\ send'[s].pc = (IF s = t THEN "commit" ELSE send[s].pc)
    BY <1>0, <2>1 DEF MessagesTyped
  <2>3. \A s \in Senders : (send'[s].pc \in InFlight <=> send[s].pc \in InFlight) /\ (send'[s].pc = "recall" => send[s].pc = "recall")
    BY <2>1, <2>2 DEF InFlight
  <2> QED
    BY <2>1, <2>2, <2>3 DEF Numbered, InFlightApart, RecallIsThere, SomeLast
<1>3. ASSUME NEW t \in Senders, Commit(t) PROVE MInv'
  <2>1. /\ send[t].pc = "commit" /\ send' = [send EXCEPT ![t] = Idle]
        /\ there' = there \union {send[t].id} /\ lastMsg' = send[t].id
        /\ UNCHANGED <<nextId, elsewhere, recalled>>
    BY <1>3 DEF Commit
  <2>2. \A s \in Senders : send'[s] = IF s = t THEN Idle ELSE send[s]
    BY <1>0, <2>1 DEF MessagesTyped
  <2>3. send[t].pc \in InFlight /\ send[t].id \in 1..(nextId - 1) /\ send[t].id \notin there \union elsewhere
    BY <1>0, <2>1 DEF MessagesTyped, InFlight, NoId, InFlightApart
  <2>4. Numbered'
    <3>1. there' \union elsewhere' \subseteq 1..(nextId' - 1) /\ there' \intersect elsewhere' = {}
      BY <2>1, <2>3 DEF Numbered
    <3>2. lastMsg' \in Ids /\ recalled' \subseteq there'
      BY <1>0, <2>1, <2>3 DEF Numbered, Ids
    <3> QED
      BY <2>1, <3>1, <3>2 DEF Numbered
  <2>5. \A s \in Senders : send'[s].pc \in InFlight \/ send'[s].pc = "recall" => s # t /\ send'[s] = send[s]
    BY <2>2 DEF Idle, InFlight
  <2>6. InFlightApart'
    BY <2>1, <2>3, <2>5 DEF InFlightApart
  <2>7. RecallIsThere'
    BY <2>1, <2>5 DEF RecallIsThere
  <2>8. SomeLast'
    BY <2>1, <2>3 DEF SomeLast, NoId
  <2> QED
    BY <2>4, <2>6, <2>7, <2>8
<1>4. ASSUME NEW t \in Senders, Rollback(t) \/ RecallCommit(t) PROVE MInv'
  <2>1. /\ send' = [send EXCEPT ![t] = Idle] /\ UNCHANGED <<nextId, there, elsewhere, lastMsg>>
        /\ recalled' = recalled \/ (send[t].pc = "recall" /\ recalled' = recalled \union {send[t].id})
    BY <1>4 DEF Rollback, RecallCommit
  <2>2. recalled' \subseteq there'
    BY <2>1 DEF Numbered, RecallIsThere
  <2>3. \A s \in Senders : send'[s].pc \in InFlight \/ send'[s].pc = "recall" => send'[s] = send[s]
    BY <1>0, <2>1 DEF MessagesTyped, Idle, InFlight
  <2>4. Numbered'
    BY <2>1, <2>2 DEF Numbered
  <2> QED
    BY <2>1, <2>3, <2>4 DEF InFlightApart, RecallIsThere, SomeLast
<1>5. ASSUME NEW t \in Senders, RecallCheck(t) PROVE MInv'
  <2>1. PICK id \in there : /\ send' = [send EXCEPT ![t] = [pc |-> "recall", id |-> id]]
                            /\ UNCHANGED <<nextId, there, elsewhere, recalled, lastMsg>>
    BY <1>5 DEF RecallCheck
  <2>2. \A s \in Senders : send'[s] = IF s = t THEN [pc |-> "recall", id |-> id] ELSE send[s]
    BY <1>0, <2>1 DEF MessagesTyped
  <2>3. \A s \in Senders : send'[s].pc \in InFlight => send'[s] = send[s]
    BY <2>2 DEF InFlight
  <2> QED
    BY <2>1, <2>2, <2>3 DEF Numbered, InFlightApart, RecallIsThere, SomeLast
<1>6. CASE InsertElsewhere
  <2>1. /\ nextId \in Ids /\ nextId' = nextId + 1 /\ elsewhere' = elsewhere \union {nextId}
        /\ UNCHANGED <<there, recalled, lastMsg, send>>
    BY <1>6 DEF InsertElsewhere
  <2>2. Numbered'
    BY <1>0, <2>1 DEF Numbered, Ids
  <2>3. \A s \in Senders : send[s].id # nextId
    BY <1>0 DEF MessagesTyped
  <2> QED
    BY <2>1, <2>2, <2>3 DEF InFlightApart, RecallIsThere, SomeLast
<1>7. CASE Elsewhere
  BY <1>7 DEF Elsewhere, messages, Numbered, InFlightApart, RecallIsThere, SomeLast
<1> QED
  BY <1>1, <1>2, <1>3, <1>4, <1>5, <1>6, <1>7, Steps DEF Sending, Recall

\* Messages are never taken away.
LEMMA Grows ==
  ASSUME [ChatNext]_vars
  PROVE  there \subseteq there' /\ elsewhere \subseteq elsewhere' /\ recalled \subseteq recalled'
BY Steps DEF Sending, Insert, Touch, Commit, Rollback, Recall, RecallCheck, RecallCommit,
             InsertElsewhere, Elsewhere, messages

-----------------------------------------------------------------------------
\* Sequences, and what is made of a window

\* The numbers of messages, and the one that is none.
LEMMA IdsTyped ==
  /\ MaxId \in Nat /\ Ids = 1..MaxId /\ NoId = 0 /\ Ids \union {NoId} = 0..MaxId
  /\ Ids \union {0} = 0..MaxId
BY SizesAssumption DEF Ids, NoId

\* An element of a list that one was taken from was in it.
LEMMA RemoveAtIs ==
  ASSUME NEW S, NEW s \in Seq(S), NEW i \in 1..Len(s)
  PROVE  /\ RemoveAt(s, i) \in Seq(S) /\ Len(RemoveAt(s, i)) = Len(s) - 1
         /\ \A k \in DOMAIN RemoveAt(s, i) : \E j \in DOMAIN s : RemoveAt(s, i)[k] = s[j]
<1> DEFINE front == SubSeq(s, 1, i - 1)
           back == SubSeq(s, i + 1, Len(s))
<1>1. Len(s) \in Nat /\ DOMAIN s = 1..Len(s) /\ \A k \in 1..Len(s) : s[k] \in S
  BY LenProperties, ElementOfSeq
<1>2. /\ front \in Seq(S) /\ Len(front) = i - 1
      /\ \A k \in 1..(i - 1) : front[k] = s[k]
  <2>1. 1 \in Int /\ i - 1 \in Int /\ \A k \in 1..(i - 1) : s[k] \in S
    BY <1>1
  <2>2. /\ front \in Seq(S) /\ Len(front) = IF 1 <= i - 1 THEN i - 1 - 1 + 1 ELSE 0
        /\ \A k \in 1..(i - 1 - 1 + 1) : front[k] = s[1 + k - 1]
    BY ONLY <2>1, SubSeqProperties
  <2> QED
    BY <1>1, <2>2
<1>3. /\ back \in Seq(S) /\ Len(back) = Len(s) - i
      /\ \A k \in 1..(Len(s) - i) : back[k] = s[i + k]
  <2>1. i + 1 \in Int /\ Len(s) \in Int /\ \A k \in (i + 1)..Len(s) : s[k] \in S
    BY <1>1
  <2>2. /\ back \in Seq(S) /\ Len(back) = IF i + 1 <= Len(s) THEN Len(s) - (i + 1) + 1 ELSE 0
        /\ \A k \in 1..(Len(s) - (i + 1) + 1) : back[k] = s[i + 1 + k - 1]
    BY ONLY <2>1, SubSeqProperties
  <2> HIDE DEF back
  <2>3. \A k \in 1..(Len(s) - i) : k \in 1..(Len(s) - (i + 1) + 1) /\ i + 1 + k - 1 = i + k
    BY <1>1
  <2>4. \A k \in 1..(Len(s) - i) : back[k] = s[i + k]
    BY <2>2, <2>3
  <2>5. Len(back) = Len(s) - i
    <3>1. Len(s) \in Nat /\ i \in Nat /\ i <= Len(s)
      BY <1>1
    <3>2. Len(back) = IF i + 1 <= Len(s) THEN Len(s) - (i + 1) + 1 ELSE 0
      BY <2>2
    <3> QED
      BY ONLY <3>1, <3>2
  <2> QED
    BY <2>2, <2>4, <2>5
<1>4. RemoveAt(s, i) = front \o back
  BY DEF RemoveAt
<1> HIDE DEF front, back
<1>5. /\ front \o back \in Seq(S) /\ Len(front \o back) = Len(front) + Len(back)
      /\ \A k \in 1..(Len(front) + Len(back)) :
           (front \o back)[k] = IF k <= Len(front) THEN front[k] ELSE back[k - Len(front)]
  BY <1>2, <1>3, ConcatProperties
<1>6. Len(front \o back) = Len(s) - 1
  BY <1>1, <1>2, <1>3, <1>5
<1>7. ASSUME NEW k \in DOMAIN (front \o back)
      PROVE  \E j \in DOMAIN s : (front \o back)[k] = s[j]
  <2>1. k \in 1..(Len(s) - 1) /\ k \in 1..(Len(front) + Len(back))
    BY <1>5, <1>6, <1>7, LenProperties
  <2>2. CASE k <= i - 1
    <3>1. (front \o back)[k] = s[k] /\ k \in DOMAIN s
      BY <1>1, <1>2, <1>5, <2>1, <2>2
    <3> QED
      BY <3>1
  <2>3. CASE ~(k <= i - 1)
    <3>1. k - (i - 1) \in 1..(Len(s) - i) /\ k + 1 \in DOMAIN s
      BY <1>1, <2>1, <2>3
    <3>2. (front \o back)[k] = back[k - (i - 1)]
      BY <1>2, <1>5, <2>1, <2>3
    <3>3. back[k - (i - 1)] = s[i + (k - (i - 1))] /\ i + (k - (i - 1)) = k + 1
      BY <1>1, <1>3, <2>1, <3>1
    <3> QED
      BY <3>1, <3>2, <3>3
  <2> QED
    BY <2>2, <2>3
<1> QED
  BY <1>4, <1>5, <1>6, <1>7

\* A window consists of elements.
LEMMA WindowElements ==
  ASSUME NEW w \in Seq(Elements)
  PROVE  /\ Len(w) \in Nat /\ DOMAIN w = 1..Len(w)
         /\ \A i \in DOMAIN w : w[i] \in Elements /\ w[i].id \in Ids /\ w[i].tagged \in BOOLEAN
         /\ \A x : x \in ShownIn(w) <=> \E i \in DOMAIN w : w[i].id = x
         /\ \A x : x \in TaggedIn(w) <=> \E i \in DOMAIN w : w[i].tagged /\ w[i].id = x
         /\ ShownIn(w) \subseteq Ids /\ TaggedIn(w) \subseteq Ids
<1>1. /\ Len(w) \in Nat /\ DOMAIN w = 1..Len(w)
      /\ \A i \in DOMAIN w : w[i] \in Elements
  BY LenProperties, ElementOfSeq
<1>2. \A i \in DOMAIN w : w[i].id \in Ids /\ w[i].tagged \in BOOLEAN
  BY <1>1 DEF Elements
<1>3. \A y : y \in Range(w) <=> \E i \in DOMAIN w : w[i] = y
  BY DEF Range
<1>4. \A x : x \in ShownIn(w) <=> \E i \in DOMAIN w : w[i].id = x
  BY <1>3 DEF ShownIn
<1>5. \A x : x \in TaggedIn(w) <=> \E i \in DOMAIN w : w[i].tagged /\ w[i].id = x
  BY <1>3 DEF TaggedIn
<1> QED
  BY <1>1, <1>2, <1>4, <1>5

\* What Shows makes of `newest`.
LEMMA NewestIs ==
  ASSUME NEW w \in Seq(Elements), NEW T \in SUBSET Ids, NEW m \in T \union {0}
  PROVE  LET n == Max({m} \union (ShownIn(w) \intersect T))
         IN  /\ n \in T \union {0} /\ m <= n
             /\ \A i \in DOMAIN w : w[i].id \in T => w[i].id <= n
<1> DEFINE S == {m} \union (ShownIn(w) \intersect T)
<1>1. S \in SUBSET (0..MaxId) /\ S # {}
  BY IdsTyped
<1>2. m \in S /\ \A i \in DOMAIN w : w[i].id \in T => w[i].id \in S
  BY WindowElements
<1>3. S \subseteq T \union {0}
  OBVIOUS
<1> HIDE DEF S
<1>4. Max(S) \in S /\ \A x \in S : x <= Max(S)
  BY <1>1, IdsTyped, MaxOf
<1> QED
  BY <1>2, <1>3, <1>4 DEF S

\* What a report of the newest message shown makes of the read position.
LEMMA MarkReadAllIs ==
  ASSUME NEW w \in Seq(Elements), MarkReadAll(w), readPos \in Ids \union {0}
  PROVE  /\ readPos' \in Ids \union {0}
         /\ \A m \in Nat : /\ readPos <= m
                           /\ \A i \in DOMAIN w : w[i].tagged => w[i].id <= m
                           => readPos' <= m
         /\ \/ readPos' = readPos
            \/ \A m \in Nat : (\A i \in DOMAIN w : w[i].tagged => w[i].id <= m) => readPos' <= m
<1> DEFINE S == TaggedIn(w) \union {0}
           new == NewestIn(w)
           R == {readPos, new}
<1>1. S \in SUBSET (0..MaxId) /\ S # {} /\ new = Max(S)
  BY IdsTyped, WindowElements DEF NewestIn
<1>2. \A x \in S : x = 0 \/ \E i \in DOMAIN w : w[i].tagged /\ w[i].id = x
  BY WindowElements
<1> HIDE DEF S, new
<1>3. new \in S /\ new \in 0..MaxId
  BY <1>1, IdsTyped, MaxOf
<1>4. R \in SUBSET (0..MaxId) /\ R # {}
  BY <1>3, IdsTyped
<1>5. \A x \in R : x = readPos \/ x = new
  OBVIOUS
<1>6. Forward(readPos, new) = Max(R)
  BY DEF Forward
<1> HIDE DEF R
<1>7. Max(R) = readPos \/ Max(R) = new
  BY <1>4, <1>5, IdsTyped, MaxOf
<1>8. readPos' = readPos \/ readPos' = new
  BY <1>6, <1>7 DEF MarkReadAll, new
<1>9. \A m \in Nat : (\A i \in DOMAIN w : w[i].tagged => w[i].id <= m) => new <= m
  BY <1>2, <1>3
<1> QED
  BY <1>3, <1>8, <1>9, IdsTyped

\* So it stays within what is shown, or is still the one of another room.
LEMMA ReportIsShown ==
  ASSUME NEW w \in Seq(Elements), MarkReadAll(w), readPos \in Ids \union {0}, ReadShown,
         newest \in Nat, newest' \in Nat, newest <= newest', elsewhere \subseteq elsewhere',
         \A i \in DOMAIN w : w[i].id <= newest'
  PROVE  ReadShown'
<1>1. readPos \in Nat
  BY IdsTyped
<1>2. CASE readPos <= newest
  <2>1. readPos <= newest'
    BY <1>1, <1>2
  <2>2. readPos' <= newest'
    BY <2>1, MarkReadAllIs
  <2> QED
    BY <2>2 DEF ReadShown
<1>3. CASE readPos \in elsewhere
  <2>1. readPos' = readPos \/ readPos' <= newest'
    BY MarkReadAllIs
  <2> QED
    BY <1>3, <2>1 DEF ReadShown
<1> QED
  BY <1>2, <1>3 DEF ReadShown

\* An element of two lists put together is one of the one or of the other.
LEMMA ConcatElements ==
  ASSUME NEW S, NEW v \in Seq(S), NEW w \in Seq(S)
  PROVE  /\ v \o w \in Seq(S) /\ DOMAIN (v \o w) = 1..(Len(v) + Len(w))
         /\ \A i \in DOMAIN (v \o w) : \/ i \in DOMAIN v /\ (v \o w)[i] = v[i]
                                       \/ i - Len(v) \in DOMAIN w /\ (v \o w)[i] = w[i - Len(v)]
         /\ \A i \in DOMAIN v : i \in DOMAIN (v \o w) /\ (v \o w)[i] = v[i]
         /\ \A i \in DOMAIN w : Len(v) + i \in DOMAIN (v \o w) /\ (v \o w)[Len(v) + i] = w[i]
<1> DEFINE c == v \o w
<1>1. Len(v) \in Nat /\ Len(w) \in Nat /\ DOMAIN v = 1..Len(v) /\ DOMAIN w = 1..Len(w)
  BY LenProperties
<1>2. /\ c \in Seq(S) /\ Len(c) = Len(v) + Len(w)
      /\ \A i \in 1..(Len(v) + Len(w)) : c[i] = IF i <= Len(v) THEN v[i] ELSE w[i - Len(v)]
  BY ConcatProperties
<1> HIDE DEF c
<1>3. DOMAIN c = 1..(Len(v) + Len(w))
  BY <1>2, LenProperties
<1>4. ASSUME NEW i \in DOMAIN c
      PROVE  \/ i \in DOMAIN v /\ c[i] = v[i]
             \/ i - Len(v) \in DOMAIN w /\ c[i] = w[i - Len(v)]
  BY <1>1, <1>2, <1>3, <1>4
<1>5. \A i \in DOMAIN v : i \in DOMAIN c /\ c[i] = v[i]
  BY <1>1, <1>2, <1>3
<1>6. ASSUME NEW i \in DOMAIN w
      PROVE  Len(v) + i \in DOMAIN c /\ c[Len(v) + i] = w[i]
  <2>1. i \in Nat \ {0} /\ Len(v) + i \in 1..(Len(v) + Len(w)) /\ (Len(v) + i) - Len(v) = i /\ ~(Len(v) + i <= Len(v))
    BY <1>1, <1>6
  <2> QED
    BY <1>2, <1>3, <2>1
<1> QED
  BY <1>2, <1>3, <1>4, <1>5, <1>6 DEF c

\* What an answer puts into the window.
Rows(items) == [k \in DOMAIN items |-> Element(items[k], items[k] \notin recalled)]

\* They show the messages of the page, without id those that were recalled.
LEMMA RowsAre ==
  ASSUME NEW S \in SUBSET Ids, NEW items \in Seq(S)
  PROVE  /\ Rows(items) \in Seq(Elements) /\ DOMAIN Rows(items) = DOMAIN items
         /\ \A k \in DOMAIN items : /\ Rows(items)[k].id = items[k]
                                    /\ Rows(items)[k].tagged \/ items[k] \in recalled
<1>1. Len(items) \in Nat /\ DOMAIN items = 1..Len(items) /\ \A k \in DOMAIN items : items[k] \in S
  BY LenProperties, ElementOfSeq
<1>2. \A k \in DOMAIN items : Element(items[k], items[k] \notin recalled) \in Elements
  BY <1>1 DEF Element, Elements
<1>3. Rows(items) \in [1..Len(items) -> Elements]
  BY <1>1, <1>2 DEF Rows
<1>4. Rows(items) \in Seq(Elements)
  BY <1>1, <1>3
<1>5. \A k \in DOMAIN items : Rows(items)[k] = Element(items[k], items[k] \notin recalled)
  BY DEF Rows
<1>6. DOMAIN Rows(items) = DOMAIN items
  BY DEF Rows
<1>7. ASSUME NEW k \in DOMAIN items
      PROVE  Rows(items)[k].id = items[k] /\ (Rows(items)[k].tagged \/ items[k] \in recalled)
  <2>1. PICK b \in BOOLEAN : b = (items[k] \notin recalled)
    OBVIOUS
  <2>2. Rows(items)[k] = Element(items[k], b)
    BY <1>5, <2>1
  <2>3. Rows(items)[k].id = items[k] /\ Rows(items)[k].tagged = b
    BY <2>2 DEF Element
  <2> QED
    BY <2>1, <2>3
<1> QED
  BY <1>4, <1>6, <1>7

-----------------------------------------------------------------------------
\* The client

\* It starts with no room open.
LEMMA InitCInv == ChatInit => CInv
<1> SUFFICES ASSUME ChatInit PROVE CInv
  OBVIOUS
<1>1. /\ open = FALSE /\ history = <<>> /\ appended = <<>> /\ cursor = 0 /\ loading = FALSE
      /\ loads = <<>> /\ answers = {} /\ reads = {} /\ start = {} /\ newest = 0 /\ crossed = FALSE
      /\ readPos = 0
  BY DEF ChatInit, Init, NoId
<1>2. ClientTyped
  <2>1. <<>> \in Seq(Elements) /\ <<>> \in Seq(Requests) /\ Len(<<>>) = 0
    BY EmptySeq
  <2>2. cursor \in Ids \union {NoId} /\ readPos \in Ids \union {0}
    BY <1>1, IdsTyped
  <2>3. Len(appended) <= MaxAppended /\ Len(loads) <= MaxLoads
    BY <1>1, <2>1, BoundsAssumption
  <2>4. history \in Seq(Elements) /\ appended \in Seq(Elements) /\ loads \in Seq(Requests)
    BY <1>1, <2>1
  <2> QED
    BY <1>1, <2>2, <2>3, <2>4 DEF ClientTyped
<1>3. \A i : i \notin DOMAIN history /\ i \notin DOMAIN appended /\ i \notin DOMAIN loads
  BY <1>1
<1> QED
  BY <1>1, <1>2, <1>3 DEF CInv, WindowOfRoom, Tagged, OneRoom, ShownCounted, ReadShown, Counted, InTurn,
     Contiguous

\* A step of the database leaves the client alone, but for an own message
\* whose request is being answered.
LEMMA DatabaseCInv ==
  ASSUME CInv, there \subseteq there', elsewhere \subseteq elsewhere', recalled \subseteq recalled',
         UNCHANGED <<open, history, appended, cursor, loading, loads, reads, start, newest, crossed, readPos>>,
         answers' \subseteq there' \union elsewhere', open => answers' \subseteq answers \union there'
  PROVE  CInv'
<1> USE DEF CInv
<1>1. ClientTyped'
  BY DEF ClientTyped
<1>2. WindowOfRoom'
  BY DEF WindowOfRoom, Tagged
<1>3. OneRoom'
  BY DEF OneRoom
<1>4. ShownCounted'
  BY DEF ShownCounted, ReadShown, Counted
<1>5. InTurn' /\ Contiguous'
  BY DEF InTurn, Contiguous, Holds
<1> QED
  BY <1>1, <1>2, <1>3, <1>4, <1>5

\* A window that is opened is empty, and nothing else is under way unless crossed.
LEMMA OpenRoomCInv ==
  ASSUME CInv, NEW room \in BOOLEAN, OpenRoom(room)
  PROVE  CInv'
<1> DEFINE load == [room |-> room, scroll |-> FALSE, cursor |-> NoId]
<1>1. /\ Len(loads) < MaxLoads /\ loads' = Append(loads, load)
      /\ open' = room /\ history' = <<>> /\ appended' = <<>> /\ cursor' = 0 /\ loading' = FALSE
      /\ crossed' = (crossed \/ UnderWay)
      /\ start' = IF room /\ ~crossed' THEN there ELSE {}
      /\ newest' = IF crossed' THEN 0 ELSE newest
      /\ UNCHANGED <<there, elsewhere, recalled, readPos, answers>>
      /\ reads' \in IF ~room THEN {{}} ELSE IF open THEN {reads} ELSE ReadElsewhere
  BY DEF OpenRoom, Ask, NoId, timeline, messages
<1>2. load \in Requests
  BY DEF Requests
<1>3. MaxLoads \in Nat /\ MaxAppended \in Nat
  BY BoundsAssumption
<1>4. ClientTyped /\ crossed \in BOOLEAN /\ loads \in Seq(Requests) /\ Len(loads) \in Nat
  BY LenProperties DEF CInv, ClientTyped
<1> HIDE DEF load
<1>5. loads' \in Seq(Requests) /\ Len(loads') = Len(loads) + 1
  BY <1>1, <1>2, <1>4, AppendProperties
<1>6. ClientTyped'
  <2>1. <<>> \in Seq(Elements) /\ Len(<<>>) = 0
    BY EmptySeq
  <2>2. crossed' \in BOOLEAN /\ open' \in BOOLEAN /\ loading' \in BOOLEAN
    BY <1>1, <1>4
  <2>3. history' \in Seq(Elements) /\ appended' \in Seq(Elements) /\ Len(appended') <= MaxAppended
    BY <1>1, <1>3, <2>1
  <2>4. cursor' \in Ids \union {NoId} /\ newest' \in there' \union {0} /\ readPos' \in Ids \union {0}
    BY <1>1, <1>4, IdsTyped DEF ClientTyped
  <2>5. Len(loads') <= MaxLoads
    BY <1>1, <1>3, <1>4, <1>5
  <2>6. answers' \union start' \subseteq there' \union elsewhere' /\ reads' \subseteq elsewhere'
    BY <1>1, <1>4 DEF ClientTyped, ReadElsewhere
  <2> QED
    BY <1>5, <2>2, <2>3, <2>4, <2>5, <2>6 DEF ClientTyped
<1>7. \A i : i \notin DOMAIN history' /\ i \notin DOMAIN appended'
  BY <1>1
<1>8. WindowOfRoom'
  BY <1>1, <1>7 DEF WindowOfRoom, Tagged
<1>9. CASE crossed'
  BY <1>6, <1>8, <1>9 DEF CInv, OneRoom, ShownCounted, InTurn, Contiguous
<1>10. CASE ~crossed'
  <2>1. ~crossed /\ loads = <<>> /\ answers = {}
    BY <1>1, <1>10 DEF UnderWay
  <2>2. loads' = <<load>> /\ Len(loads') = 1 /\ DOMAIN loads' = {1} /\ loads'[1] = load
    BY <1>1, <2>1
  <2>3. OneRoom'
    BY <1>1, <2>1, <2>2 DEF OneRoom, load
  <2>4. ShownCounted'
    BY <1>1, <1>7, <1>10, <2>1 DEF CInv, ShownCounted, ReadShown, Counted
  <2>5. InTurn'
    BY <1>1, <1>10, <2>2 DEF InTurn, load, NoId
  <2>6. Contiguous'
    BY <1>7, <2>2 DEF Contiguous, load
  <2> QED
    BY <1>6, <1>8, <2>3, <2>4, <2>5, <2>6 DEF CInv
<1> QED
  BY <1>9, <1>10

\* The only request for history, for what comes below the cursor.
LEMMA ScrollCInv ==
  ASSUME CInv, Scroll
  PROVE  CInv'
<1> DEFINE load == [room |-> open, scroll |-> TRUE, cursor |-> cursor]
<1>1. /\ cursor # 0 /\ ~loading /\ loading' = TRUE
      /\ Len(loads) < MaxLoads /\ loads' = Append(loads, load)
      /\ UNCHANGED <<there, elsewhere, recalled, readPos>>
      /\ UNCHANGED <<open, history, appended, cursor, answers, reads, start, newest, crossed>>
  BY DEF Scroll, Ask, NoId, timeline, messages
<1>2. ClientTyped /\ MaxLoads \in Nat /\ loads \in Seq(Requests) /\ Len(loads) \in Nat
  BY BoundsAssumption, LenProperties DEF CInv, ClientTyped
<1>3. load \in Requests
  BY <1>2 DEF Requests, ClientTyped
<1> HIDE DEF load
<1>4. loads' \in Seq(Requests) /\ Len(loads') = Len(loads) + 1
  BY <1>1, <1>2, <1>3, AppendProperties
<1>5. ClientTyped'
  <2>1. Len(loads') <= MaxLoads
    BY <1>1, <1>2, <1>4
  <2> QED
    BY <1>1, <1>2, <1>4, <2>1 DEF ClientTyped
<1>6. WindowOfRoom' /\ ShownCounted'
  BY <1>1 DEF CInv, WindowOfRoom, Tagged, ShownCounted, ReadShown, Counted
<1>7. OneRoom'
  <2>1. \A i \in DOMAIN loads' : loads'[i] = load \/ (i \in DOMAIN loads /\ loads'[i] = loads[i])
    BY <1>1, <1>2, <1>3, AppendProperties, LenProperties
  <2> QED
    BY <1>1, <2>1 DEF CInv, OneRoom, load
<1>8. CASE ~crossed /\ open
  <2>1. loads = <<>>
    <3>1. InTurn
      BY DEF CInv
    <3>2. \A i \in DOMAIN loads : FALSE
      BY <1>1, <1>8, <3>1 DEF InTurn, NoId
    <3>3. Len(loads) = 0
      BY <1>2, <3>2, LenProperties
    <3> QED
      BY <1>2, <3>3, EmptySeq
  <2>2. loads' = <<load>> /\ Len(loads') = 1 /\ DOMAIN loads' = {1} /\ loads'[1] = load
    BY <1>1, <2>1
  <2>3. InTurn'
    BY <1>1, <1>8, <2>2 DEF CInv, InTurn, load, NoId
  <2>4. Contiguous'
    <3>1. \A i \in DOMAIN loads : FALSE
      BY <2>1
    <3> QED
      BY <1>1, <1>8, <2>2, <3>1 DEF CInv, Contiguous, load, Holds
  <2> QED
    BY <1>5, <1>6, <1>7, <2>3, <2>4 DEF CInv
<1>9. CASE ~(~crossed /\ open)
  BY <1>1, <1>5, <1>6, <1>7, <1>9 DEF CInv, InTurn, Contiguous
<1> QED
  BY <1>8, <1>9

\* A request that fails leaves nothing for the start, or what was there before.
LEMMA HistoryFailsCInv ==
  ASSUME CInv, NEW i \in DOMAIN loads, HistoryFails(i)
  PROVE  CInv'
<1>1. /\ loads' = RemoveAt(loads, i) /\ start' = (IF loads[i].scroll THEN start ELSE {})
      /\ UNCHANGED <<there, elsewhere, recalled, readPos>>
      /\ UNCHANGED <<open, history, appended, cursor, loading, answers, reads, newest, crossed>>
  BY DEF HistoryFails, timeline, messages
<1>2. ClientTyped /\ MaxLoads \in Nat /\ loads \in Seq(Requests) /\ Len(loads) \in Nat /\ i \in 1..Len(loads)
  BY BoundsAssumption, LenProperties DEF CInv, ClientTyped
<1>3. /\ loads' \in Seq(Requests) /\ Len(loads') = Len(loads) - 1
      /\ \A k \in DOMAIN loads' : \E j \in DOMAIN loads : loads'[k] = loads[j]
  BY <1>1, <1>2, RemoveAtIs
<1>4. ClientTyped'
  <2>1. Len(loads') <= MaxLoads
    BY <1>2, <1>3 DEF ClientTyped
  <2> QED
    BY <1>1, <1>2, <1>3, <2>1 DEF ClientTyped
<1>5. WindowOfRoom' /\ ShownCounted' /\ OneRoom'
  BY <1>1, <1>3 DEF CInv, WindowOfRoom, Tagged, ShownCounted, ReadShown, Counted, OneRoom
<1>6. CASE ~crossed /\ open
  <2>1. InTurn /\ Contiguous
    BY DEF CInv
  <2>2. Len(loads') = 0 /\ DOMAIN loads' = {} /\ start' \subseteq start
    BY <1>1, <1>2, <1>3, <1>6, <2>1, LenProperties DEF InTurn
  <2>3. InTurn'
    BY <1>1, <1>6, <2>1, <2>2 DEF InTurn
  <2>4. \A id \in start' : id >= cursor => Holds(history, id)
    <3> SUFFICES ASSUME loads[i].scroll PROVE \A k \in DOMAIN loads : loads[k].scroll
      BY <1>1, <1>6, <2>1, <2>2 DEF Contiguous
    <3>1. \A k \in DOMAIN loads : k = i
      BY <1>2, <1>6, <2>1, LenProperties DEF InTurn
    <3> QED
      BY <3>1
  <2>5. Contiguous'
    BY <1>1, <1>6, <2>1, <2>4 DEF Contiguous, Holds
  <2> QED
    BY <1>4, <1>5, <2>3, <2>5 DEF CInv
<1>7. CASE ~(~crossed /\ open)
  BY <1>1, <1>4, <1>5, <1>7 DEF CInv, InTurn, Contiguous
<1> QED
  BY <1>6, <1>7

\* What a window shows when an element was added to it counts for `newest`,
\* and for the read position no more than that.
LEMMA ShowCInv ==
  ASSUME CInv, Numbered, open, NEW id \in Ids, NEW tagged \in BOOLEAN, Show(id, tagged),
         tagged \/ id \in recalled, ~crossed => id \in there,
         UNCHANGED <<there, elsewhere, recalled, open, history, cursor, loading, loads, reads, start, crossed>>,
         answers' \subseteq answers
  PROVE  CInv'
<1> DEFINE element == Element(id, tagged)
           window == history \o appended'
<1>1. /\ Len(appended) < MaxAppended /\ appended' = Append(appended, element)
      /\ newest' = IF crossed THEN 0 ELSE Max({newest} \union (ShownIn(appended') \intersect there))
      /\ MarkReadAll(window)
  BY DEF Show, Shows
<1>2. /\ ClientTyped /\ history \in Seq(Elements) /\ appended \in Seq(Elements) /\ readPos \in Ids \union {0}
      /\ newest \in there \union {0} /\ there \in SUBSET Ids /\ Len(appended) \in Nat /\ MaxAppended \in Nat
  <2>1. ClientTyped
    BY DEF CInv
  <2>2. there \in SUBSET Ids
    BY IdsTyped DEF Numbered
  <2> QED
    BY <2>1, <2>2, BoundsAssumption, LenProperties DEF ClientTyped
<1>3. element \in Elements /\ element.id = id /\ element.tagged = tagged
  BY DEF Element, Elements
<1> HIDE DEF element, window
<1>4. /\ appended' \in Seq(Elements) /\ Len(appended') = Len(appended) + 1
      /\ \A i \in DOMAIN appended' : \/ appended'[i] = element
                                     \/ i \in DOMAIN appended /\ appended'[i] = appended[i]
  <2>1. /\ Append(appended, element) \in Seq(Elements) /\ Len(Append(appended, element)) = Len(appended) + 1
        /\ \A i \in 1..Len(appended) : Append(appended, element)[i] = appended[i]
        /\ Append(appended, element)[Len(appended) + 1] = element
    BY <1>2, <1>3, AppendProperties
  <2>2. DOMAIN appended' = 1..(Len(appended) + 1) /\ DOMAIN appended = 1..Len(appended)
    BY <1>1, <1>2, <2>1, LenProperties
  <2> QED
    BY <1>1, <1>2, <2>1, <2>2
<1>5. /\ newest' \in there \union {0}
      /\ ~crossed => /\ newest <= newest'
                     /\ \A i \in DOMAIN appended' : appended'[i].id \in there => appended'[i].id <= newest'
  <2>1. CASE crossed
    BY <1>1, <2>1
  <2>2. CASE ~crossed
    BY <1>1, <1>2, <1>4, <2>2, NewestIs
  <2> QED
    BY <2>1, <2>2
<1>6. /\ window \in Seq(Elements)
      /\ \A i \in DOMAIN window : \/ i \in DOMAIN history /\ window[i] = history[i]
                                  \/ i - Len(history) \in DOMAIN appended' /\ window[i] = appended'[i - Len(history)]
  BY <1>2, <1>4, ConcatElements DEF window
<1>7. readPos' \in Ids \union {0}
  BY <1>1, <1>2, <1>6, MarkReadAllIs
<1>8. ASSUME ~crossed PROVE ShownCounted'
  <2>1. /\ Counted(history) /\ Counted(appended) /\ ReadShown
        /\ newest <= newest' /\ newest \in Nat /\ newest' \in Nat
    BY <1>2, <1>5, <1>8, IdsTyped DEF CInv, ShownCounted
  <2>2. \A i \in DOMAIN appended' : appended'[i].id \in there /\ appended'[i].id <= newest'
    BY <1>3, <1>4, <1>5, <1>8, <2>1 DEF Counted
  <2>3. \A i \in DOMAIN history : history[i].id \in there /\ history[i].id <= newest'
    <3>1. \A i \in DOMAIN history : history[i].id \in Nat
      BY <1>2, WindowElements, IdsTyped
    <3> QED
      BY <2>1, <3>1 DEF Counted
  <2>4. \A i \in DOMAIN window : window[i].id <= newest'
    BY <1>6, <2>2, <2>3
  <2>5. ReadShown'
    BY <1>1, <1>2, <1>6, <2>1, <2>4, ReportIsShown
  <2> QED
    BY <2>2, <2>3, <2>5 DEF ShownCounted, Counted
<1>9. ClientTyped'
  <2>1. Len(appended') <= MaxAppended
    BY <1>1, <1>2, <1>4
  <2> QED
    BY <1>2, <1>4, <1>5, <1>7, <2>1 DEF ClientTyped
<1>10. WindowOfRoom'
  BY <1>3, <1>4 DEF CInv, WindowOfRoom, Tagged
<1>11. OneRoom' /\ InTurn' /\ Contiguous'
  BY DEF CInv, OneRoom, InTurn, Contiguous, Holds
<1> QED
  BY <1>8, <1>9, <1>10, <1>11 DEF CInv, ShownCounted

\* Announced: the message is there.
LEMMA MessageNewCInv ==
  ASSUME CInv, Numbered, NEW id \in Ids, MessageNew(id)
  PROVE  CInv'
<1>1. /\ open /\ id \in there
      /\ UNCHANGED <<there, elsewhere, recalled, open, history, cursor, loading, loads, answers, reads, start,
                     crossed>>
  BY DEF MessageNew, messages
<1>2. PICK tagged \in {TRUE, id \notin recalled} : Show(id, tagged)
  BY DEF MessageNew
<1>3. tagged \in BOOLEAN /\ (tagged \/ id \in recalled)
  OBVIOUS
<1> QED
  BY <1>1, <1>2, <1>3, ShowCInv

\* Own message: it is there, or was sent in another room and rooms were crossed.
LEMMA AnsweredCInv ==
  ASSUME CInv, Numbered, NEW id \in Ids, Answered(id)
  PROVE  CInv'
<1>1. /\ id \in answers /\ answers' = answers \ {id}
      /\ UNCHANGED <<there, elsewhere, recalled, open, history, cursor, loading, loads, reads, start, crossed>>
  BY DEF Answered, messages
<1>2. CASE open /\ Show(id, TRUE)
  <2>1. ~crossed => id \in there
    BY <1>1, <1>2 DEF CInv, OneRoom
  <2> QED
    BY <1>1, <1>2, <2>1, ShowCInv
<1>3. CASE UNCHANGED <<appended, newest, readPos>>
  <2>1. answers' \subseteq there' \union elsewhere'
    BY <1>1 DEF CInv, ClientTyped
  <2> QED
    BY <1>1, <1>3, <2>1, DatabaseCInv
<1> QED
  BY <1>2, <1>3 DEF Answered

\* Another report of what is shown.
LEMMA MessageReadCInv ==
  ASSUME CInv, Numbered, MessageRead
  PROVE  CInv'
<1>1. /\ MarkReadAll(Window) /\ UNCHANGED <<there, elsewhere, recalled>>
      /\ UNCHANGED <<open, history, appended, cursor, loading, loads, answers, reads, start, newest, crossed>>
  BY DEF MessageRead, messages, client
<1>2. ClientTyped /\ history \in Seq(Elements) /\ appended \in Seq(Elements) /\ readPos \in Ids \union {0}
  BY DEF CInv, ClientTyped
<1>3. /\ Window \in Seq(Elements)
      /\ \A i \in DOMAIN Window : \/ i \in DOMAIN history /\ Window[i] = history[i]
                                  \/ i - Len(history) \in DOMAIN appended /\ Window[i] = appended[i - Len(history)]
  BY <1>2, ConcatElements DEF Window
<1>4. readPos' \in Ids \union {0}
  BY <1>1, <1>2, <1>3, MarkReadAllIs
<1>5. ASSUME ~crossed PROVE ReadShown'
  <2>1. Counted(history) /\ Counted(appended) /\ ReadShown
    BY <1>5 DEF CInv, ShownCounted
  <2>2. newest \in Nat
    <3>1. there \subseteq Ids /\ newest \in there \union {0}
      BY <1>2, IdsTyped DEF Numbered, ClientTyped
    <3> QED
      BY <3>1, IdsTyped
  <2>3. \A i \in DOMAIN Window : Window[i].id <= newest
    BY <1>3, <2>1 DEF Counted
  <2> QED
    BY <1>1, <1>2, <1>3, <2>1, <2>2, <2>3, ReportIsShown
<1>6. ClientTyped' /\ WindowOfRoom' /\ OneRoom' /\ InTurn' /\ Contiguous'
  BY <1>1, <1>4 DEF CInv, ClientTyped, WindowOfRoom, Tagged, OneRoom, InTurn, Contiguous, Holds
<1>7. ShownCounted'
  BY <1>1, <1>5 DEF CInv, ShownCounted, Counted
<1> QED
  BY <1>6, <1>7 DEF CInv

\* A report of another room, told this one: its id is one of that room.
LEMMA ReportAnsweredCInv ==
  ASSUME CInv, Numbered, NEW id \in Ids, ReportAnswered(id)
  PROVE  CInv'
<1>1. /\ id \in reads /\ reads' = reads \ {id} /\ readPos' \in {readPos, Max({readPos, id})}
      /\ UNCHANGED <<there, elsewhere, recalled>>
      /\ UNCHANGED <<open, history, appended, cursor, loading, loads, answers, start, newest, crossed>>
  BY DEF ReportAnswered, Forward, messages
<1>2. id \in elsewhere /\ readPos \in Ids \union {0}
  BY <1>1 DEF CInv, ClientTyped
<1>3. readPos' = readPos \/ readPos' = id
  <2> DEFINE R == {readPos, id}
  <2>1. R \in SUBSET (0..MaxId) /\ R # {}
    BY <1>2, IdsTyped
  <2>2. \A x \in R : x = readPos \/ x = id
    OBVIOUS
  <2> HIDE DEF R
  <2>3. Max(R) = readPos \/ Max(R) = id
    BY <2>1, <2>2, IdsTyped, MaxOf
  <2> QED
    BY <1>1, <2>3 DEF R
<1>4. ClientTyped' /\ WindowOfRoom' /\ OneRoom' /\ InTurn' /\ Contiguous'
  BY <1>1, <1>2, <1>3 DEF CInv, ClientTyped, WindowOfRoom, Tagged, OneRoom, InTurn, Contiguous, Holds
<1>5. ShownCounted'
  BY <1>1, <1>2, <1>3 DEF CInv, ShownCounted, ReadShown, Counted
<1> QED
  BY <1>4, <1>5 DEF CInv

\* The page is the first one, or joins the window at the cursor.
LEMMA HistoryArrivesCInv ==
  ASSUME CInv, Numbered, NEW i \in DOMAIN loads, HistoryArrives(i)
  PROVE  CInv'
<1> DEFINE load == loads[i]
           S == IF load.room THEN there ELSE elsewhere
           page == Page(S, load.cursor)
           items == page.items
           rows == Rows(items)
           window == history' \o appended
<1>1. /\ loads' = RemoveAt(loads, i) /\ cursor' = page.next /\ loading' = (loading /\ ~load.scroll)
      /\ UNCHANGED <<there, elsewhere, recalled, open, appended, answers, reads, start, crossed>>
  BY DEF HistoryArrives, messages
<1>2. /\ open => /\ history' = rows \o history /\ Shows(history')
                 /\ readPos' = readPos \/ MarkReadAll(window)
      /\ ~open => UNCHANGED <<history, newest, readPos>>
  BY DEF HistoryArrives, Rows
<1>3. /\ ClientTyped /\ history \in Seq(Elements) /\ appended \in Seq(Elements) /\ readPos \in Ids \union {0}
      /\ newest \in there \union {0} /\ there \in SUBSET Ids /\ elsewhere \in SUBSET Ids
      /\ load \in Requests /\ MaxLoads \in Nat /\ loads \in Seq(Requests) /\ i \in 1..Len(loads)
  <2>1. ClientTyped
    BY DEF CInv
  <2>2. there \in SUBSET Ids /\ elsewhere \in SUBSET Ids
    BY IdsTyped DEF Numbered
  <2> QED
    BY <2>1, <2>2, BoundsAssumption, LenProperties, ElementOfSeq DEF ClientTyped
<1>4. S \in SUBSET Ids /\ load.room \in BOOLEAN /\ load.scroll \in BOOLEAN /\ load.cursor \in Nat
  BY <1>3, IdsTyped DEF Requests
<1>5. Before(S, load.cursor) \in SUBSET Ids
  BY <1>4 DEF Before
<1> HIDE DEF load, S
<1>6. /\ items \in Seq(Before(S, load.cursor))
      /\ page.next \in Before(S, load.cursor) \union {NoId}
      /\ \A k, j \in DOMAIN items : k # j => items[k] # items[j]
      /\ \A k \in DOMAIN items : items[k] >= page.next
      /\ \A x \in Before(S, load.cursor) : x >= page.next => \E k \in DOMAIN items : items[k] = x
  BY <1>4, PageIs
<1> HIDE DEF page
<1>7. \A k \in DOMAIN items : items[k] \in Before(S, load.cursor) /\ items[k] \in Nat
  BY <1>5, <1>6, IdsTyped, LenProperties, ElementOfSeq
<1>8. /\ rows \in Seq(Elements) /\ DOMAIN rows = DOMAIN items
      /\ \A k \in DOMAIN items : rows[k].id = items[k] /\ (rows[k].tagged \/ items[k] \in recalled)
  BY <1>5, <1>6, RowsAre
<1> HIDE DEF items, rows, window
<1>9. /\ loads' \in Seq(Requests) /\ Len(loads') = Len(loads) - 1
      /\ \A k \in DOMAIN loads' : \E j \in DOMAIN loads : loads'[k] = loads[j]
  BY <1>1, <1>3, RemoveAtIs
<1>10. cursor' \in Ids \union {NoId} /\ Len(loads') <= MaxLoads /\ loading' \in BOOLEAN
  <2>1. Len(loads') <= MaxLoads
    BY <1>3, <1>9, LenProperties DEF ClientTyped
  <2> QED
    BY <1>1, <1>3, <1>4, <1>5, <1>6, <2>1 DEF ClientTyped
<1>11. OneRoom'
  BY <1>1, <1>9 DEF CInv, OneRoom
<1>12. CASE ~open
  <2>1. ClientTyped'
    BY <1>1, <1>2, <1>3, <1>9, <1>10, <1>12 DEF ClientTyped
  <2>2. WindowOfRoom' /\ ShownCounted'
    BY <1>1, <1>2, <1>12 DEF CInv, WindowOfRoom, Tagged, ShownCounted, ReadShown, Counted
  <2> QED
    BY <1>1, <1>11, <1>12, <2>1, <2>2 DEF CInv, InTurn, Contiguous
<1>13. CASE open
  <2>1. /\ history' \in Seq(Elements)
        /\ \A k \in DOMAIN history' :
             \/ k \in DOMAIN items /\ history'[k] = rows[k]
             \/ k - Len(rows) \in DOMAIN history /\ history'[k] = history[k - Len(rows)]
        /\ \A k \in DOMAIN items : k \in DOMAIN history' /\ history'[k] = rows[k]
        /\ \A k \in DOMAIN history : Len(rows) + k \in DOMAIN history' /\ history'[Len(rows) + k] = history[k]
        /\ DOMAIN history' = 1..(Len(rows) + Len(history))
    <3>1. /\ rows \o history \in Seq(Elements) /\ DOMAIN (rows \o history) = 1..(Len(rows) + Len(history))
          /\ \A k \in DOMAIN (rows \o history) :
               \/ k \in DOMAIN rows /\ (rows \o history)[k] = rows[k]
               \/ k - Len(rows) \in DOMAIN history /\ (rows \o history)[k] = history[k - Len(rows)]
          /\ \A k \in DOMAIN rows : k \in DOMAIN (rows \o history) /\ (rows \o history)[k] = rows[k]
          /\ \A k \in DOMAIN history : /\ Len(rows) + k \in DOMAIN (rows \o history)
                                       /\ (rows \o history)[Len(rows) + k] = history[k]
      BY <1>3, <1>8, ConcatElements
    <3> QED
      BY <1>2, <1>8, <1>13, <3>1
  <2>2. newest' = IF crossed THEN 0 ELSE Max({newest} \union (ShownIn(history') \intersect there))
    BY <1>2, <1>13 DEF Shows
  <2>3. /\ newest' \in there \union {0}
        /\ ~crossed => /\ newest <= newest'
                       /\ \A k \in DOMAIN history' : history'[k].id \in there => history'[k].id <= newest'
    <3>1. CASE crossed
      BY <2>2, <3>1
    <3>2. CASE ~crossed
      BY <1>3, <2>1, <2>2, <3>2, NewestIs
    <3> QED
      BY <3>1, <3>2
  <2>4. /\ window \in Seq(Elements)
        /\ \A k \in DOMAIN window : \/ k \in DOMAIN history' /\ window[k] = history'[k]
                                    \/ k - Len(history') \in DOMAIN appended /\ window[k] = appended[k - Len(history')]
    BY <1>3, <2>1, ConcatElements DEF window
  <2>5. readPos' \in Ids \union {0}
    BY <1>2, <1>3, <1>13, <2>4, MarkReadAllIs
  <2>6. ClientTyped'
    BY <1>1, <1>3, <1>9, <1>10, <2>1, <2>3, <2>5 DEF ClientTyped
  <2>7. WindowOfRoom'
    BY <1>1, <1>8, <1>13, <2>1 DEF CInv, WindowOfRoom, Tagged
  <2>8. CASE crossed
    BY <1>1, <1>11, <2>6, <2>7, <2>8 DEF CInv, ShownCounted, InTurn, Contiguous
  <2>9. CASE ~crossed
    <3>1. OneRoom /\ ShownCounted /\ InTurn /\ Contiguous
      BY DEF CInv
    <3>2. load.room /\ S = there
      BY <1>13, <2>9, <3>1 DEF OneRoom, load, S
    <3>3. Len(loads') = 0 /\ DOMAIN loads' = {}
      BY <1>3, <1>9, <1>13, <2>9, <3>1, LenProperties DEF InTurn
    <3>4. ShownCounted'
      <4>1. /\ Counted(history) /\ Counted(appended) /\ ReadShown
            /\ newest <= newest' /\ newest \in Nat /\ newest' \in Nat /\ readPos \in Nat
        BY <1>3, <2>3, <2>9, <3>1, IdsTyped DEF ShownCounted
      <4>2. \A k \in DOMAIN history' : history'[k].id \in there
        BY <1>7, <1>8, <2>1, <3>2, <4>1 DEF Counted, Before
      <4>3. \A k \in DOMAIN appended : appended[k].id \in there /\ appended[k].id <= newest'
        <5>1. \A k \in DOMAIN appended : appended[k].id \in Nat
          BY <1>3, WindowElements, IdsTyped
        <5> QED
          BY <4>1, <5>1 DEF Counted
      <4>4. \A k \in DOMAIN window : window[k].id <= newest'
        BY <2>3, <2>4, <2>9, <4>2, <4>3
      <4>5. ReadShown'
        <5>1. CASE readPos' = readPos
          BY <1>1, <4>1, <5>1 DEF ReadShown
        <5>2. CASE MarkReadAll(window)
          BY <1>1, <1>3, <2>4, <4>1, <4>4, <5>2, ReportIsShown
        <5> QED
          BY <1>2, <1>13, <5>1, <5>2
      <4> QED
        BY <1>1, <2>3, <2>9, <4>2, <4>3, <4>5 DEF ShownCounted, Counted
    <3>5. InTurn'
      BY <1>1, <1>13, <2>9, <3>1, <3>3 DEF InTurn
    <3>6. \A k \in DOMAIN history : history[k].id \in Nat
      BY <1>3, WindowElements, IdsTyped
    <3>7. cursor \in Nat /\ page.next \in Nat
      BY <1>3, <1>5, <1>6, IdsTyped DEF ClientTyped
    \* Below the window so far there is nothing that the page does not bring.
    <3>8. /\ \A k \in DOMAIN history, j \in DOMAIN items : items[j] < history[k].id
          /\ \A k \in DOMAIN history : history[k].id >= page.next
          /\ \A id \in start : /\ id \in there
                               /\ Holds(history, id) \/ id \in Before(S, load.cursor)
      <4>1. CASE load.scroll
        <5>1. load.cursor = cursor /\ cursor # 0 /\ \A k \in DOMAIN loads : loads[k].scroll
          <6>1. \A k \in DOMAIN loads : k = i
            BY <1>3, <1>13, <2>9, <3>1, LenProperties DEF InTurn
          <6> QED
            BY <1>13, <2>9, <3>1, <4>1, <6>1, IdsTyped DEF InTurn, load
        <5>2. \A x \in Before(S, load.cursor) : x \in there /\ x < cursor
          BY <3>2, <5>1, IdsTyped DEF Before
        <5>3. \A k \in DOMAIN history : history[k].id >= cursor
          BY <1>13, <2>9, <3>1 DEF Contiguous
        <5>4. page.next < cursor
          BY <1>6, <3>7, <5>1, <5>2, IdsTyped
        <5>5. ASSUME NEW id \in start PROVE id \in there /\ (Holds(history, id) \/ id \in Before(S, load.cursor))
          <6>1. id \in there /\ id \in Nat
            <7>1. id \in there
              BY <1>13, <2>9, <3>1 DEF InTurn
            <7> QED
              BY <7>1, <1>3, IdsTyped
          <6>2. CASE id >= cursor
            BY <1>13, <2>9, <3>1, <5>1, <6>1, <6>2 DEF Contiguous
          <6>3. CASE ~(id >= cursor)
            BY <3>2, <3>7, <5>1, <6>1, <6>3 DEF Before
          <6> QED
            BY <6>1, <6>2, <6>3
        <5>6. \A k \in DOMAIN history, j \in DOMAIN items : items[j] < history[k].id
          BY <1>7, <3>6, <3>7, <5>2, <5>3
        <5>7. \A k \in DOMAIN history : history[k].id >= page.next
          BY <3>6, <3>7, <5>3, <5>4
        <5> QED
          BY <5>5, <5>6, <5>7
      <4>2. CASE ~load.scroll
        <5>1. history = <<>> /\ load.cursor = NoId /\ start \subseteq there
          BY <1>13, <2>9, <3>1, <4>2 DEF InTurn, load
        <5>2. \A k : k \notin DOMAIN history
          BY <5>1
        <5>3. Before(S, load.cursor) = there
          BY <3>2, <5>1 DEF Before
        <5> QED
          BY <5>1, <5>2, <5>3
      <4> QED
        BY <4>1, <4>2
    <3>9. \A k, j \in DOMAIN history' : k # j => history'[k].id # history'[j].id
      <4>1. \A k, j \in DOMAIN history : k # j => history[k].id # history[j].id
        BY <1>13, <2>9, <3>1 DEF Contiguous
      <4>2. \A k \in DOMAIN items : rows[k].id = items[k]
        BY <1>8
      <4>3. Len(rows) \in Nat /\ \A k \in DOMAIN history' : k \in Int
        BY <1>8, <2>1, LenProperties
      <4> SUFFICES ASSUME NEW k \in DOMAIN history', NEW j \in DOMAIN history', k # j
                   PROVE  history'[k].id # history'[j].id
        OBVIOUS
      <4>4. CASE k \in DOMAIN items /\ history'[k] = rows[k] /\ j \in DOMAIN items /\ history'[j] = rows[j]
        BY <1>6, <4>2, <4>4
      <4>5. CASE /\ k \in DOMAIN items /\ history'[k] = rows[k]
                 /\ j - Len(rows) \in DOMAIN history /\ history'[j] = history[j - Len(rows)]
        BY <1>7, <3>6, <3>8, <4>2, <4>5
      <4>6. CASE /\ j \in DOMAIN items /\ history'[j] = rows[j]
                 /\ k - Len(rows) \in DOMAIN history /\ history'[k] = history[k - Len(rows)]
        BY <1>7, <3>6, <3>8, <4>2, <4>6
      <4>7. CASE /\ j - Len(rows) \in DOMAIN history /\ history'[j] = history[j - Len(rows)]
                 /\ k - Len(rows) \in DOMAIN history /\ history'[k] = history[k - Len(rows)]
        <5>1. k - Len(rows) # j - Len(rows)
          BY <4>3
        <5> QED
          BY <4>1, <4>7, <5>1
      <4> QED
        BY <2>1, <4>4, <4>5, <4>6, <4>7
    <3>10. \A k \in DOMAIN history' : history'[k].id >= cursor'
      BY <1>1, <1>6, <1>8, <2>1, <3>8
    <3>11. \A id \in start : id >= cursor' => Holds(history', id)
      <4> SUFFICES ASSUME NEW id \in start, id >= cursor' PROVE Holds(history', id)
        OBVIOUS
      <4>1. CASE Holds(history, id)
        BY <2>1, <4>1 DEF Holds
      <4>2. CASE id \in Before(S, load.cursor)
        <5>1. PICK k \in DOMAIN items : items[k] = id
          BY <1>1, <1>6, <4>2
        <5>2. k \in DOMAIN history' /\ history'[k].id = id
          BY <1>8, <2>1, <5>1
        <5> QED
          BY <5>2 DEF Holds
      <4> QED
        BY <3>8, <4>1, <4>2
    <3>12. Contiguous'
      BY <1>1, <3>9, <3>10, <3>11 DEF Contiguous, Holds
    <3> QED
      BY <1>11, <2>6, <2>7, <3>4, <3>5, <3>12 DEF CInv
  <2> QED
    BY <2>8, <2>9
<1> QED
  BY <1>12, <1>13

\* The client keeps its invariant in every step.
LEMMA StepCInv ==
  ASSUME Numbered, CInv, [ChatNext]_vars
  PROVE  CInv'
<1>1. there \subseteq there' /\ elsewhere \subseteq elsewhere' /\ recalled \subseteq recalled'
  BY Grows
<1>2. answers \subseteq there' \union elsewhere'
  BY <1>1 DEF CInv, ClientTyped
<1>3. CASE UNCHANGED <<client, readPos>>
  BY <1>1, <1>2, <1>3, DatabaseCInv DEF client
<1>4. ASSUME NEW t \in Senders, Write(t) PROVE CInv'
  <2>1. UNCHANGED <<client, readPos>>
    BY <1>4 DEF Write, Insert, Touch, Rollback, Recall, RecallCheck, RecallCommit
  <2> QED
    BY <2>1, <1>3
<1>5. ASSUME NEW t \in Senders, Appear(t) PROVE CInv'
  <2>1. /\ UNCHANGED <<open, history, appended, cursor, loading, loads, reads, start, newest, crossed, readPos>>
        /\ answers' \subseteq answers \union {send[t].id} /\ send[t].id \in there'
    BY <1>5 DEF Appear, Commit
  <2> QED
    BY <1>1, <1>2, <2>1, DatabaseCInv
<1>6. CASE WriteElsewhere
  <2>1. /\ UNCHANGED <<open, history, appended, cursor, loading, loads, reads, start, newest, crossed, readPos>>
        /\ answers' \in {answers} \union (IF open THEN {} ELSE {answers \union {nextId}}) /\ nextId \in elsewhere'
    BY <1>6 DEF WriteElsewhere, InsertElsewhere
  <2>2. answers' \subseteq answers \union elsewhere' /\ (open => answers' = answers)
    BY <2>1
  <2> QED
    BY <1>1, <1>2, <2>1, <2>2, DatabaseCInv
<1>7. CASE ListMyRooms /\ UNCHANGED client
  BY <1>3, <1>7 DEF ListMyRooms, ListForUser, GetLast, CountAfter
<1>8. CASE Client
  BY <1>8, OpenRoomCInv, ScrollCInv, HistoryArrivesCInv, HistoryFailsCInv, MessageNewCInv, AnsweredCInv,
     ReportAnsweredCInv, MessageReadCInv DEF Client
<1>9. CASE UNCHANGED vars
  BY <1>3, <1>9 DEF vars, timeline
<1> QED
  BY <1>4, <1>5, <1>6, <1>7, <1>8, <1>9 DEF ChatNext

-----------------------------------------------------------------------------
\* The card

\* What is counted is finite, and not nothing if there is something.
LEMMA UnreadIs ==
  ASSUME Numbered, NEW pos
  PROVE  /\ IsFiniteSet(Unread(pos)) /\ Cardinality(Unread(pos)) \in 0..MaxId
         /\ there = {} => Cardinality(Unread(pos)) = 0
         /\ \A id \in there : id > pos => Cardinality(Unread(pos)) > 0
<1>1. Unread(pos) \in SUBSET (1..MaxId)
  <2>1. there \subseteq 1..MaxId
    BY IdsTyped DEF Numbered
  <2> QED
    BY <2>1 DEF Unread
<1>2. IsFiniteSet(Unread(pos)) /\ Cardinality(Unread(pos)) \in 0..MaxId
  BY <1>1, IdsTyped, FiniteRange
<1>3. there = {} => Cardinality(Unread(pos)) = 0
  BY FS_EmptySet DEF Unread
<1>4. ASSUME NEW id \in there, id > pos PROVE Cardinality(Unread(pos)) > 0
  <2>1. Unread(pos) # {}
    BY <1>4 DEF Unread
  <2>2. Cardinality(Unread(pos)) # 0
    BY <1>2, <2>1, FS_EmptySet
  <2> QED
    BY <1>2, <2>2
<1> QED
  BY <1>2, <1>3, <1>4

\* What was unread remains so: messages are never taken away.
LEMMA UnreadGrows ==
  ASSUME Numbered, Numbered', there \subseteq there', NEW pos
  PROVE  Cardinality(Unread(pos)) <= Cardinality({id \in there' : id > pos})
<1>1. {id \in there' : id > pos} \in SUBSET (1..MaxId)
  <2>1. there' \subseteq 1..MaxId
    BY IdsTyped DEF Numbered
  <2> QED
    BY <2>1
<1>2. IsFiniteSet({id \in there' : id > pos})
  BY <1>1, IdsTyped, FiniteRange
<1>3. Unread(pos) \in SUBSET {id \in there' : id > pos}
  BY DEF Unread
<1> QED
  BY <1>2, <1>3, FS_Subset

\* Only the list of rooms changes the card, and it changes no message.
LEMMA CardSteps ==
  ASSUME [ChatNext]_vars
  PROVE  card' = card \/ (ListMyRooms /\ UNCHANGED messages)
<1>1. CASE \E t \in Senders : Write(t) \/ Appear(t)
  BY <1>1 DEF Write, Appear, Insert, Touch, Rollback, Recall, RecallCheck, RecallCommit, Commit
<1>2. CASE WriteElsewhere
  BY <1>2 DEF WriteElsewhere, InsertElsewhere
<1>3. CASE ListMyRooms
  BY <1>3 DEF ListMyRooms, ListForUser, GetLast, CountAfter
<1>4. CASE Client
  <2>1. CASE \E room \in BOOLEAN : OpenRoom(room)
    BY <2>1 DEF OpenRoom, timeline
  <2>2. CASE Scroll
    BY <2>2 DEF Scroll, timeline
  <2>3. CASE \E i \in DOMAIN loads : HistoryArrives(i) \/ HistoryFails(i)
    BY <2>3 DEF HistoryArrives, HistoryFails, timeline
  <2>4. CASE \E id \in Ids : MessageNew(id) \/ Answered(id) \/ ReportAnswered(id)
    BY <2>4 DEF MessageNew, Answered, ReportAnswered
  <2>5. CASE MessageRead
    BY <2>5 DEF MessageRead
  <2> QED
    BY <1>4, <2>1, <2>2, <2>3, <2>4, <2>5 DEF Client
<1>5. CASE UNCHANGED vars
  BY <1>5 DEF vars, timeline
<1> QED
  BY <1>1, <1>2, <1>3, <1>4, <1>5 DEF ChatNext

\* There is no request for the list at the start.
LEMMA InitCardInv == Init => CardInv
<1> SUFFICES ASSUME Init PROVE CardInv
  OBVIOUS
<1>1. card = [pc |-> "idle", last |-> 0, read |-> 0, least |-> 0, found |-> FALSE, unread |-> 0]
  BY DEF Init, NoCard, NoId
<1> QED
  BY <1>1, IdsTyped DEF CardInv, CardTyped, CardKnows

\* What CountAfter answers.
LEMMA CountIs ==
  ASSUME CardInv, Numbered, CountAfter
  PROVE  /\ card.pc = "count" /\ card'.pc = "idle" /\ card'.unread \in 0..MaxId
         /\ card' = [pc |-> "idle", last |-> 0, read |-> 0, least |-> 0, found |-> FALSE, unread |-> card'.unread]
         /\ card'.unread \in card.least..Cardinality(Unread(card.read))
         /\ card.last # NoId => card.found /\ (card.last > card.read => card'.unread > 0)
<1> DEFINE count == Cardinality(Unread(card.read))
           unread == IF card.last # NoId THEN count ELSE 0
<1>1. card.pc = "count" /\ card' = [NoCard EXCEPT !.unread = unread]
  BY DEF CountAfter
<1>2. card' = [pc |-> "idle", last |-> 0, read |-> 0, least |-> 0, found |-> FALSE, unread |-> unread]
  BY <1>1 DEF NoCard, NoId
<1>3. count \in 0..MaxId /\ \A id \in there : id > card.read => count > 0
  BY UnreadIs
<1> HIDE DEF count
<1>4. card.least \in 0..MaxId /\ MaxId \in Nat /\ card.last \in Nat /\ card.read \in Nat
  BY IdsTyped DEF CardInv, CardTyped
<1>5. /\ card.least <= count
      /\ IF card.last = NoId THEN card.least = 0 ELSE card.last \in there
      /\ card.last # NoId => card.found
  BY <1>1 DEF CardInv, CardKnows, count
<1>6. unread \in 0..MaxId /\ unread \in card.least..count
  BY <1>3, <1>4, <1>5
<1>7. card.last # NoId => card.found /\ (card.last > card.read => unread > 0)
  BY <1>3, <1>4, <1>5
<1> HIDE DEF unread
<1>8. card'.pc = "idle" /\ card'.unread = unread
  BY <1>2
<1> QED
  BY <1>1, <1>2, <1>6, <1>7, <1>8 DEF count

\* What the statements have read still holds when the next one runs.
LEMMA StepCardInv ==
  ASSUME Numbered, SomeLast, LastIsThere, Numbered', readPos \in Ids \union {0}, CardInv, [ChatNext]_vars
  PROVE  CardInv'
<1>1. CASE card' = card
  <2>1. CardTyped'
    BY <1>1 DEF CardInv, CardTyped
  <2>2. CardKnows'
    <3> SUFFICES ASSUME card.pc \in {"last", "count"}
                 PROVE  /\ card.least <= Cardinality({id \in there' : id > card.read})
                        /\ IF card.last = NoId THEN card.least = 0 ELSE card.last \in there'
                        /\ card.pc = "count" /\ card.last # NoId => card.found
      BY <1>1 DEF CardKnows, Unread
    <3>1. /\ card.least <= Cardinality(Unread(card.read)) /\ card.least \in Nat
          /\ IF card.last = NoId THEN card.least = 0 ELSE card.last \in there
          /\ card.pc = "count" /\ card.last # NoId => card.found
      BY DEF CardInv, CardKnows, CardTyped
    <3>2. there \subseteq there'
      BY Grows
    <3>3. Cardinality(Unread(card.read)) <= Cardinality({id \in there' : id > card.read})
      BY <3>2, UnreadGrows
    <3>4. Cardinality(Unread(card.read)) \in Nat /\ Cardinality({id \in there' : id > card.read}) \in Nat
      <4>1. {id \in there' : id > card.read} \in SUBSET (1..MaxId)
        <5>1. there' \subseteq 1..MaxId
          BY IdsTyped DEF Numbered
        <5> QED
          BY <5>1
      <4> QED
        BY <4>1, IdsTyped, FiniteRange, UnreadIs
    <3> QED
      BY <3>1, <3>2, <3>3, <3>4
  <2> QED
    BY <2>1, <2>2 DEF CardInv
<1>2. CASE ListForUser /\ UNCHANGED messages
  <2> DEFINE least == Cardinality(Unread(readPos))
  <2>1. card' = [pc |-> "last", last |-> lastMsg, read |-> readPos, least |-> least, found |-> FALSE, unread |-> 0]
    BY <1>2 DEF ListForUser
  <2>2. least \in 0..MaxId /\ (there = {} => least = 0) /\ MaxId \in Nat
    BY UnreadIs, IdsTyped
  <2>3. Unread(readPos)' = Unread(readPos) /\ there' = there /\ readPos' = readPos
    BY <1>2 DEF ListForUser, messages, Unread
  <2>4. Unread(card.read)' = Unread(readPos)
    BY <2>1, <2>3 DEF Unread
  <2> HIDE DEF least
  <2>5. lastMsg \in Ids \union {NoId} /\ (lastMsg = NoId => there = {})
    BY DEF Numbered, SomeLast
  <2>6. CardTyped'
    BY <2>1, <2>2, <2>5 DEF CardTyped
  <2>7. /\ card'.least <= Cardinality(Unread(card.read)')
        /\ IF card'.last = NoId THEN card'.least = 0 ELSE card'.last \in there'
    BY <2>1, <2>2, <2>3, <2>4, <2>5 DEF LastIsThere, least
  <2>8. CardKnows'
    BY <2>1, <2>7 DEF CardKnows
  <2> QED
    BY <2>6, <2>8 DEF CardInv
<1>3. CASE GetLast /\ UNCHANGED messages
  <2>1. card.pc = "last" /\ card' = [card EXCEPT !.pc = "count", !.found = card.last \in there] /\ there' = there
    BY <1>3 DEF GetLast, messages
  <2>2. CardTyped /\ CardKnows
    BY DEF CardInv
  <2>3. PICK found \in BOOLEAN : found = (card.last \in there)
    <3>1. (card.last \in there) \in BOOLEAN
      OBVIOUS
    <3> QED
      BY <3>1, Zenon
  <2>4. card' = [card EXCEPT !.pc = "count", !.found = found]
    BY <2>1, <2>3
  <2>5. /\ card'.pc = "count" /\ card'.found = found
        /\ card'.last = card.last /\ card'.read = card.read /\ card'.least = card.least
    BY <2>2, <2>4 DEF CardTyped
  <2>6. CardTyped'
    BY <2>2, <2>4 DEF CardTyped
  <2>7. Unread(card.read)' = Unread(card.read)
    BY <2>1, <2>5 DEF Unread
  <2>8. CardKnows'
    BY <2>1, <2>2, <2>3, <2>5, <2>7 DEF CardKnows
  <2> QED
    BY <2>6, <2>8 DEF CardInv
<1>4. CASE CountAfter /\ UNCHANGED messages
  <2>1. card' = [pc |-> "idle", last |-> 0, read |-> 0, least |-> 0, found |-> FALSE, unread |-> card'.unread]
    BY <1>4, CountIs
  <2>2. card'.unread \in 0..MaxId /\ 0 \in 0..MaxId
    BY <1>4, CountIs, IdsTyped
  <2>3. CardTyped'
    <3>1. 0 \in Ids \union {NoId} /\ 0 \in Ids \union {0}
      BY IdsTyped
    <3>2. PICK unread \in 0..MaxId :
                 card' = [pc |-> "idle", last |-> 0, read |-> 0, least |-> 0, found |-> FALSE, unread |-> unread]
      BY <2>1, <2>2
    <3> QED
      BY <2>2, <3>1, <3>2 DEF CardTyped
  <2>4. CardKnows'
    BY <2>1 DEF CardKnows
  <2> QED
    BY <2>3, <2>4 DEF CardInv
<1> QED
  BY <1>1, <1>2, <1>3, <1>4, CardSteps DEF ListMyRooms

-----------------------------------------------------------------------------
\* The theorems

\* What holds in every state of the room, with its client and his list of rooms.
THEOREM Invariance == ChatSpec => []ChatInv
<1>1. ChatInit => ChatInv
  BY InitIInv, InitMInv, InitCInv, InitCardInv DEF ChatInit, ChatInv
<1>2. ChatInv /\ [ChatNext]_vars => ChatInv'
  <2> SUFFICES ASSUME ChatInv, [ChatNext]_vars PROVE ChatInv'
    OBVIOUS
  <2>1. IInv' /\ MInv'
    BY StepIInv, StepMInv DEF ChatInv
  <2>2. CInv'
    BY StepCInv DEF ChatInv, MInv
  <2>3. CardInv'
    BY <2>1, StepCardInv DEF ChatInv, MInv, IInv, CInv, ClientTyped
  <2> QED
    BY <2>1, <2>2, <2>3 DEF ChatInv
<1> QED
  BY <1>1, <1>2, PTL DEF ChatSpec

\* rooms.last_msg_id always names a message that is there, the newest one as
\* long as no two messages were sent at the same time: send inserts, updates
\* the room and commits in one transaction (message_service.py:47-67).
THEOREM LastMsgCorrect == ChatSpec => []LastMsgIsNewest
<1>1. ChatInv => LastMsgIsNewest
  BY DEF ChatInv, IInv, LastIsThere, LastIsNewest, LastMsgIsNewest
<1> QED
  BY <1>1, Invariance, PTL

\* The types; only a recalled message is shown without its id, and the window
\* of another room is none of this one's (web/index.html:296-345).
THEOREM TypeCorrect == ChatSpec => []ChatTypeOK
<1>1. ASSUME ChatInv PROVE ChatTypeOK
  <2>1. MessagesTyped /\ MInv /\ ClientTyped /\ WindowOfRoom /\ CardTyped /\ MaxId \in Nat
    BY <1>1, IdsTyped DEF ChatInv, IInv, CInv, CardInv
  <2>2. TypeOK
    <3>1. send \in [Senders -> [pc : {"idle", "touch", "commit", "recall"}, id : Ids \union {NoId}]]
      <4>1. 0..(nextId - 1) \subseteq Ids \union {NoId}
        BY <2>1, IdsTyped DEF MInv, Numbered
      <4> QED
        BY <2>1, <4>1 DEF MessagesTyped
    <3>2. \A t \in Senders : send[t].pc \in {"touch", "commit"} => send[t].id \notin there \union elsewhere
      BY <2>1 DEF MInv, InFlightApart, InFlight
    <3> QED
      BY <2>1, <3>1, <3>2 DEF TypeOK, MInv, Numbered, MessagesTyped, ClientTyped, CardTyped
  <2>3. /\ Window \in Seq(Elements)
        /\ \A i \in DOMAIN Window : \/ i \in DOMAIN history /\ Window[i] = history[i]
                                    \/ i - Len(history) \in DOMAIN appended /\ Window[i] = appended[i - Len(history)]
    BY <2>1, ConcatElements DEF Window, ClientTyped
  <2>4. Range(Window) \subseteq Elements /\ \A x \in Range(Window) : x.tagged \/ x.id \in recalled
    <3>1. \A x \in Range(Window) : \E i \in DOMAIN Window : Window[i] = x
      BY DEF Range
    <3>2. \A i \in DOMAIN Window : Window[i] \in Elements /\ (Window[i].tagged \/ Window[i].id \in recalled)
      BY <2>1, <2>3, WindowElements DEF WindowOfRoom, Tagged
    <3> QED
      BY <3>1, <3>2
  <2>5. ~open => Window = <<>> /\ reads = {}
    BY <2>1, ConcatEmptySeq DEF WindowOfRoom, Window, ClientTyped
  <2>6. Range(loads) \subseteq [room : BOOLEAN, scroll : BOOLEAN, cursor : Ids \union {NoId}]
    <3>1. \A x \in Range(loads) : \E i \in DOMAIN loads : loads[i] = x
      BY DEF Range
    <3>2. \A i \in DOMAIN loads : loads[i] \in Requests
      BY <2>1, LenProperties, ElementOfSeq DEF ClientTyped
    <3> QED
      BY <3>1, <3>2 DEF Requests
  <2> QED
    BY <2>1, <2>2, <2>4, <2>5, <2>6 DEF ChatTypeOK, ClientTyped
<1> QED
  BY <1>1, Invariance, PTL

\* A window scrolled to its beginning shows what was there when it was opened,
\* each message once in its history, and nothing of another room, whatever is
\* sent, rolled back, recalled or announced meanwhile: list_by_cursor returns
\* what is below the cursor down to the next one (message_repo.py:60-73,
\* web/index.html:331-345).
THEOREM ShowsAll == ChatSpec => []WindowComplete
<1>1. ASSUME ChatInv PROVE WindowComplete
  <2> SUFFICES ASSUME ~crossed, open
               PROVE  /\ ShownIn(Window) \subseteq there
                      /\ \A i, j \in DOMAIN history : i # j => history[i].id # history[j].id
                      /\ cursor = NoId /\ ~loading /\ loads = <<>> => start \subseteq ShownIn(history)
    BY DEF WindowComplete
  <2>1. ClientTyped /\ ShownCounted /\ InTurn /\ Contiguous /\ Numbered
    BY <1>1 DEF ChatInv, CInv, MInv
  <2>2. /\ Window \in Seq(Elements)
        /\ \A i \in DOMAIN Window : \/ i \in DOMAIN history /\ Window[i] = history[i]
                                    \/ i - Len(history) \in DOMAIN appended /\ Window[i] = appended[i - Len(history)]
    BY <2>1, ConcatElements DEF Window, ClientTyped
  <2>3. \A i \in DOMAIN Window : Window[i].id \in there
    BY <2>1, <2>2 DEF ShownCounted, Counted
  <2>4. ShownIn(Window) \subseteq there
    BY <2>2, <2>3, WindowElements
  <2>5. \A i, j \in DOMAIN history : i # j => history[i].id # history[j].id
    BY <2>1 DEF Contiguous
  <2>6. ASSUME cursor = NoId, loads = <<>>, NEW id \in start
        PROVE  id \in ShownIn(history)
    <3>1. id \in Nat /\ id >= cursor
      BY <2>1, <2>6, IdsTyped DEF InTurn, Numbered
    <3>2. \A i \in DOMAIN loads : loads[i].scroll
      BY <2>6
    <3>3. Holds(history, id)
      BY <2>1, <2>6, <3>1, <3>2 DEF Contiguous
    <3> QED
      BY <2>1, <3>3, WindowElements DEF Holds, ClientTyped
  <2> QED
    BY <2>4, <2>5, <2>6
<1> QED
  BY <1>1, Invariance, PTL

\* A read position that is ahead of what the member was shown is the id of a
\* message of another room: markReadAll reports the newest id in the window
\* (web/index.html:407-412), and once more, over the WebSocket, of whatever
\* room is open when the answer comes (413-415).
THEOREM ReadCorrect == ChatSpec => []ReadWasShown
<1>1. ChatInv => ReadWasShown
  BY DEF ChatInv, CInv, ShownCounted, ReadShown, ReadWasShown
<1> QED
  BY <1>1, Invariance, PTL

\* A card hides nothing that was unread when the list was asked for, counts
\* nothing that is not there, and has its last message at hand
\* (room_service.py:50-60): messages are never taken away, and last_msg_id is
\* committed with the message it names.
THEOREM CardCorrect == ChatSpec => CardAddsUp
<1>1. ASSUME ChatInv, [ChatNext]_vars, card.pc = "count", card'.pc = "idle"
      PROVE  /\ card'.unread \in card.least..Cardinality(Unread(card.read))
             /\ card.last # NoId => card.found /\ (card.last > card.read => card'.unread > 0)
  <2>1. CountAfter
    BY <1>1, CardSteps DEF ListMyRooms, ListForUser, GetLast
  <2> QED
    BY <1>1, <2>1, CountIs DEF ChatInv, MInv
<1>2. ChatInv /\ [ChatNext]_vars =>
        [card.pc = "count" /\ card'.pc = "idle" =>
           /\ card'.unread \in card.least..Cardinality(Unread(card.read))
           /\ card.last # NoId => card.found /\ (card.last > card.read => card'.unread > 0)]_card
  BY <1>1
<1> QED
  BY <1>2, Invariance, PTL DEF ChatSpec, CardAddsUp
=============================================================================
