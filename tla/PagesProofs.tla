---- MODULE PagesProofs ----
(***************************************************************************)
(* The listing, for every number of creators, page size and maximum: pages *)
(* are bounded, the cursor descends, and a client that follows next_cursor *)
(* gets every row that met its filter all along exactly once, whatever is  *)
(* created and changed meanwhile.                                          *)
(***************************************************************************)
EXTENDS Pages, FiniteSetTheorems, TLAPS

Listing == [pc : {"idle", "open", "ended", "failed"}, size : AskedSizes \cup {0},
            cursor : Nat \cup {NoCursor}, got : Seq(table), must : SUBSET table]

\* A draft has the times it has read, and the client starts from nothing.
Drafted ==
    /\ \A c \in Creators : /\ draft[c].pc # "new" => draft[c].at \in 1..clock
                           /\ draft[c].pc = "named" => draft[c].id \in 1..clock
    /\ list \in Listing

\* The rows a client with a page size the server takes has got: each once, and
\* none below its cursor.
GotOnce == \A i, j \in DOMAIN list.got : list.got[i] = list.got[j] => i = j

AboveCursor ==
    list.pc = "open" => IF list.cursor = NoCursor THEN list.got = <<>>
                        ELSE \A x \in ToSet(list.got) : x.id >= list.cursor

\* What it still has to get is below the cursor.
NotMissed ==
    InOrder => /\ list.pc = "open" /\ list.cursor # NoCursor =>
                     \A x \in list.must : x.id >= list.cursor => x \in ToSet(list.got)
               /\ list.pc = "ended" => list.must \subseteq ToSet(list.got)

Followed ==
    /\ list.must \cap hidden = {}
    /\ list.size \in 1..MaxSize /\ InOrder => GotOnce /\ AboveCursor /\ NotMissed

PagesInv == TypeOK /\ Drafted /\ Followed

\* Where the orders agree a row listed before another has the greater id.
LEMMA BeforeIsAbove ==
  ASSUME TypeOK, InOrder, NEW x \in table, NEW y \in table, Before(x, y)
  PROVE  x.id > y.id
BY DEF TypeOK, InOrder, Before

\* The page is a sequence of rows that meet the filter and lie below the cursor.
LEMMA PageFacts ==
  ASSUME PagesInv, NEW page \in Listed(list.size, list.cursor)
  PROVE  /\ page \in Seq(table)
         /\ Len(page) <= Limit(list.size)
         /\ Limit(list.size) \in 1..MaxSize
         /\ ToSet(page) \subseteq table \ hidden
         /\ \A x \in ToSet(page) : list.cursor # NoCursor => x.id < list.cursor
         /\ \A i, j \in DOMAIN page : i < j => Before(page[i], page[j])
         /\ \A x \in table \ hidden :
              (list.cursor # NoCursor => x.id < list.cursor) /\ x \notin ToSet(page) =>
                 Len(page) = Limit(list.size) /\ \A y \in ToSet(page) : Before(y, x)
<1> DEFINE rows == {x \in table \ hidden : list.cursor # NoCursor => x.id < list.cursor}
           n == Limit(list.size)
<1>1. n \in 1..MaxSize
  BY SizesAssumption DEF PagesInv, TypeOK, Limit
<1>2. page \in SeqOf(rows, n) /\ IsPage(page, rows, n)
  BY DEF Listed
<1>3. PICK m \in 0..n : page \in [1..m -> rows]
  BY <1>2 DEF SeqOf
<1>4. page \in Seq(rows) /\ Len(page) = m /\ DOMAIN page = 1..m
  BY <1>1, <1>3
<1>5. ToSet(page) \subseteq rows
  BY <1>3 DEF ToSet
<1>6. page \in Seq(table)
  BY <1>3, <1>1
<1>7. QED
  BY <1>1, <1>2, <1>4, <1>5, <1>6 DEF IsPage

-----------------------------------------------------------------------------
(* The invariant.                                                          *)

\* What two sequences have, their concatenation has.
LEMMA Joined ==
  ASSUME NEW S, NEW s \in Seq(S), NEW t \in Seq(S)
  PROVE  s \o t \in Seq(S) /\ ToSet(s \o t) = ToSet(s) \cup ToSet(t)
<1>1. /\ s \o t \in Seq(S) /\ Len(s \o t) = Len(s) + Len(t)
      /\ \A i \in 1..Len(s) : (s \o t)[i] = s[i]
      /\ \A i \in 1..Len(t) : (s \o t)[Len(s) + i] = t[i]
  OBVIOUS
<1>2. ToSet(s \o t) \subseteq ToSet(s) \cup ToSet(t)
  <2> SUFFICES ASSUME NEW i \in 1..(Len(s) + Len(t)) PROVE (s \o t)[i] \in ToSet(s) \cup ToSet(t)
    BY <1>1 DEF ToSet
  <2>1. CASE i <= Len(s)
    BY <1>1, <2>1 DEF ToSet
  <2>2. CASE i > Len(s)
    <3>1. i - Len(s) \in 1..Len(t) /\ (s \o t)[i] = t[i - Len(s)]
      BY <1>1, <2>2
    <3>2. QED
      BY <3>1 DEF ToSet
  <2>3. QED
    BY <2>1, <2>2
<1>3. ToSet(s) \subseteq ToSet(s \o t)
  <2>1. \A i \in 1..Len(s) : i \in DOMAIN (s \o t)
    BY <1>1
  <2>2. QED
    BY <1>1, <2>1 DEF ToSet
<1>4. ToSet(t) \subseteq ToSet(s \o t)
  <2> SUFFICES ASSUME NEW i \in 1..Len(t) PROVE t[i] \in ToSet(s \o t)
    BY DEF ToSet
  <2>1. Len(s) + i \in DOMAIN (s \o t) /\ (s \o t)[Len(s) + i] = t[i]
    BY <1>1
  <2>2. QED
    BY <2>1 DEF ToSet
<1>5. QED
  BY <1>1, <1>2, <1>3, <1>4

\* At first there is nothing.
LEMMA PagesStart == Init => PagesInv
<1> SUFFICES ASSUME Init PROVE PagesInv
  OBVIOUS
<1>1. TypeOK /\ Drafted
  BY DEF Init, NewDraft, NoListing, TypeOK, Drafted, Listing
<1>2. Followed
  BY DEF Init, NoListing, Followed, GotOnce, AboveCursor, NotMissed
<1>3. QED
  BY <1>1, <1>2 DEF PagesInv

\* Whoever creates a notification leaves the listing alone, and a new row can
\* only spoil the order.
LEMMA CreationStep ==
  ASSUME PagesInv, NEW c \in Creators, Stamp(c) \/ Identify(c) \/ Insert(c)
  PROVE  PagesInv'
<1>s. /\ draft[c] \in [pc : {"new", "stamped", "named", "stored"}, at : 0..clock, id : 0..clock]
      /\ clock \in Nat /\ clock > 0 /\ list \in Listing
      /\ draft[c].pc # "new" => draft[c].at \in 1..clock
      /\ draft[c].pc = "named" => draft[c].id \in 1..clock
  BY DEF PagesInv, TypeOK, Drafted
<1>1. /\ clock' \in {clock, clock + 1} /\ table \subseteq table' /\ UNCHANGED <<hidden, list>>
      /\ table' \subseteq [at : 1..clock', id : 1..clock']
  <2>1. CASE Stamp(c) \/ Identify(c)
    BY <1>s, <2>1 DEF PagesInv, TypeOK, Stamp, Identify
  <2>2. CASE Insert(c)
    BY <1>s, <2>2 DEF PagesInv, TypeOK, Insert
  <2>3. QED
    BY <2>1, <2>2
<1>2. PICK d : /\ draft' = [draft EXCEPT ![c] = d]
               /\ d \in [pc : {"new", "stamped", "named", "stored"}, at : 0..clock', id : 0..clock']
               /\ d.pc # "new" => d.at \in 1..clock'
               /\ d.pc = "named" => d.id \in 1..clock'
  <2>1. CASE Stamp(c)
    <3> DEFINE e == [draft[c] EXCEPT !.pc = "stamped"]
               f == [draft[c] EXCEPT !.pc = "stamped", !.at = clock]
    <3>1. e = [pc |-> "stamped", at |-> draft[c].at, id |-> draft[c].id]
      BY <1>s
    <3>2. f = [e EXCEPT !.at = clock]
      OBVIOUS
    <3>3. f = [pc |-> "stamped", at |-> clock, id |-> draft[c].id]
      <4> HIDE DEF f
      <4>1. QED
        BY <3>1, <3>2
    <3>4. draft' = [draft EXCEPT ![c] = f] /\ draft[c].pc = "new"
      BY <2>1 DEF Stamp
    <3> HIDE DEF f
    <3>5. /\ f \in [pc : {"new", "stamped", "named", "stored"}, at : 0..clock', id : 0..clock']
          /\ f.pc # "new" => f.at \in 1..clock'
          /\ f.pc = "named" => f.id \in 1..clock'
      BY <1>s, <1>1, <3>3, <3>4
    <3>6. QED
      BY <3>4, <3>5
  <2>2. CASE Identify(c)
    <3> DEFINE e == [draft[c] EXCEPT !.pc = "named"]
               f == [draft[c] EXCEPT !.pc = "named", !.id = clock]
    <3>1. e = [pc |-> "named", at |-> draft[c].at, id |-> draft[c].id]
      BY <1>s
    <3>2. f = [e EXCEPT !.id = clock]
      OBVIOUS
    <3>3. f = [pc |-> "named", at |-> draft[c].at, id |-> clock]
      <4> HIDE DEF f
      <4>1. QED
        BY <3>1, <3>2
    <3>4. draft' = [draft EXCEPT ![c] = f] /\ draft[c].pc = "stamped"
      BY <2>2 DEF Identify
    <3> HIDE DEF f
    <3>5. /\ f \in [pc : {"new", "stamped", "named", "stored"}, at : 0..clock', id : 0..clock']
          /\ f.pc # "new" => f.at \in 1..clock'
          /\ f.pc = "named" => f.id \in 1..clock'
      BY <1>s, <1>1, <3>3, <3>4
    <3>6. QED
      BY <3>4, <3>5
  <2>3. CASE Insert(c)
    <3> DEFINE d == [draft[c] EXCEPT !.pc = "stored"]
    <3>1. d.pc = "stored" /\ d.at = draft[c].at /\ d.id = draft[c].id /\ d = [pc |-> d.pc, at |-> d.at, id |-> d.id]
      BY <1>s
    <3>2. QED
      BY <1>s, <2>3, <3>1 DEF Insert
  <2>4. QED
    BY <2>1, <2>2, <2>3
<1>3. draft' \in [Creators -> [pc : {"new", "stamped", "named", "stored"}, at : 0..clock', id : 0..clock']]
  BY <1>s, <1>1, <1>2 DEF PagesInv, TypeOK
<1>4. list \in Listing' /\ list.got \in Seq(table')
  BY <1>s, <1>1 DEF Listing
<1>5. TypeOK'
  BY <1>s, <1>1, <1>3, <1>4 DEF PagesInv, TypeOK
<1>6. Drafted'
  BY <1>s, <1>1, <1>2, <1>4 DEF PagesInv, Drafted, TypeOK
<1>7. InOrder' => InOrder
  BY <1>1 DEF InOrder
<1>8. Followed'
  BY <1>1, <1>7 DEF PagesInv, Followed, GotOnce, AboveCursor, NotMissed
<1>9. QED
  BY <1>5, <1>6, <1>8 DEF PagesInv

\* A row that leaves the filter, or comes into it, is owed no longer.
LEMMA StatusStep ==
  ASSUME PagesInv, NEW x \in table, UpdateStatus(x)
  PROVE  PagesInv'
<1>s. list \in Listing
  BY DEF PagesInv, Drafted
<1>1. /\ list'.pc = list.pc /\ list'.size = list.size /\ list'.cursor = list.cursor
      /\ list'.got = list.got /\ list'.must = list.must \ {x} /\ list' \in Listing'
  BY <1>s DEF UpdateStatus, Listing
<1>2. TypeOK' /\ Drafted'
  BY <1>1 DEF PagesInv, TypeOK, Drafted, UpdateStatus
<1>3. Followed'
  BY <1>1 DEF PagesInv, Followed, GotOnce, AboveCursor, NotMissed, InOrder, UpdateStatus
<1>4. QED
  BY <1>2, <1>3 DEF PagesInv

\* A listing starts with nothing got and what meets the filter owed.
LEMMA OpenStep ==
  ASSUME PagesInv, NEW size \in AskedSizes, Open(size)
  PROVE  PagesInv'
<1>1. /\ list'.pc = "open" /\ list'.size = size /\ list'.cursor = NoCursor
      /\ list'.got = <<>> /\ list'.must = table \ hidden
      /\ list' = [pc |-> "open", size |-> size, cursor |-> NoCursor, got |-> <<>>, must |-> table \ hidden]
  BY DEF Open
<1>2. UNCHANGED <<clock, draft, table, hidden>>
  BY DEF Open
<1>3. list' \in Listing' /\ <<>> \in Seq(table')
  BY <1>1, <1>2 DEF Listing
<1>4. TypeOK' /\ Drafted'
  BY <1>1, <1>2, <1>3 DEF PagesInv, TypeOK, Drafted
<1>5. Followed'
  BY <1>1, <1>2 DEF Followed, GotOnce, AboveCursor, NotMissed
<1>6. QED
  BY <1>4, <1>5 DEF PagesInv

\* And leaves nothing behind.
LEMMA CloseStep == ASSUME PagesInv, Close PROVE PagesInv'
<1>1. /\ list'.pc = "idle" /\ list'.size = 0 /\ list'.cursor = NoCursor
      /\ list'.got = <<>> /\ list'.must = {} /\ list' \in Listing'
  BY DEF Close, NoListing, Listing
<1>2. TypeOK' /\ Drafted'
  BY <1>1 DEF PagesInv, TypeOK, Drafted, Close
<1>3. Followed'
  BY <1>1 DEF Followed, GotOnce, AboveCursor, NotMissed, Close
<1>4. QED
  BY <1>2, <1>3 DEF PagesInv

\* What one page does to the client.
LEMMA PageView ==
  ASSUME PagesInv, ListPage
  PROVE  /\ list.pc = "open" /\ UNCHANGED <<clock, draft, table, hidden>>
         /\ list'.size = list.size /\ list'.must = list.must
         /\ \/ list'.pc = "failed" /\ list'.cursor = list.cursor /\ list'.got = list.got /\ list.size = 0
            \/ \E page \in Listed(list.size, list.cursor) :
                  /\ list'.got = list.got \o page
                  /\ \/ list'.pc = "ended" /\ list'.cursor = list.cursor /\ Len(page) # list.size
                     \/ /\ list'.pc = "open" /\ page # <<>> /\ Len(page) = list.size
                        /\ list'.cursor = page[Len(page)].id
         /\ list' \in [pc : {"open", "ended", "failed"}, size : {list.size}, cursor : {list'.cursor},
                       got : {list'.got}, must : {list.must}]
<1>s. list \in Listing
  BY DEF PagesInv, Drafted
<1>1. PICK page \in Listed(list.size, list.cursor) :
        list' = IF Len(page) # list.size
                THEN [list EXCEPT !.pc = "ended", !.got = @ \o page]
                ELSE IF page = <<>> THEN [list EXCEPT !.pc = "failed"]
                ELSE [list EXCEPT !.cursor = CursorAfter(page), !.got = @ \o page]
  BY DEF ListPage
<1>2. list.pc = "open" /\ UNCHANGED <<clock, draft, table, hidden>>
  BY DEF ListPage
<1>3. CASE Len(page) # list.size
  BY <1>s, <1>1, <1>2, <1>3 DEF Listing
<1>4. CASE Len(page) = list.size /\ page = <<>>
  BY <1>s, <1>1, <1>2, <1>4 DEF Listing
<1>5. CASE Len(page) = list.size /\ page # <<>>
  BY <1>s, <1>1, <1>2, <1>5 DEF Listing, CursorAfter, Last
<1>6. QED
  BY <1>3, <1>4, <1>5

\* The first n rows of what is left, read after those above the cursor.
LEMMA PageStep ==
  ASSUME PagesInv, ListPage
  PROVE  PagesInv'
<1>s. /\ list \in Listing /\ list.got \in Seq(table) /\ clock \in Nat
      /\ table \subseteq [at : 1..clock, id : 1..clock] /\ list.must \subseteq table \ hidden
  BY DEF PagesInv, Drafted, TypeOK, Followed
<1>1. list.pc = "open" /\ UNCHANGED <<clock, draft, table, hidden>>
      /\ list'.size = list.size /\ list'.must = list.must
  BY PageView
<1>2. CASE list'.pc = "failed" /\ list'.cursor = list.cursor /\ list'.got = list.got /\ list.size = 0
  <2>1. list' \in Listing'
    BY <1>s, <1>1, <1>2, PageView DEF Listing
  <2>2. QED
    BY <1>1, <1>2, <1>s, <2>1 DEF PagesInv, TypeOK, Drafted, Followed
<1>3. ASSUME NEW page \in Listed(list.size, list.cursor), list'.got = list.got \o page,
             \/ list'.pc = "ended" /\ list'.cursor = list.cursor /\ Len(page) # list.size
             \/ /\ list'.pc = "open" /\ page # <<>> /\ Len(page) = list.size
                /\ list'.cursor = page[Len(page)].id
      PROVE  PagesInv'
  <2>1. /\ page \in Seq(table)
        /\ Len(page) <= Limit(list.size)
        /\ Limit(list.size) \in 1..MaxSize
        /\ ToSet(page) \subseteq table \ hidden
        /\ \A x \in ToSet(page) : list.cursor # NoCursor => x.id < list.cursor
        /\ \A i, j \in DOMAIN page : i < j => Before(page[i], page[j])
        /\ \A x \in table \ hidden :
             (list.cursor # NoCursor => x.id < list.cursor) /\ x \notin ToSet(page) =>
                Len(page) = Limit(list.size) /\ \A y \in ToSet(page) : Before(y, x)
    BY PageFacts
  <2>2. list.got \o page \in Seq(table) /\ ToSet(list.got \o page) = ToSet(list.got) \cup ToSet(page)
    BY <1>s, <2>1, Joined
  <2>3. page # <<>> => Len(page) \in DOMAIN page /\ page[Len(page)] \in table /\ page[Len(page)] \in ToSet(page)
    BY <2>1 DEF ToSet
  <2>4. list' \in Listing'
    <3>1. list'.cursor \in Nat \cup {NoCursor} /\ list'.pc \in {"open", "ended"}
      BY <1>3, <1>s, <2>3 DEF Listing
    <3>2. list'.got \in Seq(table') /\ list'.must \in SUBSET table' /\ list'.size \in AskedSizes \cup {0}
      BY <1>1, <1>3, <1>s, <2>2 DEF Listing
    <3>3. QED
      BY <3>1, <3>2, PageView DEF Listing
  <2>5. TypeOK' /\ Drafted'
    BY <1>1, <1>s, <2>4 DEF PagesInv, TypeOK, Drafted, Listing
  <2>6. ASSUME list.size \in 1..MaxSize, InOrder PROVE GotOnce' /\ AboveCursor' /\ NotMissed'
    <3>1. Limit(list.size) = list.size
      BY <2>6, SizesAssumption DEF Limit
    <3>2. GotOnce /\ AboveCursor /\ NotMissed
      BY <2>6 DEF PagesInv, Followed
    <3>3. \A i, j \in DOMAIN page : i < j => page[i].id > page[j].id
      BY <1>s, <2>1, <2>6, BeforeIsAbove DEF PagesInv
    <3> DEFINE all == list.got \o page
    <3>a. /\ Len(all) = Len(list.got) + Len(page) /\ DOMAIN all = 1..Len(all)
          /\ \A i \in 1..Len(list.got) : all[i] = list.got[i] /\ list.got[i] \in ToSet(list.got)
          /\ \A i \in 1..Len(page) : all[Len(list.got) + i] = page[i] /\ page[i] \in ToSet(page)
          /\ DOMAIN list.got = 1..Len(list.got) /\ DOMAIN page = 1..Len(page)
          /\ Len(list.got) \in Nat /\ Len(page) \in Nat
      BY <1>s, <2>1 DEF ToSet
    <3>b. \A x \in ToSet(list.got), y \in ToSet(page) : x # y
      <4> SUFFICES ASSUME NEW x \in ToSet(list.got), NEW y \in ToSet(page) PROVE x # y
        OBVIOUS
      <4>1. list.got # <<>>
        BY <3>a DEF ToSet
      <4>2. list.cursor \in Nat /\ x.id >= list.cursor
        BY <1>1, <1>s, <3>2, <4>1 DEF AboveCursor, Listing
      <4>3. y.id < list.cursor /\ y.id \in Nat
        BY <1>s, <2>1, <4>2, SizesAssumption
      <4>4. QED
        BY <4>2, <4>3
    <3>4. GotOnce'
      <4> SUFFICES ASSUME NEW i \in DOMAIN all, NEW j \in DOMAIN all, i < j PROVE all[i] # all[j]
        <5>1. \A i, j \in 1..Len(all) : i < j \/ j < i \/ i = j
          BY <3>a
        <5>2. QED
          BY <1>3, <3>a, <5>1, ZenonT(60) DEF GotOnce
      <4>1. CASE j <= Len(list.got)
        BY <3>2, <3>a, <4>1 DEF GotOnce
      <4>2. CASE i <= Len(list.got) /\ j > Len(list.got)
        <5>1. j - Len(list.got) \in 1..Len(page) /\ Len(list.got) + (j - Len(list.got)) = j
          BY <3>a, <4>2
        <5>2. QED
          BY <3>a, <3>b, <4>2, <5>1
      <4>3. CASE i > Len(list.got)
        <5>1. /\ i - Len(list.got) \in 1..Len(page) /\ Len(list.got) + (i - Len(list.got)) = i
              /\ j - Len(list.got) \in 1..Len(page) /\ Len(list.got) + (j - Len(list.got)) = j
              /\ i - Len(list.got) < j - Len(list.got)
          BY <3>a, <4>3, SMTT(60)
        <5>2. page[i - Len(list.got)].id > page[j - Len(list.got)].id
          BY <3>3, <3>a, <5>1
        <5>3. page[i - Len(list.got)] # page[j - Len(list.got)]
          BY <1>s, <2>1, <3>a, <5>1, <5>2
        <5>4. QED
          BY <3>a, <5>1, <5>3
      <4>4. QED
        BY <3>a, <4>1, <4>2, <4>3
    <3>c. list'.pc = "open" => /\ list'.cursor \in Nat
                               /\ \A y \in ToSet(page) : y = page[Len(page)] \/ y.id > list'.cursor
                               /\ list.cursor # NoCursor => list'.cursor < list.cursor
      <4> SUFFICES ASSUME list'.pc = "open"
                   PROVE  /\ list'.cursor \in Nat
                          /\ \A y \in ToSet(page) : y = page[Len(page)] \/ y.id > list'.cursor
                          /\ list.cursor # NoCursor => list'.cursor < list.cursor
        OBVIOUS
      <4>1. page # <<>> /\ list'.cursor = page[Len(page)].id
        BY <1>3
      <4>2. \A i \in 1..Len(page) : i = Len(page) \/ page[i].id > page[Len(page)].id
        <5> SUFFICES ASSUME NEW i \in 1..Len(page), i # Len(page)
                     PROVE  page[i].id > page[Len(page)].id
          OBVIOUS
        <5>1. Len(page) \in Nat /\ DOMAIN page = 1..Len(page)
          BY <3>a
        <5>a. \A m \in Nat : \A k \in 1..m : k # m => k < m /\ m \in 1..m
          OBVIOUS
        <5>2. i < Len(page) /\ i \in DOMAIN page /\ Len(page) \in DOMAIN page
          BY <5>1, <5>a, Zenon
        <5>3. QED
          BY <3>3, <5>2
      <4>3. page[Len(page)].id \in Nat /\ page[Len(page)] \in ToSet(page)
        BY <1>s, <2>3, <4>1
      <4>4. \A y \in ToSet(page) : \E i \in 1..Len(page) : y = page[i]
        BY <3>a DEF ToSet
      <4>5. QED
        BY <2>1, <4>1, <4>2, <4>3, <4>4
    <3>e. ToSet(list.got) \subseteq table
      BY <1>s DEF ToSet
    <3>5. AboveCursor'
      <4> SUFFICES ASSUME list'.pc = "open", NEW x \in ToSet(all) PROVE x.id >= list'.cursor
        BY <1>3, <1>s, <3>c, SizesAssumption DEF AboveCursor
      <4>1. list'.cursor \in Nat /\ x \in table /\ x.id \in Nat
        BY <1>s, <2>1, <2>2, <3>c, <3>e
      <4>2. CASE x \in ToSet(page)
        BY <1>3, <3>c, <4>1, <4>2
      <4>3. CASE x \in ToSet(list.got)
        <5>1. list.cursor \in Nat /\ x.id >= list.cursor /\ list'.cursor < list.cursor
          BY <1>1, <1>s, <3>2, <3>a, <3>c, <4>3 DEF AboveCursor, ToSet, Listing
        <5>2. QED
          BY <4>1, <5>1
      <4>4. QED
        BY <2>2, <4>2, <4>3
    <3>d. ASSUME NEW x \in list.must, x \notin ToSet(all)
          PROVE  /\ Len(page) = list.size
                 /\ \A y \in ToSet(page) : y.id > x.id
      <4>1. x \in table \ hidden /\ x \notin ToSet(page) /\ x \notin ToSet(list.got) /\ x.id \in Nat
        BY <1>s, <2>2, <3>d
      <4>2. list.cursor # NoCursor => x.id < list.cursor
        BY <1>1, <1>s, <2>6, <3>2, <4>1 DEF NotMissed, Listing
      <4>3. Len(page) = list.size /\ \A y \in ToSet(page) : Before(y, x)
        BY <2>1, <3>1, <4>1, <4>2
      <4>4. QED
        BY <2>1, <2>6, <4>1, <4>3, BeforeIsAbove DEF PagesInv
    <3>6. NotMissed'
      <4>1. ASSUME list'.pc = "ended" PROVE list.must \subseteq ToSet(all)
        BY <1>3, <3>d, <4>1
      <4>2. ASSUME list'.pc = "open", NEW x \in list.must, x.id >= list'.cursor PROVE x \in ToSet(all)
        <5> SUFFICES ASSUME x \notin ToSet(all) PROVE FALSE
          OBVIOUS
        <5>1. page[Len(page)] \in ToSet(page) /\ list'.cursor = page[Len(page)].id
          BY <1>3, <2>3, <4>2
        <5>2. list'.cursor > x.id
          BY <3>d, <5>1
        <5>3. x.id \in Nat /\ list'.cursor \in Nat
          BY <1>s, <3>c, <4>2
        <5>4. QED
          BY <4>2, <5>2, <5>3
      <4>3. QED
        BY <1>1, <1>3, <4>1, <4>2 DEF NotMissed
    <3>7. QED
      BY <3>4, <3>5, <3>6
  <2>7. Followed'
    BY <1>1, <1>s, <2>6 DEF Followed, InOrder
  <2>8. QED
    BY <2>5, <2>7 DEF PagesInv
<1>4. QED
  BY <1>2, <1>3, PageView

\* Only a page gives the client rows.
LEMMA OthersKeep ==
  ASSUME PagesInv, [Next]_vars
  PROVE  ListPage \/ list'.got = list.got \/ list'.got = <<>>
<1>1. list \in Listing
  BY DEF PagesInv, Drafted
<1>2. ASSUME NEW x \in table, UpdateStatus(x) PROVE list'.got = list.got
  BY <1>1, <1>2 DEF UpdateStatus, Listing
<1>3. ASSUME NEW size \in AskedSizes, Open(size) PROVE list'.got = <<>>
  BY <1>3 DEF Open
<1>4. Close => list'.got = <<>>
  BY DEF Close, NoListing
<1>5. ASSUME NEW c \in Creators, Stamp(c) \/ Identify(c) \/ Insert(c) PROVE list'.got = list.got
  BY <1>5 DEF Stamp, Identify, Insert
<1>6. QED
  BY <1>2, <1>3, <1>4, <1>5 DEF Next, vars

\* The invariant holds for good.
LEMMA PagesStep == PagesInv /\ [Next]_vars => PagesInv'
<1> SUFFICES ASSUME PagesInv, [Next]_vars PROVE PagesInv'
  OBVIOUS
<1>1. CASE UNCHANGED vars
  BY <1>1 DEF PagesInv, TypeOK, Drafted, Listing, Followed, GotOnce, AboveCursor, NotMissed, InOrder, vars
<1>2. QED
  BY <1>1, CreationStep, StatusStep, OpenStep, PageStep, CloseStep DEF Next

-----------------------------------------------------------------------------
\* Rows are named before they are stored, and the client holds rows of the
\* table (NewNotification, Insert, NotificationRepo.List).
THEOREM PagesTypes == Safety => []TypeOK
<1>1. PagesInv => TypeOK
  BY DEF PagesInv
<1>2. QED
  BY <1>1, PagesStart, PagesStep, PTL DEF Safety

\* A listing by a page size the server takes is complete and without
\* repetition at its end, as long as created_at and id order the rows alike
\* (List, NewNotificationListResponse, the id < cursor of the query).
THEOREM ListsAll == Safety => []ListingComplete
<1>1. PagesInv => ListingComplete
  <2> SUFFICES ASSUME PagesInv, list.pc = "ended", list.size \in 1..MaxSize, InOrder, NEW x \in list.must
               PROVE  Times(x) = 1
    BY DEF ListingComplete
  <2>1. GotOnce /\ list.must \subseteq ToSet(list.got)
    BY DEF PagesInv, Followed, NotMissed
  <2>2. PICK i \in DOMAIN list.got : list.got[i] = x
    BY <2>1 DEF ToSet
  <2>3. {j \in DOMAIN list.got : list.got[j] = x} = {i}
    BY <2>1, <2>2 DEF GotOnce
  <2>4. QED
    BY <2>3, FS_Singleton DEF Times
<1>2. QED
  BY <1>1, PagesStart, PagesStep, PTL DEF Safety

\* No page_size gets more rows than the maximum at once (the limit of List).
THEOREM PagesAreBounded == Safety => PagesBounded
<1>1. PagesInv /\ [Next]_vars => [Len(list'.got) <= Len(list.got) + MaxSize]_vars
  <2> SUFFICES ASSUME PagesInv, [Next]_vars PROVE Len(list'.got) <= Len(list.got) + MaxSize
    OBVIOUS
  <2>s. list.got \in Seq(table) /\ Len(list.got) \in Nat /\ MaxSize \in Nat
    BY SizesAssumption DEF PagesInv, TypeOK
  <2>1. CASE ListPage
    <3>1. CASE list'.got = list.got
      BY <2>s, <3>1
    <3>2. ASSUME NEW page \in Listed(list.size, list.cursor), list'.got = list.got \o page
          PROVE  Len(list'.got) <= Len(list.got) + MaxSize
      <4>1. page \in Seq(table) /\ Len(page) <= Limit(list.size) /\ Limit(list.size) \in 1..MaxSize
        BY PageFacts
      <4>2. QED
        BY <2>s, <3>2, <4>1
    <3>3. QED
      BY <2>1, <3>1, <3>2, PageView
  <2>2. CASE list'.got = list.got
    BY <2>s, <2>2
  <2>3. CASE list'.got = <<>>
    BY <2>s, <2>3
  <2>4. QED
    BY <2>1, <2>2, <2>3, OthersKeep
<1>2. QED
  BY <1>1, PagesStart, PagesStep, PTL DEF Safety, PagesBounded

\* Every next_cursor is below the one it was asked with, so a client that
\* follows it is never sent round (the last id of the page against id < cursor).
THEOREM CursorGoesDown == Safety => CursorDescends
<1>1. PagesInv /\ [Next]_vars =>
        [list.cursor # NoCursor /\ Len(list'.got) > Len(list.got) /\ list'.pc = "open"
           => list'.cursor < list.cursor]_vars
  <2> SUFFICES ASSUME PagesInv, [Next]_vars, list.cursor # NoCursor, Len(list'.got) > Len(list.got),
                      list'.pc = "open"
               PROVE  list'.cursor < list.cursor
    OBVIOUS
  <2>s. list \in Listing /\ list.got \in Seq(table) /\ Len(list.got) \in Nat
    BY DEF PagesInv, TypeOK, Drafted
  <2>1. CASE ListPage
    <3>1. PICK page \in Listed(list.size, list.cursor) : page # <<>> /\ list'.cursor = page[Len(page)].id
      BY <2>1, <2>s, PageView
    <3>2. page \in Seq(table) /\ \A x \in ToSet(page) : list.cursor # NoCursor => x.id < list.cursor
      BY PageFacts
    <3>3. page[Len(page)] \in ToSet(page)
      BY <3>1, <3>2 DEF ToSet
    <3>4. QED
      BY <3>1, <3>2, <3>3
  <2>2. list'.got # list.got /\ list'.got # <<>>
    BY <2>s
  <2>3. QED
    BY <2>1, <2>2, OthersKeep
<1>2. QED
  BY <1>1, PagesStart, PagesStep, PTL DEF Safety, CursorDescends
====
