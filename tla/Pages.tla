---- MODULE Pages ----
(***************************************************************************)
(* GET /api/v1/notifications: the handler, its response and the query of   *)
(* NotificationRepo.List, and a client that follows next_cursor while      *)
(* notifications are created and their statuses change.  A query that      *)
(* fails answers 500 and changes nothing.                                  *)
(***************************************************************************)
EXTENDS Integers, SequencesExt

CONSTANTS Creators,      \* goroutines that create notifications, one each
          AskedSizes,    \* values of page_size; 0 if it is left out
          DefaultSize,   \* 20 in the code
          MaxSize,       \* 100 in the code
          NoCursor

ASSUME SizesAssumption == /\ AskedSizes \subseteq Int
                          /\ MaxSize \in Nat /\ DefaultSize \in 1..MaxSize
                          /\ NoCursor \notin Int

VARIABLES
    clock,    \* grows with every UUID
    draft,    \* draft[c]: the notification c is about to store
    table,    \* the rows: created_at and id
    hidden,   \* rows whose status the client's filter leaves out
    list      \* the client: its page_size and cursor, the rows it got, and the
              \* rows that have met its filter ever since it began

vars == <<clock, draft, table, hidden, list>>

NewDraft == [pc |-> "new", at |-> 0, id |-> 0]
NoListing == [pc |-> "idle", size |-> 0, cursor |-> NoCursor, got |-> <<>>, must |-> {}]

Init ==
    /\ clock = 1
    /\ draft = [c \in Creators |-> NewDraft]
    /\ table = {}
    /\ hidden = {}
    /\ list = NoListing

-----------------------------------------------------------------------------
\* NewNotification reads the clock for CreatedAt; then NewV7 reads it for the id.
Stamp(c) ==
    /\ draft[c].pc = "new"
    /\ draft' = [draft EXCEPT ![c] = [@ EXCEPT !.pc = "stamped", !.at = clock]]
    /\ UNCHANGED <<clock, table, hidden, list>>

Identify(c) ==
    /\ draft[c].pc = "stamped"
    /\ draft' = [draft EXCEPT ![c] = [@ EXCEPT !.pc = "named", !.id = clock]]
    /\ clock' = clock + 1
    /\ UNCHANGED <<table, hidden, list>>

\* Variant: the row is stored before it is named.
Insert_Unnamed(c) ==
    /\ draft[c].pc \in {"stamped", "named"}
    /\ table' = table \cup {[at |-> draft[c].at, id |-> draft[c].id]}
    /\ draft' = [draft EXCEPT ![c].pc = "stored"]
    /\ UNCHANGED <<clock, hidden, list>>

Insert(c) ==
    /\ draft[c].pc = "named"
    /\ table' = table \cup {[at |-> draft[c].at, id |-> draft[c].id]}
    /\ draft' = [draft EXCEPT ![c].pc = "stored"]
    /\ UNCHANGED <<clock, hidden, list>>

\* A change of status takes a row out of the client's filter, or into it.
UpdateStatus(x) ==
    /\ hidden' = IF x \in hidden THEN hidden \ {x} ELSE hidden \cup {x}
    /\ list' = [list EXCEPT !.must = @ \ {x}]
    /\ UNCHANGED <<clock, draft, table>>

\* The client begins a listing.
Open(size) ==
    /\ list.pc = "idle"
    /\ list' = [pc |-> "open", size |-> size, cursor |-> NoCursor, got |-> <<>>,
                must |-> table \ hidden]
    /\ UNCHANGED <<clock, draft, table, hidden>>

\* ORDER BY created_at DESC, id DESC
Before(x, y) == x.at > y.at \/ (x.at = y.at /\ x.id > y.id)

\* Variant: the limit is what the client asks for.
Limit_AsAsked(size) == IF size <= 0 THEN DefaultSize ELSE size
Limit(size) == IF size <= 0 \/ size > MaxSize THEN DefaultSize ELSE size

\* LIMIT n over the sorted rows: the first n of them, or all.
IsPage(page, rows, n) ==
    /\ \A i, j \in DOMAIN page : i < j => Before(page[i], page[j])
    /\ \A x \in rows \ ToSet(page) : Len(page) = n /\ \A y \in ToSet(page) : Before(y, x)

\* Variant: the cursor's own row is listed again.
Listed_Inclusive(size, cursor) ==
    LET rows == {x \in table \ hidden : cursor # NoCursor => x.id <= cursor}
    IN {page \in SeqOf(rows, Limit(size)) : IsPage(page, rows, Limit(size))}

\* NotificationRepo.List: the one page the query returns.
Listed(size, cursor) ==
    LET rows == {x \in table \ hidden : cursor # NoCursor => x.id < cursor}
    IN {page \in SeqOf(rows, Limit(size)) : IsPage(page, rows, Limit(size))}

\* Variant: the next page starts after the first row of this one.
CursorAfter_First(page) == Head(page).id
CursorAfter(page) == Last(page).id

\* List and NewNotificationListResponse: there is a next page if this one has
\* as many rows as the client asked for.  With no page_size and no rows the
\* last row is looked up all the same, and the panic becomes a 500.
ListPage ==
    /\ list.pc = "open"
    /\ \E page \in Listed(list.size, list.cursor) :
          list' = IF Len(page) # list.size
                  THEN [list EXCEPT !.pc = "ended", !.got = @ \o page]
                  ELSE IF page = <<>> THEN [list EXCEPT !.pc = "failed"]
                  ELSE [list EXCEPT !.cursor = CursorAfter(page), !.got = @ \o page]
    /\ UNCHANGED <<clock, draft, table, hidden>>

Close == /\ list.pc \in {"ended", "failed"}
         /\ list' = NoListing
         /\ UNCHANGED <<clock, draft, table, hidden>>

Next == \/ \E c \in Creators : Stamp(c) \/ Identify(c) \/ Insert(c)
        \/ \E x \in table : UpdateStatus(x)
        \/ \E size \in AskedSizes : Open(size)
        \/ ListPage
        \/ Close

Safety == Init /\ [][Next]_vars

-----------------------------------------------------------------------------
\* Every variable holds a value of its kind; rows are named before they are stored.
TypeOK ==
    /\ clock \in Nat \ {0}
    /\ draft \in [Creators -> [pc : {"new", "stamped", "named", "stored"}, at : 0..clock, id : 0..clock]]
    /\ table \subseteq [at : 1..clock, id : 1..clock]
    /\ hidden \subseteq table
    /\ list.pc \in {"idle", "open", "ended", "failed"}
    /\ list.size \in AskedSizes \cup {0}
    /\ list.cursor \in Nat \cup {NoCursor}
    /\ list.got \in Seq(table)
    /\ list.must \subseteq table

\* No page is longer than the maximum, whatever page_size says.
PagesBounded == [][Len(list'.got) <= Len(list.got) + MaxSize]_vars

\* Every page starts below the one before, so a client that follows
\* next_cursor comes to an end, also while notifications keep being created.
CursorDescends ==
    [][list.cursor # NoCursor /\ Len(list'.got) > Len(list.got) /\ list'.pc = "open"
         => list'.cursor < list.cursor]_vars

\* created_at and id order the rows alike.
InOrder == \A x, y \in table : x.at < y.at => x.id < y.id

Times(x) == Cardinality({i \in DOMAIN list.got : list.got[i] = x})

\* A client with a page size the server takes gets every row that met its
\* filter all along, and gets it once, whatever is created and changed
\* meanwhile, provided that the two orders agree.
ListingComplete ==
    list.pc = "ended" /\ list.size \in 1..MaxSize /\ InOrder =>
        \A x \in list.must : Times(x) = 1

\* What docs/openapi.yaml says of a request without page_size, and the code
\* does not keep: it lists all rows in pages of the default size.
DefaultSizeServed ==
    list.size = 0 => /\ list.pc # "failed"
                     /\ list.pc = "ended" /\ InOrder => \A x \in list.must : Times(x) = 1
====
