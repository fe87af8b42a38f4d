------------------------------- MODULE Listing -------------------------------
(***************************************************************************)
(* Listing in pages: app/pagination.py over list_resources, as the list    *)
(* routes use them, while rows are created and deleted between the pages.  *)
(*                                                                         *)
(* Every page is computed from the rows of its moment.  next_page names an *)
(* offset; after_id names a row.                                           *)
(***************************************************************************)
EXTENDS Integers, FiniteSets, Sequences

CONSTANTS
  MaxRows,        \* bound: rows get the ids 1 .. MaxRows in the order of created_at
  ListLimit,      \* limit of list_resources, 1000 in the code
  MaxLimit,       \* MAX_LIMIT, 1000 in the code, 100 for deployments
  Limits          \* the limits that clients ask for

ASSUME ListingBounds == MaxRows \in Nat /\ ListLimit \in Nat \ {0} /\ MaxLimit \in Nat \ {0} /\ Limits \subseteq Int

VARIABLES
  created,        \* the number of rows created
  listed,         \* the rows that are not deleted
  walk            \* one client that walks through the list, page after page

listVars == <<created, listed, walk>>

-----------------------------------------------------------------------------

\* list_resources: the newest rows.
Newest(rows) == {r \in rows : Cardinality({q \in rows : q > r}) < ListLimit}

\* The rows that are listed before a row.
Before(rows, order, r) == {q \in rows : IF order = "desc" THEN q > r ELSE q < r}

\* sort_by_created_at: the place of a row says how many are before it.
Sorted(rows, order) ==
  [i \in 1 .. Cardinality(rows) |-> CHOOSE r \in rows : Cardinality(Before(rows, order, r)) = i - 1]

\* _limit.
PageLength(limit) == IF limit < 1 THEN 1 ELSE IF limit > MaxLimit THEN MaxLimit ELSE limit

Slice(items, offset, length) ==
  SubSeq(items, offset + 1, IF offset + length < Len(items) THEN offset + length ELSE Len(items))

\* seen are the rows of the pages so far.  Histories: stayed are the rows that were among
\* the newest at every moment since the start; lost says that a row was deleted and pushed
\* that one was pushed out of the newest, while the walk went on.
NoWalk == [by |-> "none", order |-> "desc", length |-> 1, offset |-> 0, last |-> 0, seen |-> <<>>,
           stayed |-> {}, lost |-> FALSE, pushed |-> FALSE, state |-> "none"]

ListInit == created = 0 /\ listed = {} /\ walk = NoWalk

CreateRow ==
  /\ created < MaxRows
  /\ created' = created + 1
  /\ listed' = listed \cup {created + 1}
  /\ walk' = [walk EXCEPT !.stayed = @ \cap Newest(listed'),
                           !.pushed = @ \/ (walk.state = "open" /\ ~(Newest(listed) \subseteq Newest(listed')))]

DeleteRow ==
  \E r \in listed :
    /\ listed' = listed \ {r}
    /\ walk' = [walk EXCEPT !.stayed = @ \ {r}, !.lost = walk.state = "open" \/ @]
    /\ UNCHANGED created

\* Files are listed by id and newest first, the others by page and in either order.
BeginWalk ==
  \E by \in {"page", "id"}, order \in {"desc", "asc"}, limit \in Limits :
    /\ walk.state = "none"
    /\ by = "id" => order = "desc"
    /\ walk' = [NoWalk EXCEPT !.by = by, !.order = order, !.length = PageLength(limit),
                              !.stayed = Newest(listed), !.state = "open"]
    /\ UNCHANGED <<created, listed>>

\* Mutant: the row the cursor names is sent again.
PositionAt(items, r) == IF r = 0 THEN 0 ELSE (CHOOSE i \in DOMAIN items : items[i] = r) - 1

\* _index_after; 0 is no after_id.
PositionAfter(items, r) == IF r = 0 THEN 0 ELSE CHOOSE i \in DOMAIN items : items[i] = r

\* The page that starts at offset.
TakePage(items, offset) ==
  LET next == offset + walk.length
      slice == Slice(items, offset, walk.length) IN
    walk' = [walk EXCEPT !.offset = next, !.seen = @ \o slice,
                         !.last = IF slice = <<>> THEN @ ELSE slice[Len(slice)],
                         !.state = IF next < Len(items) THEN "open" ELSE "done"]

\* Mutant: the offset counts from the page before.
OffsetBehind(offset) == IF offset = 0 THEN 0 ELSE offset + 1

\* paginate, of the offset in next_page.
OffsetOf(offset) == offset

NextByPage ==
  /\ walk.state = "open" /\ walk.by = "page"
  /\ TakePage(Sorted(Newest(listed), walk.order), OffsetOf(walk.offset))
  /\ UNCHANGED <<created, listed>>

\* paginate_by_id; 400 when the row is no longer listed.
NextById ==
  LET items == Sorted(Newest(listed), walk.order) IN
    /\ walk.state = "open" /\ walk.by = "id"
    /\ IF walk.last \in {0} \cup {items[i] : i \in DOMAIN items}
         THEN TakePage(items, PositionAfter(items, walk.last))
         ELSE walk' = [walk EXCEPT !.state = "refused"]
    /\ UNCHANGED <<created, listed>>

\* PAGE_CURSOR_TTL_SECONDS have passed: 400.
PageExpires ==
  /\ walk.state = "open" /\ walk.by = "page" /\ walk.offset > 0
  /\ walk' = [walk EXCEPT !.state = "refused"]
  /\ UNCHANGED <<created, listed>>

ListNext == CreateRow \/ DeleteRow \/ BeginWalk \/ NextByPage \/ NextById \/ PageExpires

ListSpec == ListInit /\ [][ListNext]_listVars

-----------------------------------------------------------------------------
(* Properties. *)

SeenRows == {walk.seen[i] : i \in DOMAIN walk.seen}

\* A walk by pages misses no row that stays among the newest ListLimit, whatever is
\* created meanwhile, unless a row is deleted meanwhile or, oldest first, one is pushed out
\* of those.
PagesMissNothing ==
  walk.by = "page" /\ walk.state = "done" /\ ~walk.lost /\ (walk.order = "desc" \/ ~walk.pushed)
    => walk.stayed \subseteq SeenRows

\* A walk by id misses no row that stays and sends none twice, whatever is created and
\* deleted meanwhile.
IdsMissNothing ==
  walk.by = "id" =>
    /\ Cardinality(SeenRows) = Len(walk.seen)
    /\ walk.state = "done" => walk.stayed \subseteq SeenRows
=============================================================================
