------------------------------- MODULE Paging -------------------------------
(***************************************************************************)
(* A client that walks a list page by page with the cursor of the page       *)
(* before, while the rows change.  Every paged list of the API is one:       *)
(* a repository method returns one row more than the page, those after the   *)
(* cursor in a total order; the service makes the next cursor of the last     *)
(* row it keeps.                                                            *)
(*                                                                          *)
(* Abstracted: what a filter or a scope looks at, which is whether the row    *)
(* is shown; the encoding of a cursor; the total, which is only an estimate. *)
(***************************************************************************)
EXTENDS Integers, FiniteSets

CONSTANTS Nothing,
          Rows,      \* ids, compared as the uuids are
          Sorts,     \* sort keys: prices, areas, instants
          PageSize,
          MaxMoves   \* bound: changes of rows during the walk

VARIABLES
  list,     \* which list is walked
  row,      \* [Rows -> featured, sort key, shown]
  cursor,   \* Nothing, or the place of the last row returned
  ended,    \* the last page had no cursor
  returned, \* [Rows -> times returned]
  moves,
  moved     \* history: rows whose place changed, or that were hidden or shown, during the walk

pagingVars == <<list, row, cursor, ended, returned, moves, moved>>

-----------------------------------------------------------------------------
(* The WHERE of the next page: x is past the cursor y.  list_published:        *)
(* featured rows lead every sort, the sort goes up or down, and ids go down. *)
AfterInSearch(x, y, down) ==
  \/ y.featured /\ ~x.featured
  \/ x.featured = y.featured /\ (IF down THEN x.sort < y.sort ELSE x.sort > y.sort)
  \/ x.featured = y.featured /\ x.sort = y.sort /\ x.id < y.id

(* Mutation: ties are not broken. *)
WithoutTies(x, y, down) == IF down THEN x.sort < y.sort ELSE x.sort > y.sort

(* list_portal: ids break ties in the direction of the sort.                *)
AfterInPortal(x, y, down) ==
  IF down THEN \/ x.sort < y.sort
               \/ x.sort = y.sort /\ x.id < y.id
          ELSE \/ x.sort > y.sort
               \/ x.sort = y.sort /\ x.id > y.id

(* The newest first: leads, deals, posts and most other lists.              *)
AfterInNewest(x, y) == AfterInPortal(x, y, TRUE)
(* The agenda of an agent, and the tours of a visitor: the next first.       *)
AfterInAgenda(x, y) == AfterInPortal(x, y, FALSE)

After(x, y) ==
  CASE list = "search down" -> AfterInSearch(x, y, TRUE)
    [] list = "search up"   -> AfterInSearch(x, y, FALSE)
    [] list = "portal down" -> AfterInPortal(x, y, TRUE)
    [] list = "portal up"   -> AfterInPortal(x, y, FALSE)
    [] list = "newest"      -> AfterInNewest(x, y)
    [] list = "agenda"      -> AfterInAgenda(x, y)
Lists == {"search down", "search up", "portal down", "portal up", "newest", "agenda"}

(* The ORDER BY of the page: its columns, a descending one negated.         *)
OrderBy(x) ==
  LET directed(down, v) == IF down THEN 0 - v ELSE v
      lead == IF x.featured THEN 0 ELSE 1
  IN  CASE list = "search down" -> <<lead, directed(TRUE, x.sort), directed(TRUE, x.id)>>
        [] list = "search up"   -> <<lead, x.sort, directed(TRUE, x.id)>>
        [] list \in {"portal down", "newest"} -> <<directed(TRUE, x.sort), directed(TRUE, x.id)>>
        [] list \in {"portal up", "agenda"}   -> <<x.sort, x.id>>
Precedes(x, y) ==
  LET a == OrderBy(x)
      b == OrderBy(y)
  IN  \E i \in DOMAIN a : a[i] < b[i] /\ \A j \in 1..(i - 1) : a[j] = b[j]

(* created_at never changes; a price, a tour and a featured flag do.        *)
Mutable == list # "newest"

-----------------------------------------------------------------------------
Place(r) == [id |-> r, featured |-> row[r].featured, sort |-> row[r].sort]

Init ==
  /\ list \in Lists
  /\ row \in [Rows -> [featured : BOOLEAN, sort : Sorts, shown : BOOLEAN]]
  /\ list \notin {"search down", "search up"} => \A r \in Rows : ~row[r].featured
  /\ cursor = Nothing /\ ended = FALSE
  /\ returned = [r \in Rows |-> 0]
  /\ moves = 0 /\ moved = {}

(* The rows that are shown and past the cursor; the first PageSize of them,  *)
(* and a cursor if there is one more.                                       *)
Rest == {r \in Rows : row[r].shown /\ (cursor = Nothing \/ After(Place(r), cursor))}
Rank(r) == Cardinality({q \in Rest : Precedes(Place(q), Place(r))})

NextPage ==
  /\ ~ended
  /\ LET page == {r \in Rest : Rank(r) < PageSize}
         last == {r \in page : Rank(r) = PageSize - 1}
     IN  /\ returned' = [r \in Rows |-> returned[r] + (IF r \in page THEN 1 ELSE 0)]
         /\ IF Cardinality(Rest) > PageSize
            THEN /\ \E r \in last : cursor' = Place(r)
                 /\ UNCHANGED ended
            ELSE ended' = TRUE /\ UNCHANGED cursor
  /\ UNCHANGED <<list, row, moves, moved>>

(* Somebody edits a row, publishes or withdraws it, creates or deletes it.  *)
Move(r) ==
  /\ ~ended /\ moves < MaxMoves
  /\ moves' = moves + 1
  /\ \/ row' = [row EXCEPT ![r].shown = ~@]
     \/ Mutable /\ \E sort \in Sorts : row' = [row EXCEPT ![r].sort = sort]
     \/ list \in {"search down", "search up"} /\ row' = [row EXCEPT ![r].featured = ~@]
  /\ row' # row
  /\ moved' = moved \cup {r}
  /\ UNCHANGED <<list, cursor, ended, returned>>

Next == NextPage \/ \E r \in Rows : Move(r)

-----------------------------------------------------------------------------
(* "the ordering stays total" (listings/repository.py): a row that nobody     *)
(* moves during the walk is returned once if it is shown and never if not,    *)
(* whatever is moved around it.                                             *)
WalkIsComplete ==
  \A r \in Rows \ moved :
    /\ returned[r] <= (IF row[r].shown THEN 1 ELSE 0)
    /\ ended /\ row[r].shown => returned[r] = 1
=============================================================================
