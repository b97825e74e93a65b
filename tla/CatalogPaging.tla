---------------------------- MODULE CatalogPaging ----------------------------
(***************************************************************************)
(* Keyset paging through the catalog, the search and the author and genre  *)
(* lists, while the scanner, the enrichment worker and the operator change *)
(* the rows between two pages.                                             *)
(*                                                                         *)
(* One client pages one request from its first page to the empty one: each *)
(* page is one SELECT, and all that joins it to the next is the cursor.    *)
(* Column values are numbers in the collation's order, 0 the empty string; *)
(* a timestamp survives its trip through the cursor's text unchanged, for  *)
(* Postgres keeps microseconds and RFC3339Nano nanoseconds.  Magic and     *)
(* separators are left out: a cursor is no cursor or the pair they join.   *)
(***************************************************************************)
EXTENDS Integers, FiniteSets

CONSTANTS
    Book,          \* audiobook ids; numbers, because pages are ordered by id
    Lib,           \* library_path ids; numbers from 1
    LibOf,         \* LibOf[b]: the library of b
    Tags,          \* what an ingest or an enrichment writes: records of
                   \* title, author and genre
    Hits,          \* the texts the search query is a substring of
    Request,       \* requests of clients
    DefaultLimit,  \* page size of books when none is asked for: 50
    FacetLimit,    \* ... of authors and genres: 100
    LimitCap,      \* the largest page: 200
    NoCursor,      \* no cursor, or one that does not decode
    MaxClock,      \* bound: now() when the client comes
    MaxEdits       \* bound: writes of others

Column == {"title", "author", "genre", "added", "updated"}
Facet == {"author", "genre"}
Row == [Column -> Nat]

ASSUME BookAssumption ==
    IsFiniteSet(Book) /\ Book \subseteq Nat /\ LibOf \in [Book -> Lib]
ASSUME TagsAssumption == Tags \subseteq [title : Nat, author : Nat, genre : Nat]
ASSUME LibAssumption == Lib \subseteq Nat \ {0}
ASSUME RequestAssumption ==
    Request \subseteq [op : {"list", "search"} \cup Facet,
                       sort : {"", "title", "author", "added", "updated"},
                       desc : BOOLEAN, limit : Int, lib : Lib \cup {0}]
ASSUME LimitAssumption ==
    /\ {DefaultLimit, FacetLimit, LimitCap} \subseteq Nat \ {0}
    /\ DefaultLimit <= LimitCap
ASSUME BoundAssumption == MaxClock \in Nat /\ MaxEdits \in Nat
ASSUME CursorAssumption == NoCursor \notin [val : Nat, id : Nat]

VARIABLES
    state,      \* state[b]: no row, a live one or a soft-deleted one
    col,        \* col[b]: the columns of the row
    edits,      \* writes so far
    \* the client
    phase, req, cursor,
    \* history, read by the properties only
    touched,    \* books written since the client asked for its first page
    times,      \* times[b]: pages b was on, counted up to 2
    listed      \* listed[v]: pages the author or genre v was on, up to 2

rowVars == <<state, col, edits>>
clientVars == <<phase, req, cursor, times, listed>>
vars == <<rowVars, clientVars, touched>>

Value == UNION {{t.title, t.author, t.genre} : t \in Tags}

TypeOK ==
    /\ state \in [Book -> {"absent", "live", "deleted"}]
    /\ col \in [Book -> Row]
    /\ edits \in Nat
    /\ phase \in {"new", "paging", "done"} /\ req \in Request
    /\ cursor \in [val : Nat, id : Nat] \cup {NoCursor}
    /\ touched \subseteq Book
    /\ times \in [Book -> 0..2] /\ listed \in [Value -> 0..2]

Stamped(t, added, updated) ==
    [c \in Column |-> CASE c = "title" -> t.title
                        [] c = "author" -> t.author
                        [] c = "genre" -> t.genre
                        [] c = "added" -> added
                        [] c = "updated" -> updated]

Blank == [c \in Column |-> 0]

(* A catalog that earlier scans left, and a client that is about to page. *)
Init ==
    /\ state \in [Book -> {"absent", "live"}]
    /\ \E t \in [Book -> Tags], at \in [Book -> 0..MaxClock] :
          col = [b \in Book |-> IF state[b] = "live"
                                THEN Stamped(t[b], at[b], at[b]) ELSE Blank]
    /\ edits = 0
    /\ phase = "new" /\ req \in Request /\ cursor = NoCursor
    /\ touched = {}
    /\ times = [b \in Book |-> 0] /\ listed = [v \in Value |-> 0]

-----------------------------------------------------------------------------
(* Writers *)

Now == MaxClock + edits + 1

(* Bookkeeping of the writers below: their bound, and what they touched.     *)
Write(S) ==
    /\ edits < MaxEdits
    /\ edits' = edits + 1
    /\ touched' = IF phase = "new" THEN {} ELSE touched \cup S
    /\ UNCHANGED clientVars

(* UpsertAudiobook: a new row, or all tags of the old one. *)
Ingest(b, t) ==
    /\ Write({b})
    /\ state' = [state EXCEPT ![b] = "live"]
    /\ col' = [col EXCEPT ![b] =
                 Stamped(t, IF state[b] = "absent" THEN Now ELSE col[b]["added"], Now)]

(* UpdateAudiobookMetadata, also of a soft-deleted row. *)
Enrich(b, t) ==
    /\ Write({b})
    /\ state[b] # "absent"
    /\ col' = [col EXCEPT ![b] = Stamped(t, col[b]["added"], Now)]
    /\ UNCHANGED state

SoftDelete(b) ==
    /\ Write({b})
    /\ state[b] = "live"
    /\ state' = [state EXCEPT ![b] = "deleted"]
    /\ col' = [col EXCEPT ![b]["updated"] = Now]

DeleteLibraryPath(l) ==
    LET books == {b \in Book : LibOf[b] = l}
    IN  /\ Write(books)
        /\ state' = [b \in Book |-> IF b \in books THEN "absent" ELSE state[b]]
        /\ col' = [b \in Book |-> IF b \in books THEN Blank ELSE col[b]]

-----------------------------------------------------------------------------
(* A page *)

IsFacet == req.op \in Facet

(* parseLimit, and the store's own clamp after it. *)
ParseLimit(n, default) ==
    IF n <= 0 THEN default ELSE IF n > LimitCap THEN LimitCap ELSE n
Limit ==
    LET n == ParseLimit(req.limit, IF IsFacet THEN FacetLimit ELSE DefaultLimit)
    IN  IF IsFacet \/ n \in 1..LimitCap THEN n ELSE DefaultLimit

(* resolveSort: any other word, the empty one included, sorts by title. *)
ResolveSort(sort) == IF sort \in {"author", "added", "updated"} THEN sort ELSE "title"

(* handleSearchCatalog does not pass the sort parameter on: the search is    *)
(* ordered by title, ascending.                                              *)
OrderCol == IF req.op = "search" THEN "title" ELSE ResolveSort(req.sort)
Desc == req.op # "search" /\ req.desc

(* The WHERE clause without the cursor's part; no code clears the enabled    *)
(* flag of a library, so it is not told apart.                               *)
Selected(b) ==
    /\ state[b] = "live"
    /\ req.lib > 0 => LibOf[b] = req.lib
    /\ req.op = "search" => col[b]["title"] \in Hits \/ col[b]["author"] \in Hits
    /\ IsFacet => col[b][req.op] # 0

(* ORDER BY col dir, id *)
Before(b, c) ==
    LET v == col[b][OrderCol]
        w == col[c][OrderCol]
    IN  (IF Desc THEN v > w ELSE v < w) \/ (v = w /\ b < c)

(* Mutants: the cursor's id alone, as an earlier implementation did; > for   *)
(* both directions; the row of the cursor again.                             *)
KeysetClause_IdOnly(b) == cursor = NoCursor \/ b > cursor.id
KeysetClause_OneWay(b) ==
    LET v == col[b][OrderCol]
    IN  \/ cursor = NoCursor
        \/ v > cursor.val
        \/ v = cursor.val /\ b > cursor.id
KeysetClause_Again(b) ==
    LET v == col[b][OrderCol]
    IN  \/ cursor = NoCursor
        \/ IF Desc THEN v < cursor.val ELSE v > cursor.val
        \/ v = cursor.val /\ b >= cursor.id

KeysetClause(b) ==
    LET v == col[b][OrderCol]
    IN  \/ cursor = NoCursor
        \/ IF Desc THEN v < cursor.val ELSE v > cursor.val
        \/ v = cursor.val /\ b > cursor.id

Rest == {b \in Book : Selected(b) /\ KeysetClause(b)}

(* LIMIT n of an ordered set. *)
FirstOf(S, n, P) == Cardinality(P) = IF Cardinality(S) < n THEN Cardinality(S) ELSE n

Once(n) == IF n = 0 THEN 1 ELSE 2

(* Mutant: the sort value alone. *)
EncodeCursor_NoId(b) == [val |-> col[b][ResolveSort(req.sort)]]

(* The cursor is taken from the last row, by the sort parameter. *)
EncodeCursor(b) == [val |-> col[b][ResolveSort(req.sort)], id |-> b]

(* handleListCatalog, handleSearchCatalog: a page P that is not empty has a  *)
(* next cursor.                                                              *)
ListPage ==
    /\ phase \in {"new", "paging"} /\ ~IsFacet
    /\ \E P \in SUBSET Rest :
          /\ FirstOf(Rest, Limit, P)
          /\ \A b \in P, c \in Rest \ P : Before(b, c)
          /\ times' = [b \in Book |-> IF b \in P THEN Once(times[b]) ELSE times[b]]
          /\ \/ /\ P = {}
                /\ phase' = "done"
                /\ UNCHANGED cursor
             \/ \E last \in P :
                /\ \A b \in P \ {last} : Before(b, last)
                /\ phase' = "paging"
                /\ cursor' = EncodeCursor(last)
    /\ UNCHANGED <<rowVars, req, touched, listed>>

(* Mutant: >= for the name the last page ended with. *)
FacetRest_Again ==
    {col[b][req.op] : b \in {c \in Book : Selected(c) /\
        (cursor = NoCursor \/ col[c][req.op] >= cursor.val)}}

(* The names after the cursor's, grouped. *)
FacetRest ==
    {col[b][req.op] : b \in {c \in Book : Selected(c) /\
        (cursor = NoCursor \/ col[c][req.op] > cursor.val)}}

(* handleBrowseAuthors, handleBrowseGenres: the cursor is the last name. *)
FacetPage ==
    /\ phase \in {"new", "paging"} /\ IsFacet
    /\ \E P \in SUBSET FacetRest :
          /\ FirstOf(FacetRest, Limit, P)
          /\ \A v \in P, w \in FacetRest \ P : v < w
          /\ listed' = [v \in Value |-> IF v \in P THEN Once(listed[v]) ELSE listed[v]]
          /\ \/ /\ P = {}
                /\ phase' = "done"
                /\ UNCHANGED cursor
             \/ \E last \in P :
                /\ \A v \in P : v <= last
                /\ phase' = "paging"
                /\ cursor' = [val |-> last, id |-> 0]
    /\ UNCHANGED <<rowVars, req, touched, times>>

-----------------------------------------------------------------------------

(* The client has all pages and asks for something else. *)
NewRequest ==
    /\ phase = "done"
    /\ phase' = "new"
    /\ req' \in Request
    /\ cursor' = NoCursor
    /\ touched' = {}
    /\ times' = [b \in Book |-> 0] /\ listed' = [v \in Value |-> 0]
    /\ UNCHANGED rowVars

-----------------------------------------------------------------------------

Page == ListPage \/ FacetPage

Next ==
    \/ \E b \in Book, t \in Tags : Ingest(b, t) \/ Enrich(b, t)
    \/ \E b \in Book : SoftDelete(b)
    \/ \E l \in Lib : DeleteLibraryPath(l)
    \/ Page \/ NewRequest

Spec == Init /\ [][Next]_vars

(* The client asks for the next page until there is none. *)
FairSpec == Spec /\ WF_vars(Page)

-----------------------------------------------------------------------------
(* Properties *)

(* The cursor holds a value of the column the pages are ordered by: true of  *)
(* every list, and of a search that is not given another sort parameter.     *)
Sound == req.op # "search" \/ ResolveSort(req.sort) = "title"

(* At every time the pages so far are, among the books nobody touched, a     *)
(* prefix of the requested order, each book once: nothing is skipped, nothing*)
(* comes twice, whatever happens to the other rows, the one the cursor was   *)
(* taken from included (cursor.go: keysetClause).                            *)
PagesArePrefix ==
    Sound /\ ~IsFacet =>
        \A b \in Book \ touched :
            /\ times[b] <= 1
            /\ times[b] = 1 => Selected(b)
            /\ \A c \in Book \ touched :
                  times[b] = 1 /\ Selected(c) /\ Before(c, b) => times[c] = 1

(* When the last page came, every book nobody touched and that the request   *)
(* selects was on exactly one page.                                          *)
Complete ==
    Sound /\ ~IsFacet /\ phase = "done" =>
        \A b \in Book \ touched : Selected(b) => times[b] = 1

(* No author or genre is listed twice, whatever is edited meanwhile, and at  *)
(* the end the one of every untouched book was listed                        *)
(* (audiobook.go: ListAuthorsWithCounts, ListGenresWithCounts).              *)
FacetsOnce ==
    IsFacet =>
        /\ \A v \in Value : listed[v] <= 1
        /\ phase = "done" =>
              \A b \in Book \ touched : Selected(b) => listed[col[b][req.op]] = 1

(* Once the writers pause the client comes to the last page: the cursor      *)
(* always advances.                                                          *)
Ends == phase = "paging" ~> phase = "done"

-----------------------------------------------------------------------------
(* What the repository says of paging and the code does not do.              *)

(* cursor.go: "A cursor must therefore carry BOTH the sort value and the id  *)
(* of the last row so the next page resumes exactly", of catalog and search. *)
SearchResumes ==
    req.op = "search" /\ phase = "done" =>
        \A b \in Book \ touched : Selected(b) => times[b] = 1
=============================================================================
