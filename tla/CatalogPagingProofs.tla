------------------------- MODULE CatalogPagingProofs -------------------------
(***************************************************************************)
(* Paging through the catalog is exact for the books nobody touches, for   *)
(* every catalog, every page size and every interleaving with the writers. *)
(*                                                                         *)
(* The argument: whether an untouched book was on a page so far is decided *)
(* by the cursor alone (ListInv).  A page moves the cursor to its last     *)
(* row, and the keyset predicate of the new cursor splits the rest of the  *)
(* rows exactly where the page ended, because it is the order of the page. *)
(***************************************************************************)
EXTENDS CatalogPaging, FiniteSetTheorems, TLAPS

-----------------------------------------------------------------------------
(* Types *)

(* A row written by an ingest has a number in every column. *)
LEMMA StampedRow ==
    ASSUME NEW t \in Tags, NEW a \in Nat, NEW u \in Nat
    PROVE  /\ Stamped(t, a, u) \in Row
           /\ Stamped(t, a, u)["author"] = t.author
           /\ Stamped(t, a, u)["genre"] = t.genre
  <1>1. t.title \in Nat /\ t.author \in Nat /\ t.genre \in Nat
    BY TagsAssumption
  <1>. QED  BY <1>1 DEF Stamped, Column, Row

(* Authors and genres are among the listed values, which are numbers. *)
LEMMA TagValues ==
    ASSUME NEW t \in Tags
    PROVE  t.author \in Value /\ t.genre \in Value
  BY DEF Value

LEMMA ValueNat == Value \subseteq Nat
  BY TagsAssumption DEF Value

(* What is live was written by an ingest or an enrichment. *)
TagsKnown ==
    \A b \in Book : state[b] # "absent" =>
        col[b]["author"] \in Value /\ col[b]["genre"] \in Value

TypeInv == TypeOK /\ TagsKnown

LEMMA TypeInit == Init => TypeInv
  <1>. SUFFICES ASSUME Init PROVE TypeInv
    OBVIOUS
  <1>1. PICK t \in [Book -> Tags], at \in [Book -> 0..MaxClock] :
          col = [b \in Book |-> IF state[b] = "live"
                                THEN Stamped(t[b], at[b], at[b]) ELSE Blank]
    BY DEF Init
  <1>2. Blank \in Row
    BY DEF Blank, Row
  <1>3. ASSUME NEW b \in Book, state[b] = "live"
        PROVE  /\ col[b] \in Row
               /\ col[b]["author"] \in Value /\ col[b]["genre"] \in Value
    <2>1. t[b] \in Tags /\ at[b] \in Nat
      OBVIOUS
    <2>2. col[b] = Stamped(t[b], at[b], at[b])
      BY <1>1, <1>3
    <2>3. /\ Stamped(t[b], at[b], at[b]) \in Row
          /\ Stamped(t[b], at[b], at[b])["author"] = t[b].author
          /\ Stamped(t[b], at[b], at[b])["genre"] = t[b].genre
      BY <2>1, StampedRow
    <2>4. t[b].author \in Value /\ t[b].genre \in Value
      BY <2>1, TagValues
    <2>. QED  BY <2>2, <2>3, <2>4
  <1>4. ASSUME NEW b \in Book PROVE col[b] \in Row
    <2>1. CASE state[b] = "live"
      BY <2>1, <1>3
    <2>2. CASE state[b] # "live"
      BY <2>2, <1>1, <1>2
    <2>. QED  BY <2>1, <2>2
  <1>5. col \in [Book -> Row]
    BY <1>1, <1>4
  <1>6. TypeOK
    BY <1>5 DEF Init, TypeOK
  <1>7. TagsKnown
    BY <1>3 DEF Init, TagsKnown
  <1>. QED  BY <1>6, <1>7 DEF TypeInv

(* A row b overwritten with a good row keeps the invariant. *)
LEMMA OneRow ==
    ASSUME TypeInv, NEW b \in Book, NEW r \in Row,
           r["author"] \in Value, r["genre"] \in Value,
           Write({b}), col' = [col EXCEPT ![b] = r],
           NEW s \in {"live", "deleted"}, state' = [state EXCEPT ![b] = s]
    PROVE  TypeInv'
  <1>1. TypeOK'
    BY DEF TypeInv, TypeOK, Write, clientVars
  <1>2. TagsKnown'
    BY DEF TypeInv, TypeOK, TagsKnown
  <1>. QED  BY <1>1, <1>2 DEF TypeInv

LEMMA NowNat == ASSUME TypeOK PROVE Now \in Nat
  BY BoundAssumption DEF TypeOK, Now

LEMMA TypeNext == TypeInv /\ [Next]_vars => TypeInv'
  <1>. SUFFICES ASSUME TypeInv, [Next]_vars PROVE TypeInv'
    OBVIOUS
  <1>. USE DEF TypeInv
  <1>0. Now \in Nat
    BY NowNat
  <1>1. ASSUME NEW b \in Book, NEW t \in Tags, Ingest(b, t) PROVE TypeInv'
    <2>. DEFINE a == IF state[b] = "absent" THEN Now ELSE col[b]["added"]
    <2>1. a \in Nat
      BY <1>0 DEF TypeOK, Row, Column
    <2>. DEFINE r == Stamped(t, a, Now)
    <2>2. r \in Row /\ r["author"] = t.author /\ r["genre"] = t.genre
      BY <1>0, <2>1, StampedRow
    <2>3. t.author \in Value /\ t.genre \in Value
      BY TagValues
    <2>4. Write({b}) /\ col' = [col EXCEPT ![b] = r] /\ state' = [state EXCEPT ![b] = "live"]
      BY <1>1 DEF Ingest
    <2>. HIDE DEF r
    <2>. QED  BY <2>2, <2>3, <2>4, OneRow
  <1>2. ASSUME NEW b \in Book, NEW t \in Tags, Enrich(b, t) PROVE TypeInv'
    <2>1. col[b]["added"] \in Nat
      BY DEF TypeOK, Row, Column
    <2>. DEFINE r == Stamped(t, col[b]["added"], Now)
    <2>2. r \in Row /\ r["author"] = t.author /\ r["genre"] = t.genre
      BY <1>0, <2>1, StampedRow
    <2>3. t.author \in Value /\ t.genre \in Value
      BY TagValues
    <2>4. Write({b}) /\ col' = [col EXCEPT ![b] = r]
      BY <1>2 DEF Enrich
    <2>5. state[b] \in {"live", "deleted"} /\ state' = [state EXCEPT ![b] = state[b]]
      BY <1>2 DEF Enrich, TypeOK
    <2>. HIDE DEF r
    <2>. QED  BY <2>2, <2>3, <2>4, <2>5, OneRow
  <1>3. ASSUME NEW b \in Book, SoftDelete(b) PROVE TypeInv'
    <2>. DEFINE r == [col[b] EXCEPT !["updated"] = Now]
    <2>1. col[b] \in Row
      BY DEF TypeOK
    <2>2. r \in Row /\ r["author"] = col[b]["author"] /\ r["genre"] = col[b]["genre"]
      BY <1>0, <2>1 DEF Row, Column
    <2>3. col[b]["author"] \in Value /\ col[b]["genre"] \in Value
      BY <1>3 DEF SoftDelete, TagsKnown
    <2>4. Write({b}) /\ col' = [col EXCEPT ![b] = r] /\ state' = [state EXCEPT ![b] = "deleted"]
      BY <1>3 DEF SoftDelete
    <2>. HIDE DEF r
    <2>. QED  BY <2>2, <2>3, <2>4, OneRow
  <1>4. ASSUME NEW l \in Lib, DeleteLibraryPath(l) PROVE TypeInv'
    <2>1. Blank \in Row
      BY DEF Blank, Row
    <2>2. TypeOK'
      BY <1>4, <2>1 DEF DeleteLibraryPath, Write, TypeOK, clientVars
    <2>3. TagsKnown'
      BY <1>4 DEF DeleteLibraryPath, TagsKnown, TypeOK
    <2>. QED  BY <2>2, <2>3
  <1>5. CASE ListPage
    <2>1. TagsKnown'
      BY <1>5 DEF ListPage, rowVars, TagsKnown
    <2>2. times' \in [Book -> 0..2]
      BY <1>5 DEF ListPage, TypeOK, Once
    <2>3. phase' \in {"new", "paging", "done"}
      BY <1>5 DEF ListPage
    <2>4. cursor' \in [val : Nat, id : Nat] \cup {NoCursor}
      <3>1. ASSUME NEW b \in Rest PROVE EncodeCursor(b) \in [val : Nat, id : Nat]
        BY BookAssumption DEF EncodeCursor, ResolveSort, TypeOK, Row, Column, Rest
      <3>. QED  BY <1>5, <3>1 DEF ListPage, TypeOK
    <2>. QED  BY <1>5, <2>1, <2>2, <2>3, <2>4 DEF ListPage, rowVars, TypeOK
  <1>6. CASE FacetPage
    <2>1. TagsKnown'
      BY <1>6 DEF FacetPage, rowVars, TagsKnown
    <2>2. listed' \in [Value -> 0..2]
      BY <1>6 DEF FacetPage, TypeOK, Once
    <2>3. phase' \in {"new", "paging", "done"}
      BY <1>6 DEF FacetPage
    <2>4. cursor' \in [val : Nat, id : Nat] \cup {NoCursor}
      <3>1. FacetRest \subseteq Nat
        BY <1>6 DEF FacetRest, FacetPage, IsFacet, Facet, TypeOK, Row, Column
      <3>. QED  BY <1>6, <3>1 DEF FacetPage, TypeOK
    <2>. QED  BY <1>6, <2>1, <2>2, <2>3, <2>4 DEF FacetPage, rowVars, TypeOK
  <1>7. CASE NewRequest
    BY <1>7 DEF NewRequest, rowVars, TypeOK, TagsKnown
  <1>8. CASE UNCHANGED vars
    BY <1>8 DEF vars, rowVars, clientVars, TypeOK, TagsKnown
  <1>. QED  BY <1>1, <1>2, <1>3, <1>4, <1>5, <1>6, <1>7, <1>8 DEF Next, Page

(* Every reachable state is of the right type. *)
THEOREM PagingTypeCorrect == Spec => []TypeOK
  <1>1. TypeInv => TypeOK
    BY DEF TypeInv
  <1>. QED  BY <1>1, TypeInit, TypeNext, PTL DEF Spec

-----------------------------------------------------------------------------
(* Lists and searches *)

(* Before the first page nothing is settled; from then on the cursor alone   *)
(* decides which untouched books were on a page.                             *)
ListInv ==
    /\ phase = "new" => cursor = NoCursor /\ touched = {}
    /\ Sound /\ ~IsFacet =>
          \A b \in Book \ touched :
              /\ times[b] = IF Selected(b) /\ ~KeysetClause(b) THEN 1 ELSE 0
              /\ phase = "done" /\ Selected(b) => ~KeysetClause(b)

(* The order of a page is a strict total order. *)
LEMMA ColNat ==
    ASSUME TypeInv, NEW b \in Book
    PROVE  col[b][OrderCol] \in Nat /\ b \in Nat
  BY BookAssumption DEF TypeInv, TypeOK, Row, Column, OrderCol, ResolveSort

(* The keyset predicate of the cursor taken from a row selects what comes    *)
(* after that row.                                                           *)
LEMMA KeysetIsOrder ==
    ASSUME TypeInv, Sound, ~IsFacet, NEW last \in Book, NEW b \in Book,
           cursor' = EncodeCursor(last), UNCHANGED <<req, col>>
    PROVE  KeysetClause(b)' <=> Before(last, b)
  <1>1. OrderCol = ResolveSort(req.sort)
    BY DEF Sound, OrderCol
  <1>2. cursor' = [val |-> col[last][OrderCol], id |-> last]
    BY <1>1 DEF EncodeCursor
  <1>3. cursor' # NoCursor
    BY <1>2, ColNat, CursorAssumption
  <1>4. OrderCol' = OrderCol /\ (Desc' <=> Desc)
    BY DEF OrderCol, Desc
  <1>. QED  BY <1>2, <1>3, <1>4, ColNat DEF KeysetClause, Before

(* Rows behind the cursor are behind every row still to come. *)
LEMMA CursorSplits ==
    ASSUME TypeInv, NEW b \in Book, NEW c \in Book,
           ~KeysetClause(b), KeysetClause(c)
    PROVE  Before(b, c) /\ ~Before(c, b)
  <1>1. cursor # NoCursor /\ cursor.val \in Nat /\ cursor.id \in Nat
    BY DEF KeysetClause, TypeInv, TypeOK
  <1>. QED  BY <1>1, ColNat DEF KeysetClause, Before

LEMMA BeforeAsymmetric ==
    ASSUME TypeInv, NEW b \in Book, NEW c \in Book, Before(b, c)
    PROVE  ~Before(c, b)
  BY ColNat DEF Before

LEMMA BeforeIrreflexive ==
    ASSUME TypeInv, NEW b \in Book
    PROVE  ~Before(b, b)
  BY ColNat DEF Before

(* A page has room for at least one row. *)
LEMMA LimitPositive == ASSUME TypeInv PROVE Limit \in Nat /\ Limit > 0
  <1>1. req.limit \in Int
    BY RequestAssumption DEF TypeInv, TypeOK
  <1>2. /\ DefaultLimit \in Nat /\ DefaultLimit > 0
        /\ FacetLimit \in Nat /\ FacetLimit > 0
        /\ LimitCap \in Nat /\ LimitCap > 0
    BY LimitAssumption
  <1>3. ASSUME NEW d \in Nat, d > 0
        PROVE  ParseLimit(req.limit, d) \in Nat /\ ParseLimit(req.limit, d) > 0
    BY <1>1, <1>2, <1>3 DEF ParseLimit
  <1>4. CASE IsFacet
    BY <1>2, <1>3, <1>4 DEF Limit
  <1>5. CASE ~IsFacet
    BY <1>2, <1>3, <1>5 DEF Limit
  <1>. QED  BY <1>4, <1>5

LEMMA ListInit == Init => ListInv
  BY DEF Init, ListInv, KeysetClause

(* A write leaves the untouched rows and the client alone. *)
LEMMA ListWrite ==
    ASSUME TypeInv, ListInv, NEW S \in SUBSET Book, Write(S),
           \A b \in Book \ S : state'[b] = state[b] /\ col'[b] = col[b]
    PROVE  ListInv'
  <1>1. UNCHANGED <<phase, req, cursor, times>>
    BY DEF Write, clientVars
  <1>2. Sound' = Sound /\ IsFacet' = IsFacet
    BY <1>1 DEF Sound, IsFacet
  <1>3. CASE phase = "new"
    <2>1. touched = {} /\ touched' = {} /\ cursor = NoCursor
      BY <1>3 DEF ListInv, Write
    <2>2. \A b \in Book : KeysetClause(b) /\ KeysetClause(b)'
      BY <2>1, <1>1 DEF KeysetClause
    <2>3. Sound /\ ~IsFacet => \A b \in Book : times[b] = 0
      BY <2>1, <2>2 DEF ListInv
    <2>. QED  BY <1>1, <1>2, <1>3, <2>1, <2>2, <2>3 DEF ListInv
  <1>4. CASE phase # "new"
    <2>1. touched' = touched \cup S
      BY <1>4 DEF Write
    <2>2. ASSUME NEW b \in Book \ touched'
          PROVE  /\ b \in Book \ touched
                 /\ Selected(b)' = Selected(b) /\ KeysetClause(b)' = KeysetClause(b)
      <3>1. b \in Book \ S /\ b \in Book \ touched
        BY <2>1
      <3>2. state'[b] = state[b] /\ col'[b] = col[b]
        BY <3>1
      <3>. QED  BY <1>1, <3>1, <3>2 DEF Selected, KeysetClause, OrderCol, Desc, IsFacet
    <2>. QED  BY <1>1, <1>2, <1>4, <2>2 DEF ListInv
  <1>. QED  BY <1>3, <1>4

LEMMA ListListPage == ASSUME TypeInv, ListInv, ListPage PROVE ListInv'
  <1>1. PICK P \in SUBSET Rest :
          /\ FirstOf(Rest, Limit, P)
          /\ \A b \in P, c \in Rest \ P : Before(b, c)
          /\ times' = [b \in Book |-> IF b \in P THEN Once(times[b]) ELSE times[b]]
          /\ \/ P = {} /\ phase' = "done" /\ UNCHANGED cursor
             \/ \E last \in P : /\ \A b \in P \ {last} : Before(b, last)
                                /\ phase' = "paging"
                                /\ cursor' = EncodeCursor(last)
    BY DEF ListPage
  <1>2. UNCHANGED <<state, col, req, touched>> /\ ~IsFacet
    BY DEF ListPage, rowVars
  <1>3. /\ \A b \in Book : Selected(b)' = Selected(b)
        /\ Sound' = Sound /\ IsFacet' = IsFacet
    BY <1>2 DEF Selected, Sound, IsFacet
  <1>4. phase' # "new"
    BY <1>1
  <1>. SUFFICES ASSUME Sound, NEW b \in Book \ touched
                PROVE  /\ times'[b] = IF Selected(b) /\ ~KeysetClause(b)' THEN 1 ELSE 0
                       /\ phase' = "done" /\ Selected(b) => ~KeysetClause(b)'
    BY <1>2, <1>3, <1>4 DEF ListInv
  <1>5. times[b] = IF Selected(b) /\ ~KeysetClause(b) THEN 1 ELSE 0
    BY <1>2 DEF ListInv
  <1>6. b \in Rest <=> Selected(b) /\ KeysetClause(b)
    BY DEF Rest
  <1>7. CASE P = {} /\ phase' = "done" /\ UNCHANGED cursor
    <2>1. Rest = {}
      <3>1. IsFiniteSet(Rest)
        BY BookAssumption, FS_Subset DEF Rest
      <3>2. Limit > 0
        BY LimitPositive
      <3>3. Cardinality({}) = 0 /\ (Cardinality(Rest) = 0 <=> Rest = {})
        BY <3>1, FS_EmptySet
      <3>4. Cardinality(Rest) \in Nat
        BY <3>1, FS_CardinalityType
      <3>. QED  BY <1>1, <1>7, <3>2, <3>3, <3>4 DEF FirstOf
    <2>2. times'[b] = times[b]
      BY <1>1, <1>7
    <2>3. KeysetClause(b)' = KeysetClause(b)
      BY <1>2, <1>7 DEF KeysetClause, OrderCol, Desc
    <2>. QED  BY <1>5, <1>6, <2>1, <2>2, <2>3
  <1>8. ASSUME NEW last \in P, \A c \in P \ {last} : Before(c, last),
               phase' = "paging", cursor' = EncodeCursor(last)
        PROVE  times'[b] = IF Selected(b) /\ ~KeysetClause(b)' THEN 1 ELSE 0
    <2>1. last \in Book /\ last \in Rest /\ KeysetClause(last)
      BY DEF Rest
    <2>2. KeysetClause(b)' <=> Before(last, b)
      BY <1>2, <1>8, <2>1, KeysetIsOrder
    <2>3. CASE b \in P
      <3>1. ~Before(last, b)
        BY <1>8, <2>1, <2>3, BeforeAsymmetric, BeforeIrreflexive
      <3>2. times[b] = 0 /\ Selected(b)
        BY <1>5, <1>6, <2>3
      <3>. QED  BY <1>1, <2>2, <2>3, <3>1, <3>2 DEF Once
    <2>4. CASE b \in Rest \ P
      <3>1. Before(last, b)
        BY <1>1, <2>4
      <3>. QED  BY <1>1, <1>5, <1>6, <2>2, <2>4, <3>1
    <2>5. CASE b \notin Rest
      <3>1. times'[b] = times[b]
        BY <1>1, <2>5
      <3>2. CASE ~Selected(b)
        BY <1>5, <3>1, <3>2
      <3>3. CASE Selected(b)
        <4>1. ~KeysetClause(b)
          BY <1>6, <2>5, <3>3
        <4>2. ~Before(last, b)
          BY <2>1, <4>1, CursorSplits
        <4>. QED  BY <1>5, <2>2, <3>1, <3>3, <4>1, <4>2
      <3>. QED  BY <3>2, <3>3
    <2>. QED  BY <2>3, <2>4, <2>5
  <1>. QED  BY <1>1, <1>7, <1>8

LEMMA ListNext == TypeInv /\ ListInv /\ [Next]_vars => ListInv'
  <1>. SUFFICES ASSUME TypeInv, ListInv, [Next]_vars PROVE ListInv'
    OBVIOUS
  <1>1. ASSUME NEW b \in Book, NEW t \in Tags, Ingest(b, t) PROVE ListInv'
    <2>1. /\ Write({b})
          /\ \A c \in Book \ {b} : state'[c] = state[c] /\ col'[c] = col[c]
      BY <1>1 DEF Ingest, TypeInv, TypeOK
    <2>. QED  BY <2>1, ListWrite
  <1>2. ASSUME NEW b \in Book, NEW t \in Tags, Enrich(b, t) PROVE ListInv'
    <2>1. /\ Write({b})
          /\ \A c \in Book \ {b} : state'[c] = state[c] /\ col'[c] = col[c]
      BY <1>2 DEF Enrich, TypeInv, TypeOK
    <2>. QED  BY <2>1, ListWrite
  <1>3. ASSUME NEW b \in Book, SoftDelete(b) PROVE ListInv'
    <2>1. /\ Write({b})
          /\ \A c \in Book \ {b} : state'[c] = state[c] /\ col'[c] = col[c]
      BY <1>3 DEF SoftDelete, TypeInv, TypeOK
    <2>. QED  BY <2>1, ListWrite
  <1>4. ASSUME NEW l \in Lib, DeleteLibraryPath(l) PROVE ListInv'
    <2>. DEFINE S == {b \in Book : LibOf[b] = l}
    <2>1. /\ Write(S)
          /\ \A c \in Book \ S : state'[c] = state[c] /\ col'[c] = col[c]
      BY <1>4 DEF DeleteLibraryPath, TypeInv, TypeOK
    <2>. QED  BY <2>1, ListWrite
  <1>5. CASE ListPage
    BY <1>5, ListListPage
  <1>6. CASE FacetPage
    BY <1>6 DEF FacetPage, rowVars, ListInv, IsFacet
  <1>7. CASE NewRequest
    BY <1>7 DEF NewRequest, ListInv, KeysetClause
  <1>8. CASE UNCHANGED vars
    BY <1>8 DEF vars, rowVars, clientVars, ListInv, Sound, IsFacet, Selected,
                KeysetClause, OrderCol, Desc
  <1>. QED  BY <1>1, <1>2, <1>3, <1>4, <1>5, <1>6, <1>7, <1>8 DEF Next, Page

(* The invariant says what the two properties ask for. *)
LEMMA ListInvImplies ==
    ASSUME TypeInv, ListInv
    PROVE  PagesArePrefix /\ Complete
  <1>1. PagesArePrefix
    <2>. SUFFICES ASSUME Sound, ~IsFacet, NEW b \in Book \ touched
                  PROVE  /\ times[b] <= 1
                         /\ times[b] = 1 => Selected(b)
                         /\ \A c \in Book \ touched :
                               times[b] = 1 /\ Selected(c) /\ Before(c, b) => times[c] = 1
      BY DEF PagesArePrefix
    <2>1. times[b] = IF Selected(b) /\ ~KeysetClause(b) THEN 1 ELSE 0
      BY DEF ListInv
    <2>2. ASSUME NEW c \in Book \ touched, times[b] = 1, Selected(c), Before(c, b)
          PROVE  times[c] = 1
      <3>1. ~KeysetClause(b)
        BY <2>1, <2>2
      <3>2. ~KeysetClause(c)
        BY <2>2, <3>1, CursorSplits, BeforeAsymmetric
      <3>. QED  BY <2>2, <3>2 DEF ListInv
    <2>. QED  BY <2>1, <2>2
  <1>2. Complete
    BY DEF Complete, ListInv
  <1>. QED  BY <1>1, <1>2

LEMMA ListInvariant == Spec => [](TypeInv /\ ListInv)
  BY TypeInit, TypeNext, ListInit, ListNext, PTL DEF Spec

(* The pages so far are a prefix of the requested order among the books      *)
(* nobody touched, for every catalog and every page size.                    *)
THEOREM PagesStayPrefix == Spec => []PagesArePrefix
  BY ListInvariant, ListInvImplies, PTL

(* A client that came to the last page saw every untouched book once.        *)
THEOREM PagingComplete == Spec => []Complete
  BY ListInvariant, ListInvImplies, PTL

-----------------------------------------------------------------------------
(* Authors and genres *)

Ahead(v) == cursor = NoCursor \/ v > cursor.val

(* What is listed is behind the cursor, and of the untouched books all that  *)
(* is behind the cursor is listed.                                           *)
FacetInv ==
    IsFacet =>
        /\ \A v \in Value : listed[v] <= 1 /\ (listed[v] = 1 => ~Ahead(v))
        /\ \A b \in Book \ touched : Selected(b) =>
              /\ ~Ahead(col[b][req.op]) => listed[col[b][req.op]] = 1
              /\ phase = "done" => ~Ahead(col[b][req.op])

LEMMA FacetValue ==
    ASSUME TypeInv, IsFacet, NEW b \in Book, Selected(b)
    PROVE  col[b][req.op] \in Value /\ col[b][req.op] \in Nat
  <1>1. req.op \in {"author", "genre"} /\ state[b] = "live"
    BY DEF IsFacet, Facet, Selected
  <1>2. col[b]["author"] \in Value /\ col[b]["genre"] \in Value
    BY <1>1 DEF TypeInv, TagsKnown
  <1>. QED  BY <1>1, <1>2, ValueNat

LEMMA FacetInit == Init => FacetInv
  BY DEF Init, FacetInv, Ahead

LEMMA FacetWrite ==
    ASSUME TypeInv, ListInv, FacetInv, NEW S \in SUBSET Book, Write(S),
           \A b \in Book \ S : state'[b] = state[b] /\ col'[b] = col[b]
    PROVE  FacetInv'
  <1>1. UNCHANGED <<phase, req, cursor, listed>>
    BY DEF Write, clientVars
  <1>2. IsFacet' = IsFacet /\ \A v \in Nat : Ahead(v)' = Ahead(v)
    BY <1>1 DEF IsFacet, Ahead
  <1>3. CASE phase = "new"
    <2>1. cursor = NoCursor
      BY <1>3 DEF ListInv
    <2>. QED  BY <1>1, <1>3, <2>1 DEF FacetInv, IsFacet, Ahead
  <1>4. CASE phase # "new"
    <2>1. touched' = touched \cup S
      BY <1>4 DEF Write
    <2>2. ASSUME NEW b \in Book \ touched'
          PROVE  b \in Book \ touched /\ col'[b] = col[b] /\ Selected(b)' = Selected(b)
      <3>1. b \in Book \ S /\ b \in Book \ touched
        BY <2>1
      <3>2. state'[b] = state[b] /\ col'[b] = col[b]
        BY <3>1
      <3>. QED  BY <1>1, <3>1, <3>2 DEF Selected, IsFacet
    <2>. QED  BY <1>1, <2>2 DEF FacetInv, IsFacet, Ahead
  <1>. QED  BY <1>3, <1>4

LEMMA FacetFacetPage == ASSUME TypeInv, FacetInv, FacetPage PROVE FacetInv'
  <1>1. PICK P \in SUBSET FacetRest :
          /\ FirstOf(FacetRest, Limit, P)
          /\ \A v \in P, w \in FacetRest \ P : v < w
          /\ listed' = [v \in Value |-> IF v \in P THEN Once(listed[v]) ELSE listed[v]]
          /\ \/ P = {} /\ phase' = "done" /\ UNCHANGED cursor
             \/ \E last \in P : /\ \A v \in P : v <= last
                                /\ phase' = "paging"
                                /\ cursor' = [val |-> last, id |-> 0]
    BY DEF FacetPage
  <1>2. UNCHANGED <<state, col, req, touched>> /\ IsFacet /\ IsFacet'
    BY DEF FacetPage, rowVars, IsFacet
  <1>3. \A b \in Book : Selected(b)' = Selected(b)
    BY <1>2 DEF Selected, IsFacet
  <1>4. FacetRest = {col[b][req.op] : b \in {c \in Book : Selected(c) /\ Ahead(col[c][req.op])}}
    BY DEF FacetRest, Ahead
  <1>5. FacetRest \subseteq Value /\ FacetRest \subseteq Nat /\ \A v \in FacetRest : Ahead(v)
    BY <1>2, <1>4, FacetValue
  <1>6. cursor # NoCursor => cursor.val \in Nat
    BY DEF TypeInv, TypeOK
  <1>7. CASE P = {} /\ phase' = "done" /\ UNCHANGED cursor
    <2>1. FacetRest = {}
      <3>1. IsFiniteSet(FacetRest)
        <4>. DEFINE B == {c \in Book : Selected(c) /\ Ahead(col[c][req.op])}
                    f(b) == col[b][req.op]
        <4>1. IsFiniteSet(B)
          BY BookAssumption, FS_Subset
        <4>2. FacetRest = {f(b) : b \in B}
          BY <1>4
        <4>. HIDE DEF B
        <4>3. IsFiniteSet({f(b) : b \in B})
          <5>. DEFINE g == [b \in B |-> f(b)]
          <5>1. g \in Surjection(B, {f(b) : b \in B})
            BY DEF Surjection
          <5>. QED  BY <4>1, <5>1, FS_Surjection
        <4>. QED  BY <4>2, <4>3
      <3>2. Cardinality({}) = 0 /\ (Cardinality(FacetRest) = 0 <=> FacetRest = {})
        BY <3>1, FS_EmptySet
      <3>3. Cardinality(FacetRest) \in Nat
        BY <3>1, FS_CardinalityType
      <3>. QED  BY <1>1, <1>7, <3>2, <3>3, LimitPositive DEF FirstOf
    <2>2. listed' = [v \in Value |-> listed[v]] /\ listed \in [Value -> 0..2]
      BY <1>1, <1>7 DEF TypeInv, TypeOK
    <2>3. listed' = listed
      BY <2>2
    <2>4. \A b \in Book : Selected(b) => ~Ahead(col[b][req.op])
      BY <1>4, <2>1
    <2>. QED  BY <1>2, <1>3, <1>7, <2>3, <2>4 DEF FacetInv, Ahead
  <1>8. ASSUME NEW last \in P, \A v \in P : v <= last,
               phase' = "paging", cursor' = [val |-> last, id |-> 0]
        PROVE  FacetInv'
    <2>1. last \in Nat /\ last \in Value /\ Ahead(last)
      BY <1>5
    <2>2. \A v \in Nat : Ahead(v)' <=> v > last
      BY <1>8, <2>1, CursorAssumption DEF Ahead
    <2>3. \A v \in Nat : ~Ahead(v) => v < last
      BY <1>6, <2>1 DEF Ahead
    <2>4. ASSUME NEW v \in Value
          PROVE  listed'[v] <= 1 /\ (listed'[v] = 1 => ~Ahead(v)')
      <3>1. v \in Nat /\ listed[v] \in 0..2
        BY ValueNat DEF TypeInv, TypeOK
      <3>2. listed[v] <= 1 /\ (listed[v] = 1 => ~Ahead(v))
        BY <1>2 DEF FacetInv
      <3>3. CASE v \in P
        <4>1. listed[v] = 0
          BY <1>5, <3>1, <3>2, <3>3
        <4>2. listed'[v] = 1
          BY <1>1, <3>3, <4>1 DEF Once
        <4>. QED  BY <1>8, <2>2, <3>1, <3>3, <4>2, <2>1
      <3>4. CASE v \notin P
        <4>1. listed'[v] = listed[v]
          BY <1>1, <3>4
        <4>. QED  BY <2>1, <2>2, <2>3, <3>1, <3>2, <4>1
      <3>. QED  BY <3>3, <3>4
    <2>5. ASSUME NEW b \in Book \ touched, Selected(b), ~Ahead(col[b][req.op])'
          PROVE  listed'[col[b][req.op]] = 1
      <3>. DEFINE v == col[b][req.op]
      <3>1. v \in Value /\ v \in Nat
        BY <1>2, <2>5, FacetValue
      <3>2. v <= last
        BY <1>2, <2>1, <2>2, <2>5, <3>1
      <3>3. CASE Ahead(v)
        <4>1. v \in FacetRest
          BY <1>4, <2>5, <3>3
        <4>2. v \in P
          BY <1>1, <1>8, <2>1, <3>1, <3>2, <4>1
        <4>3. listed[v] # 1 /\ listed[v] <= 1 /\ listed[v] \in 0..2
          BY <1>2, <3>1, <3>3 DEF FacetInv, TypeInv, TypeOK
        <4>. QED  BY <1>1, <3>1, <4>2, <4>3 DEF Once
      <3>4. CASE ~Ahead(v)
        <4>1. listed[v] = 1
          BY <1>2, <2>5, <3>4 DEF FacetInv
        <4>2. v \notin P
          BY <1>5, <3>4
        <4>. QED  BY <1>1, <3>1, <4>1, <4>2
      <3>. QED  BY <3>3, <3>4
    <2>. QED  BY <1>2, <1>3, <1>8, <2>4, <2>5 DEF FacetInv
  <1>. QED  BY <1>1, <1>7, <1>8

LEMMA FacetNext == TypeInv /\ ListInv /\ FacetInv /\ [Next]_vars => FacetInv'
  <1>. SUFFICES ASSUME TypeInv, ListInv, FacetInv, [Next]_vars PROVE FacetInv'
    OBVIOUS
  <1>1. ASSUME NEW b \in Book, NEW t \in Tags, Ingest(b, t) PROVE FacetInv'
    <2>1. /\ Write({b})
          /\ \A c \in Book \ {b} : state'[c] = state[c] /\ col'[c] = col[c]
      BY <1>1 DEF Ingest, TypeInv, TypeOK
    <2>. QED  BY <2>1, FacetWrite
  <1>2. ASSUME NEW b \in Book, NEW t \in Tags, Enrich(b, t) PROVE FacetInv'
    <2>1. /\ Write({b})
          /\ \A c \in Book \ {b} : state'[c] = state[c] /\ col'[c] = col[c]
      BY <1>2 DEF Enrich, TypeInv, TypeOK
    <2>. QED  BY <2>1, FacetWrite
  <1>3. ASSUME NEW b \in Book, SoftDelete(b) PROVE FacetInv'
    <2>1. /\ Write({b})
          /\ \A c \in Book \ {b} : state'[c] = state[c] /\ col'[c] = col[c]
      BY <1>3 DEF SoftDelete, TypeInv, TypeOK
    <2>. QED  BY <2>1, FacetWrite
  <1>4. ASSUME NEW l \in Lib, DeleteLibraryPath(l) PROVE FacetInv'
    <2>. DEFINE S == {b \in Book : LibOf[b] = l}
    <2>1. /\ Write(S)
          /\ \A c \in Book \ S : state'[c] = state[c] /\ col'[c] = col[c]
      BY <1>4 DEF DeleteLibraryPath, TypeInv, TypeOK
    <2>. QED  BY <2>1, FacetWrite
  <1>5. CASE ListPage
    BY <1>5 DEF ListPage, rowVars, FacetInv, IsFacet
  <1>6. CASE FacetPage
    BY <1>6, FacetFacetPage
  <1>7. CASE NewRequest
    BY <1>7 DEF NewRequest, FacetInv, Ahead
  <1>8. CASE UNCHANGED vars
    BY <1>8 DEF vars, rowVars, clientVars, FacetInv, Ahead, IsFacet, Selected
  <1>. QED  BY <1>1, <1>2, <1>3, <1>4, <1>5, <1>6, <1>7, <1>8 DEF Next, Page

(* No name is listed twice, and none that an untouched book has is missing.  *)
THEOREM FacetsStayOnce == Spec => []FacetsOnce
  <1>1. FacetInv => FacetsOnce
    BY DEF FacetInv, FacetsOnce
  <1>. QED  BY <1>1, TypeInit, TypeNext, ListInit, ListNext, FacetInit, FacetNext,
               PTL DEF Spec

=============================================================================
