--------------------------- MODULE MCCatalogPaging ---------------------------
(***************************************************************************)
(* Small instances of CatalogPaging for TLC: three books of two libraries, *)
(* pages of one or two.  Two titles and an author that are told apart, and *)
(* an empty author and genre.                                              *)
(***************************************************************************)
EXTENDS CatalogPaging

ThreeBooks == 1..3
TwoLibs == {1, 2}
LibOfBook == [b \in ThreeBooks |-> IF b = 3 THEN 2 ELSE 1]

T(title, author, genre) == [title |-> title, author |-> author, genre |-> genre]
FewTags == {T(1, 2, 0), T(2, 1, 1), T(1, 0, 2)}
Found == {2}

R(op, sort, desc, limit, lib) ==
    [op |-> op, sort |-> sort, desc |-> desc, limit |-> limit, lib |-> lib]

(* Every sort, both directions, pages of one and of the default two, a limit *)
(* above the cap, one library; the search without a sort parameter; names.   *)
Requests ==
    {R("list", "", FALSE, 1, 0), R("list", "author", TRUE, 1, 0),
     R("list", "updated", FALSE, 1, 0), R("list", "updated", TRUE, 1, 0),
     R("list", "title", FALSE, 0, 1), R("list", "added", TRUE, 9, 0),
     R("search", "", TRUE, 1, 0),
     R("author", "", FALSE, 1, 0), R("genre", "", FALSE, 0, 1)}
SortedSearch == {R("search", "author", FALSE, 1, 0)}
=============================================================================
