-------------------------- MODULE MCSourceLookup --------------------------
(***************************************************************************)
(* A small instance of SourceLookup for TLC: pages nest their books in      *)
(* several ways, around a depth limit of two.                              *)
(***************************************************************************)
EXTENDS SourceLookup, TLC

List == [kind |-> "list", fields |-> {}, strings |-> {}]
Plain(fields) == [kind |-> "map", fields |-> fields, strings |-> fields]
Leaf == [kind |-> "leaf", fields |-> {}, strings |-> {}]
Numbered == [kind |-> "map", fields |-> {"title", "id", "bookId"},
             strings |-> {"title"}]
Untitled == [kind |-> "map", fields |-> {"title", "authors"},
             strings |-> {"authors"}]
Book == Plain({"title", "authors", "id", "bookId", "cover", "coverUrl"})

(* A list of three books in a map, next to a book that holds another one. *)
Shelf ==
    (<<>> :> Plain({})) @@ (<<1>> :> List) @@ (<<1, 1>> :> Book)
    @@ (<<1, 2>> :> Numbered) @@ (<<1, 3>> :> Book)
    @@ (<<2>> :> Book) @@ (<<2, 1>> :> Book)
(* Books at and below the depth limit, one without a title, a leaf. *)
Deep ==
    (<<>> :> List) @@ (<<1>> :> Leaf) @@ (<<2>> :> Plain({})) @@ (<<3>> :> Untitled)
    @@ (<<2, 1>> :> Book) @@ (<<2, 2>> :> Plain({}))
    @@ (<<2, 2, 1>> :> Book)
(* A record for Storytel, for the others a map that holds a record. *)
Foreign ==
    (<<>> :> Plain({"title", "consumableId"})) @@ (<<1>> :> Book)
NoState == [p \in {} |-> Leaf]
Trees == {Shelf, Deep, Foreign, NoState}
=============================================================================
