-------------------------- MODULE MCMetadataSearch --------------------------
(***************************************************************************)
(* A small instance of MetadataSearch for TLC: a source whose answers      *)
(* change and one, a scraper, that finds the same candidate all the time.  *)
(***************************************************************************)
EXTENDS MetadataSearch, TLC

CONSTANTS c1, c2, a1, a2, b1

Features(source, native, title, asin, fields) ==
    [source |-> source, native |-> native, title |-> title, matched |-> 1,
     words |-> 3, asin |-> asin, author |-> FALSE, isbn |-> FALSE,
     narrator |-> FALSE, fields |-> fields]

TwoSources == {"a", "b"}
OneScraped == {"b"}
Symbols == TwoSources \cup {":", "x", "y", "z"}
Candidates == {a1, a2, b1}
InfoOf == (a1 :> Features("a", <<"x", ":", "y">>, "words", FALSE, 4))
       @@ (a2 :> Features("a", <<"z">>, "none", TRUE, 2))
       @@ (b1 :> Features("b", <<>>, "equal", FALSE, 9))
AnswersOf == [a |-> {<<>>, <<a1, a2>>}, b |-> {<<b1>>}]

TwoClients == {c1, c2}
Enabled == (c1 :> {{"a", "b"}}) @@ (c2 :> {{"a"}})
=============================================================================
