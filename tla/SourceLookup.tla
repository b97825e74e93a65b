---------------------------- MODULE SourceLookup ----------------------------
(***************************************************************************)
(* One lookup at an upstream source: the caller's question, the requests   *)
(* the source's adapter makes, what it reads out of the responses, and     *)
(* what the caller makes of the result.  Adapters have no state, so that   *)
(* lookups do not meet and one at a time is enough.                        *)
(*                                                                         *)
(* A response is lost, is a 404, or has a body.  The body of an API is a   *)
(* sequence of candidates, or does not decode; the body of a scraped page  *)
(* is its JSON-LD, if any, and the tree of its embedded state.             *)
(***************************************************************************)
EXTENDS Naturals, Sequences, FiniteSets

CONSTANTS
    Tree,               \* embedded states of pages, see TreeAssumption
    BookPaths,          \* how many paths BookBeat has for a book
    MaxTraverseDepth,
    MaxBooks,           \* the most candidates taken from a page
    MaxItems            \* bound: candidates in an API's body

Scraper == {"storytel", "bookbeat", "audioteka"}
Registered == Scraper \cup {"audnexus", "audimeta", "audiobookcovers", "itunes"}
Source == Registered \cup {"unknown"}

(* A question has the shape of an ASIN, is blank, or is any other text. *)
Key == {"asin", "text", "blank"}
Caller == {"search", "enrich", "item", "images"}
Request == {"book", "chapters", "authors", "search"}

(* Of a candidate: whether it has an id of its own, and a cover. *)
Candidate == [id : BOOLEAN, cover : BOOLEAN]
Upto(n, S) == UNION {[1..i -> S] : i \in 0..n}

Field == {"title", "id", "bookId", "consumableId", "authors", "narrators",
          "duration", "cover", "coverUrl", "isbn"}
(* A map has fields; strings are those whose value is a non-empty string (a   *)
(* cover object counts, if it has one).                                      *)
Node == [kind : {"list", "map", "leaf"}, fields : SUBSET Field,
         strings : SUBSET Field]
Within(p, q) == Len(p) < Len(q) /\ SubSeq(q, 1, Len(p)) = p
Width(tree, p) == Cardinality({q \in DOMAIN tree :
                                  Within(p, q) /\ Len(q) = Len(p) + 1})

(* A tree gives every path a node; the children of p are p.1, p.2, ..., and a *)
(* leaf has none.  No path at all: the page has no embedded state.           *)
ASSUME TreeAssumption ==
    \A t \in Tree :
        /\ DOMAIN t \subseteq Seq(Nat) /\ IsFiniteSet(DOMAIN t)
        /\ \A p \in DOMAIN t :
               /\ t[p] \in Node /\ t[p].strings \subseteq t[p].fields
               /\ \A i \in DOMAIN p : SubSeq(p, 1, i - 1) \in DOMAIN t
               /\ \A i \in 1..Width(t, p) : Append(p, i) \in DOMAIN t
               /\ t[p].kind = "leaf" => Width(t, p) = 0
ASSUME SizeAssumption ==
    /\ BookPaths \in Nat \ {0} /\ MaxTraverseDepth \in Nat
    /\ MaxBooks \in Nat \ {0} /\ MaxItems \in Nat

Failure == [what : {"404", "lost"}]
Json(n) == [what : {"ok"}, items : n] \cup [what : {"undecodable"}]
Page == [what : {"ok"}, ld : Upto(1, Candidate), tree : Tree]
NoPage == [what |-> "none"]

VARIABLES
    call,     \* the question: who asks whom, Get or Search, for what
    at,       \* idle, ask (a request is under way), walk (a page is read), got
    req,      \* the request under way
    left,     \* requests of this kind left, this one included
    page,     \* the page being read
    stack,    \* what traverse has still to visit, the next first
    out,      \* paths of the books traverse has found
    cands,    \* the candidates so far
    err,      \* the adapter's error: none, notfound or other
    effect,   \* what the caller made of it: found, absent or failed
    heard     \* history: the responses to this question, in order

vars == <<call, at, req, left, page, stack, out, cands, err, effect, heard>>
walkVars == <<page, stack, out>>

TypeOK ==
    /\ call \in [caller : Caller, src : Source, op : {"Get", "Search", "none"},
                 key : Key \cup {""}]
    /\ at \in {"idle", "ask", "walk", "got"}
    /\ req \in Request /\ left \in 0..(BookPaths + MaxItems)
    /\ page = NoPage \/ page \in Page
    /\ stack \in Seq([path : Seq(Nat), depth : 0..(MaxTraverseDepth + 1)])
    /\ out \in Seq(Seq(Nat)) /\ cands \in Seq(Candidate)
    /\ err \in {"none", "notfound", "other"}
    /\ effect \in {"none", "found", "absent", "failed"}
    /\ heard \in Seq([req : Request, what : {"ok", "404", "lost", "undecodable"}])
    /\ at = "ask" => left > 0
    /\ at = "got" /\ call.op = "Get" => Len(cands) <= 1
    /\ at = "got" /\ call.src \in Scraper => Len(cands) <= MaxBooks

Init ==
    /\ call = [caller |-> "search", src |-> "storytel", op |-> "none", key |-> ""]
    /\ at = "idle" /\ req = "book" /\ left = 0
    /\ page = NoPage /\ stack = <<>> /\ out = <<>>
    /\ cands = <<>> /\ err = "none" /\ effect = "none" /\ heard = <<>>

-----------------------------------------------------------------------------
(* Questions *)

(* What an adapter answers with nil, nil before any request. *)
Refuses(s, op, k) ==
    CASE s \in Scraper           -> k \in {"asin", "blank"}
      [] s = "itunes"            -> k = "asin"
      [] s = "audiobookcovers"   -> k # "asin"
      [] s = "audimeta"          -> op = "Get" /\ k # "asin"
      [] OTHER                   -> IF op = "Get" THEN k # "asin" ELSE k = "blank"

Return(e, cs) ==
    /\ at' = "got" /\ err' = e /\ cands' = cs /\ left' = 0
    /\ UNCHANGED <<req, walkVars>>
Ask(q, n, cs) ==
    /\ at' = "ask" /\ req' = q /\ left' = n /\ cands' = cs /\ err' = "none"

FirstRequest(s, op, k) ==
    IF op = "Get" \/ k = "asin" THEN "book"
    ELSE IF s = "audnexus" THEN "authors" ELSE "search"

(* The first request; BookBeat has a path per language for a book.           *)
Question(c, s, op, k) ==
    /\ at = "idle" /\ s \in Registered
    /\ call' = [caller |-> c, src |-> s, op |-> op, key |-> k]
    /\ effect' = "none" /\ heard' = <<>>
    /\ IF Refuses(s, op, k) THEN Return("none", <<>>)
       ELSE /\ Ask(FirstRequest(s, op, k),
                   IF s = "bookbeat" /\ op = "Get" THEN BookPaths ELSE 1, <<>>)
            /\ UNCHANGED walkVars

(* The caller fails before it asks a source. *)
NoQuestion(c, s) ==
    /\ at = "idle"
    /\ call' = [caller |-> c, src |-> s, op |-> "none", key |-> ""]
    /\ effect' = "failed" /\ heard' = <<>>
    /\ cands' = <<>> /\ err' = "none"
    /\ UNCHANGED <<at, req, left, walkVars>>

(* searchOne after a miss; only an empty query is refused, a blank one not.  *)
SearchOne(s) == \E k \in Key : Question("search", s, "Search", k)

(* process: the first identifier the row has decides, the others are not     *)
(* tried.  Title and author are trimmed, ASIN and ISBN are not.              *)
Process(s, row) ==
    IF s \notin Registered \/ row = [asin |-> "", isbn |-> "", text |-> ""]
    THEN NoQuestion("enrich", s)
    ELSE IF row.asin # "" THEN Question("enrich", s, "Get", row.asin)
    ELSE IF row.isbn # "" THEN Question("enrich", s, "Search", row.isbn)
    ELSE Question("enrich", s, "Search", row.text)

Row == [asin : Key \cup {""}, isbn : Key \cup {""}, text : {"", "asin", "text"}]

(* GetMetadata and GetImages, with an id that names source s. *)
Details(c, s) ==
    \/ s \notin Registered /\ NoQuestion(c, s)
    \/ \E k \in Key : Question(c, s, "Get", k)

-----------------------------------------------------------------------------
(* Responses *)

(* GetJSON has come back for an adapter of S. *)
Reply(S, q, r) ==
    /\ at = "ask" /\ call.src \in S /\ req = q
    /\ heard' = Append(heard, [req |-> q, what |-> r.what])
    /\ UNCHANGED <<call, effect>>

(* A Get reports ErrNotFound, a Search nothing. *)
Missing == IF call.op = "Get" THEN "notfound" ELSE "none"

(* Mutant: an outage is nothing found. *)
Failed_Swallow(r) ==
    /\ r.what \in {"404", "lost", "undecodable"}
    /\ Return(Missing, <<>>)

Failed(r) ==
    \/ r.what = "404" /\ Return(Missing, <<>>)
    \/ r.what \in {"lost", "undecodable"} /\ Return("other", <<>>)

(* A search body that is no array and has none of the four keys is an error. *)
AudiMeta(q, r) ==
    /\ Reply({"audimeta"}, q, r)
    /\ \/ Failed(r)
       \/ r.what = "ok" /\ Return("none", r.items)

AudiobookCovers(r) ==
    /\ Reply({"audiobookcovers"}, "book", r)
    /\ \/ Failed(r)
       \/ r.what = "ok" /\ IF r.items[1].cover THEN Return("none", r.items)
                           ELSE Return(Missing, <<>>)

(* ErrNotFound goes through as it is, out of Search too. *)
ITunesGet(r) ==
    /\ Reply({"itunes"}, "book", r)
    /\ \/ Failed(r)
       \/ r.what = "ok" /\ IF r.items = <<>> THEN Return("notfound", <<>>)
                           ELSE Return("none", <<r.items[1]>>)
ITunesSearch(r) ==
    /\ Reply({"itunes"}, "search", r)
    /\ \/ r.what = "404" /\ Return("notfound", <<>>)
       \/ r.what \in {"lost", "undecodable"} /\ Return("other", <<>>)
       \/ r.what = "ok" /\ Return("none", r.items)

(* Audnexus: the authors, and for every book of theirs that matches and has  *)
(* an ASIN a Get of its own, which is the book and, best effort, chapters.   *)
ByAuthor == call.op = "Search" /\ call.key # "asin"
NextBook(cs) ==
    IF left > 1 THEN Ask("book", left - 1, cs) /\ UNCHANGED walkVars
    ELSE Return("none", cs)

AudnexusAuthors(r) ==
    /\ Reply({"audnexus"}, "authors", r)
    /\ \/ Failed(r)
       \/ /\ r.what = "ok"
          /\ IF r.items = <<>> THEN Return("none", <<>>)
             ELSE Ask("book", Len(r.items), <<>>) /\ UNCHANGED walkVars

AudnexusBook(r) ==
    /\ Reply({"audnexus"}, "book", r)
    /\ \/ r.what = "ok" /\ Ask("chapters", left, cands \o r.items)
             /\ UNCHANGED walkVars
       \/ r.what # "ok" /\ IF ByAuthor THEN NextBook(cands) ELSE Failed(r)

AudnexusChapters(r) ==
    /\ Reply({"audnexus"}, "chapters", r)
    /\ IF ByAuthor THEN NextBook(cands) ELSE Return("none", cands)

-----------------------------------------------------------------------------
(* Pages *)

IsStorytelBook(m) ==
    /\ "title" \in m.fields
    /\ m.fields \cap {"consumableId", "bookId", "authors", "narrators",
                      "duration"} # {}
IsBookBeatBook(m) ==
    /\ "title" \in m.fields
    /\ m.fields \cap {"id", "bookId", "authors", "narrators", "duration",
                      "coverUrl"} # {}
IsAudiotekaBook(m) ==
    /\ "title" \in m.fields
    /\ m.fields \cap {"id", "authors", "narrators", "duration", "coverUrl",
                      "isbn"} # {}
IsBook(m) ==
    CASE call.src = "storytel" -> IsStorytelBook(m)
      [] call.src = "bookbeat" -> IsBookBeatBook(m)
      [] OTHER                 -> IsAudiotekaBook(m)

(* A number is no id: only strings are read. *)
StorytelMapToCandidate(m) ==
    [id |-> m.strings \cap {"consumableId", "bookId"} # {},
     cover |-> "cover" \in m.strings]
BookBeatMapToCandidate(m) ==
    [id |-> m.strings \cap {"id", "bookId"} # {},
     cover |-> m.strings \cap {"coverUrl", "cover"} # {}]
AudiotekaMapToCandidate(m) ==
    [id |-> "id" \in m.strings, cover |-> "coverUrl" \in m.strings]
MapToCandidate(m) ==
    CASE call.src = "storytel" -> StorytelMapToCandidate(m)
      [] call.src = "bookbeat" -> BookBeatMapToCandidate(m)
      [] OTHER                 -> AudiotekaMapToCandidate(m)

Orders(n) == {o \in [1..n -> 1..n] : \A i, j \in 1..n : o[i] = o[j] => i = j}

(* Mutant: one level too few. *)
TooDeep_Early(depth) == depth >= MaxTraverseDepth

TooDeep(depth) == depth > MaxTraverseDepth

(* One call of the recursive traverse.  Lists are visited in order, maps in  *)
(* whatever order Go's range gives, and a book is not looked into.           *)
Traverse ==
    LET top == Head(stack)
        node == page.tree[top.path]
        push(o) == [i \in DOMAIN o |-> [path |-> Append(top.path, o[i]),
                                        depth |-> top.depth + 1]] \o Tail(stack)
        width == Width(page.tree, top.path)
    IN  IF TooDeep(top.depth) \/ node.kind = "leaf"
        THEN stack' = Tail(stack) /\ out' = out
        ELSE IF node.kind = "map" /\ IsBook(node)
        THEN /\ out' = IF "title" \in node.strings THEN Append(out, top.path) ELSE out
             /\ stack' = Tail(stack)
        ELSE /\ \E o \in Orders(width) :
                    /\ node.kind = "list" => \A i \in 1..width : o[i] = i
                    /\ stack' = push(o)
             /\ out' = out

Visit ==
    /\ at = "walk" /\ stack # <<>>
    /\ Traverse
    /\ UNCHANGED <<call, at, req, left, page, cands, err, effect, heard>>

TraverseNextData == call.src = "storytel" /\ Visit
TraverseBookBeatNextData == call.src = "bookbeat" /\ Visit
TraverseAudiotekaData == call.src = "audioteka" /\ Visit

(* Nothing here: BookBeat tries its next path for a book. *)
NextPath ==
    IF call.src = "bookbeat" /\ call.op = "Get" /\ left > 1
    THEN Ask("book", left - 1, <<>>) /\ UNCHANGED walkVars
    ELSE Return(Missing, <<>>)

(* What a Get finds carries the id that was asked for, if none of its own. *)
GetCandidate(c) == [c EXCEPT !.id = TRUE]

(* A page has come.  That of a book: its JSON-LD if it has one; otherwise    *)
(* the walk over its embedded state begins.                                  *)
ParsePage(r) ==
    /\ r.what = "ok"
    /\ IF call.op = "Get" /\ r.ld # <<>>
       THEN Return("none", <<GetCandidate(r.ld[1])>>)
       ELSE /\ at' = "walk" /\ page' = r /\ out' = <<>>
            /\ stack' = IF <<>> \in DOMAIN r.tree
                        THEN <<[path |-> <<>>, depth |-> 0]>> ELSE <<>>
            /\ UNCHANGED <<req, left, cands, err>>

Storytel(q, r) ==
    /\ Reply({"storytel"}, q, r)
    /\ Failed(r) \/ ParsePage(r)
BookBeat(q, r) ==
    /\ Reply({"bookbeat"}, q, r)
    /\ \/ r.what = "404" /\ NextPath
       \/ r.what = "lost" /\ Return("other", <<>>)
       \/ ParsePage(r)
Audioteka(q, r) ==
    /\ Reply({"audioteka"}, q, r)
    /\ Failed(r) \/ ParsePage(r)

(* The candidates of the embedded state, in the order traverse met them. *)
Books == [i \in DOMAIN out |-> MapToCandidate(page.tree[out[i]])]
(* Mutant: no cut. *)
CutBooks_All(cs) == cs

CutBooks(cs) == IF Len(cs) > MaxBooks THEN SubSeq(cs, 1, MaxBooks) ELSE cs

ParseBookPage == IF out = <<>> THEN <<>> ELSE <<GetCandidate(Books[1])>>
ParseSearchPage == CutBooks(Books)
(* Without books in its state, Audioteka's page of a search has one in its   *)
(* JSON-LD.                                                                  *)
ParseAudiotekaSearchPage == IF out = <<>> THEN page.ld ELSE CutBooks(Books)

PageRead ==
    /\ at = "walk" /\ stack = <<>>
    /\ LET cs == CASE call.op = "Get"         -> ParseBookPage
                   [] call.op = "Search" /\ call.src = "audioteka"
                                              -> ParseAudiotekaSearchPage
                   [] OTHER                   -> ParseSearchPage
       IN  IF cs = <<>> THEN NextPath ELSE Return("none", cs)
    /\ UNCHANGED <<call, effect, heard>>

-----------------------------------------------------------------------------
(* Verdicts *)

Settle(c, e) ==
    /\ at = "got" /\ call.caller = c
    /\ effect' = e /\ at' = "idle"
    /\ page' = NoPage /\ out' = <<>>
    /\ UNCHANGED <<call, req, left, stack, cands, err, heard>>

(* An error leaves the cache alone, nothing is cached as a negative row. *)
SearchDone ==
    Settle("search", IF err # "none" THEN "failed"
                     ELSE IF cands = <<>> THEN "absent" ELSE "found")

(* sourceAdapter: the ErrNotFound of a Get becomes the one the worker knows; *)
(* that of a Search is passed on and is an error like any other to it.       *)
SourceAdapter(op, e) == IF e = "notfound" /\ op # "Get" THEN "other" ELSE e

ProcessDone ==
    LET e == SourceAdapter(call.op, err)
    IN  Settle("enrich", IF e = "other" THEN "failed"
                         ELSE IF e = "notfound" \/ cands = <<>> THEN "absent"
                         ELSE "found")

GetMetadata ==
    Settle("item", IF err = "other" THEN "failed"
                   ELSE IF err = "notfound" \/ cands = <<>> THEN "absent"
                   ELSE "found")

GetImages ==
    Settle("images", IF err = "other" THEN "failed"
                     ELSE IF err = "notfound" \/ cands = <<>> THEN "absent"
                     ELSE IF cands[1].cover THEN "found" ELSE "absent")

-----------------------------------------------------------------------------
BookReply == Failure \cup Json(Upto(1, Candidate) \ {<<>>})
ListReply == Failure \cup Json(Upto(MaxItems, Candidate))
PageReply == Failure \cup Page

Next ==
    \/ \E s \in Source :
           \/ SearchOne(s)
           \/ \E row \in Row : Process(s, row)
           \/ \E c \in {"item", "images"} : Details(c, s)
    \/ \E r \in BookReply :
           AudiMeta("book", r) \/ AudiobookCovers(r) \/ AudnexusBook(r)
    \/ \E r \in ListReply :
           \/ AudiMeta("search", r) \/ ITunesGet(r) \/ ITunesSearch(r)
           \/ AudnexusAuthors(r)
    \/ \E r \in Failure \cup Json({<<>>}) : AudnexusChapters(r)
    \/ \E q \in {"book", "search"}, r \in PageReply :
           Storytel(q, r) \/ BookBeat(q, r) \/ Audioteka(q, r)
    \/ TraverseNextData \/ TraverseBookBeatNextData \/ TraverseAudiotekaData
    \/ PageRead
    \/ SearchDone \/ ProcessDone \/ GetMetadata \/ GetImages

Spec == Init /\ [][Next]_vars

-----------------------------------------------------------------------------
(* Properties *)

(* Failures an adapter passes over: chapters, and single books of an author. *)
PassedOver(h) ==
    /\ call.src = "audnexus"
    /\ h.req \in IF ByAuthor THEN {"book", "chapters"} ELSE {"chapters"}
Broken == {i \in DOMAIN heard :
               heard[i].what \in {"lost", "undecodable"} /\ ~PassedOver(heard[i])}

(* The paths a question has to be asked on. *)
Paths == IF call.src = "bookbeat" /\ call.op = "Get" THEN BookPaths ELSE 1

(* An outage is taken for an absence, and an absence for an outage, only     *)
(* where the code does so: whoever asks whom and whatever comes back in      *)
(* which order, a negative row, a job completed without change and an empty  *)
(* answer to the host need a source that does not serve the question or that *)
(* answered it on every path it has; a failed attempt needs a response that  *)
(* was lost or did not decode.  The two exceptions: the failures Audnexus    *)
(* passes over, and a 404 for a search at iTunes, which counts as a failure. *)
HonestVerdict ==
    at = "idle" =>
        /\ effect = "absent" =>
               /\ Broken = {}
               /\ \/ Refuses(call.src, call.op, call.key)
                  \/ cands # <<>>
                  \/ Len(heard) >= Paths
        /\ effect = "failed" =>
               \/ Broken # {} \/ call.op = "none"
               \/ /\ call.src = "itunes" /\ call.op = "Search"
                  /\ heard[1].what = "404"

(* What the exceptions leave: outside Audnexus no response at all was lost   *)
(* behind an absence, and outside iTunes every failure of a source that was  *)
(* asked has a response that was lost or did not decode.                     *)
OutagesShow ==
    LET outage == \E i \in DOMAIN heard : heard[i].what \in {"lost", "undecodable"}
    IN  at = "idle" =>
            /\ effect = "absent" /\ call.src # "audnexus" => ~outage
            /\ effect = "failed" /\ call.op # "none" /\ call.src # "itunes" => outage

(* The books of a page are the records within the depth limit that are not   *)
(* part of another record and have a title, each once, and those of one list *)
(* in the order of the list, although nobody knows the order of a map.       *)
IsRecord(tree, p) == tree[p].kind = "map" /\ IsBook(tree[p])
InNoRecord(tree, p) == \A q \in DOMAIN tree : Within(q, p) => ~IsRecord(tree, q)
BooksOf(tree) ==
    {p \in DOMAIN tree :
        /\ IsRecord(tree, p) /\ "title" \in tree[p].strings
        /\ Len(p) <= MaxTraverseDepth /\ InNoRecord(tree, p)}
InListOrder(tree, p, q) ==
    \A n \in 0..(Len(p) - 1) :
        /\ n < Len(q) /\ SubSeq(p, 1, n) = SubSeq(q, 1, n)
        /\ tree[SubSeq(p, 1, n)].kind = "list"
        => p[n + 1] <= q[n + 1]
PageHasBooks ==
    at = "walk" /\ stack = <<>> =>
        /\ {out[i] : i \in DOMAIN out} = BooksOf(page.tree)
        /\ Len(out) = Cardinality(BooksOf(page.tree))
        /\ \A i, j \in DOMAIN out : i < j => InListOrder(page.tree, out[i], out[j])

-----------------------------------------------------------------------------
(* Inductive strengthenings of the invariants above.                         *)

(* What is asked under way of a question: whom, what for, and with which     *)
(* candidates in hand.                                                       *)
AskSoFar ==
    /\ at # "idle" =>
          /\ call.op \in {"Get", "Search"} /\ call.src \in Registered
          /\ call.caller = "search" => call.op = "Search"
          /\ call.caller \in {"item", "images"} => call.op = "Get"
    /\ at \in {"ask", "walk"} => ~Refuses(call.src, call.op, call.key)
    /\ at = "ask" =>
          /\ req = "search" => call.op = "Search" /\ call.key # "asin"
          /\ req = "authors" => call.src = "audnexus" /\ ByAuthor
          /\ req = "chapters" =>
                 call.src = "audnexus" /\ (~ByAuthor => Len(cands) <= 1)
          /\ req = "book" =>
                 \/ call.src = "audnexus" /\ ByAuthor
                 \/ cands = <<>> /\ (call.op = "Get" \/ call.key = "asin")
    /\ at = "walk" => page \in Page /\ call.src \in Scraper

(* What was heard under way of a question: nothing that is an outage, and    *)
(* every path up to the one that is asked.                                   *)
HeardSoFar ==
    /\ at \in {"ask", "walk"} => Broken = {}
    /\ at = "walk" => heard # <<>> /\ Len(heard) + left >= Paths + 1
    /\ at = "ask" => Len(heard) + left >= Paths
    /\ at = "ask" /\ call.src = "itunes" => heard = <<>>
    /\ at = "got" =>
          /\ err = "other" <=> Broken # {}
          /\ err = "notfound" /\ call.op # "Get" =>
                 call.src = "itunes" /\ heard[1].what = "404"
          /\ \/ Refuses(call.src, call.op, call.key) \/ cands # <<>>
             \/ err = "other" \/ Len(heard) >= Paths

(* How far the walk over a page is: every book is found or inside something  *)
(* that is still to be visited, and all of these are apart and in order.     *)
Apart(p, q) == p # q /\ ~Within(p, q) /\ ~Within(q, p)
InLine(tree, p, q) == Apart(p, q) /\ InListOrder(tree, p, q)
StackSound(tree, st) ==
    \A i \in DOMAIN st :
        /\ st[i].path \in DOMAIN tree /\ st[i].depth = Len(st[i].path)
        /\ InNoRecord(tree, st[i].path)
BooksFound(tree, ou) == \A i \in DOMAIN ou : ou[i] \in BooksOf(tree)
BooksLeft(tree, ou, st) ==
    \A p \in BooksOf(tree) :
        \/ \E i \in DOMAIN ou : ou[i] = p
        \/ \E i \in DOMAIN st : st[i].path = p \/ Within(st[i].path, p)
AllInLine(tree, ou, st) ==
    /\ \A i, j \in DOMAIN ou : i < j => InLine(tree, ou[i], ou[j])
    /\ \A i \in DOMAIN ou, j \in DOMAIN st : InLine(tree, ou[i], st[j].path)
    /\ \A i, j \in DOMAIN st : i < j => InLine(tree, st[i].path, st[j].path)
PageSoFar ==
    at = "walk" =>
        /\ StackSound(page.tree, stack) /\ BooksFound(page.tree, out)
        /\ BooksLeft(page.tree, out, stack) /\ AllInLine(page.tree, out, stack)
=============================================================================
