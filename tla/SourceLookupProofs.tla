-------------------------- MODULE SourceLookupProofs --------------------------
(***************************************************************************)
(* Proofs, for any pages, paths, depths and sizes, of the safety           *)
(* properties of SourceLookup: types, honest verdicts, and that the walk   *)
(* over a page finds its books, which is an induction over the walk.       *)
(***************************************************************************)
EXTENDS SourceLookup, TLAPS, FiniteSetTheorems, SequenceTheorems

Heard == [req : Request, what : {"ok", "404", "lost", "undecodable"}]

(* A body of at most n candidates is a sequence of them.                     *)
LEMMA UptoSeq ==
    ASSUME NEW n \in Nat, NEW S, NEW s \in Upto(n, S)
    PROVE  s \in Seq(S) /\ Len(s) \in Nat /\ Len(s) <= n
<1>1. PICK i \in 0..n : s \in [1..i -> S]
  BY DEF Upto
<1>2. i \in Nat /\ i <= n /\ s \in Seq(S) /\ Len(s) = i
  BY <1>1
<1> QED
  BY <1>2

LEMMA OneSeq ==
    ASSUME NEW S, NEW s \in Upto(1, S), s # <<>>
    PROVE  s \in Seq(S) /\ Len(s) = 1
<1>1. PICK i \in 0..1 : s \in [1..i -> S]
  BY DEF Upto
<1>2. s \in Seq(S) /\ Len(s) = i
  BY <1>1
<1>3. Len(s) \in Nat \ {0}
  BY <1>2, EmptySeq
<1>4. i = 1
  BY <1>2, <1>3
<1> QED
  BY <1>2, <1>4

(* What GetJSON may come back with.                                          *)
LEMMA BookShape ==
    ASSUME NEW r \in BookReply
    PROVE  /\ r.what \in {"ok", "404", "lost", "undecodable"}
           /\ r.what = "ok" => r.items \in Seq(Candidate) /\ Len(r.items) = 1
<1>1. CASE r \in Failure
  BY <1>1 DEF Failure
<1>2. CASE r \in [what : {"undecodable"}]
  BY <1>2
<1>3. CASE r \in [what : {"ok"}, items : Upto(1, Candidate) \ {<<>>}]
  <2>1. r.what = "ok" /\ r.items \in Upto(1, Candidate) /\ r.items # <<>>
    BY <1>3
  <2> QED
    BY <2>1, OneSeq
<1> QED
  BY <1>1, <1>2, <1>3 DEF BookReply, Json

LEMMA ListShape ==
    ASSUME NEW r \in ListReply
    PROVE  /\ r.what \in {"ok", "404", "lost", "undecodable"}
           /\ r.what = "ok" => /\ r.items \in Seq(Candidate) /\ Len(r.items) \in Nat
                               /\ Len(r.items) <= MaxItems
<1>1. CASE r \in Failure
  BY <1>1 DEF Failure
<1>2. CASE r \in [what : {"undecodable"}]
  BY <1>2
<1>3. CASE r \in [what : {"ok"}, items : Upto(MaxItems, Candidate)]
  <2>1. r.what = "ok" /\ r.items \in Upto(MaxItems, Candidate)
    BY <1>3
  <2> QED
    BY <2>1, UptoSeq, SizeAssumption
<1> QED
  BY <1>1, <1>2, <1>3 DEF ListReply, Json

LEMMA ChaptersShape ==
    ASSUME NEW r \in Failure \cup Json({<<>>})
    PROVE  r.what \in {"ok", "404", "lost", "undecodable"}
BY DEF Failure, Json

LEMMA LdShape ==
    ASSUME NEW r \in Page
    PROVE  /\ r.what = "ok" /\ r.tree \in Tree
           /\ r.ld \in Seq(Candidate) /\ Len(r.ld) \in Nat /\ Len(r.ld) <= 1
<1>1. r.what = "ok" /\ r.tree \in Tree /\ r.ld \in Upto(1, Candidate)
  BY DEF Page
<1> QED
  BY <1>1, UptoSeq

LEMMA PageShape ==
    ASSUME NEW r \in PageReply
    PROVE  r.what \in {"ok", "404", "lost"} /\ (r.what = "ok" => r \in Page)
BY DEF PageReply, Page, Failure

-----------------------------------------------------------------------------
(* Outages heard *)

(* One more response is an outage if it is one and is not passed over.       *)
LEMMA BrokenAppend ==
    ASSUME TypeOK, NEW h \in Heard, heard' = Append(heard, h), call' = call
    PROVE  Broken' = {} <=> /\ Broken = {}
                            /\ h.what \in {"lost", "undecodable"} => PassedOver(h)
<1> DEFINE Bad(g) == g.what \in {"lost", "undecodable"} /\ ~PassedOver(g)
<1>1. \A g : PassedOver(g)' <=> PassedOver(g)
  BY DEF PassedOver, ByAuthor
<1>2. heard \in Seq(Heard)
  BY DEF TypeOK, Heard
<1>3. /\ DOMAIN heard = 1..Len(heard) /\ DOMAIN heard' = 1..(Len(heard) + 1)
      /\ Len(heard) \in Nat /\ heard'[Len(heard) + 1] = h
      /\ \A i \in 1..Len(heard) : heard'[i] = heard[i]
  BY <1>2
<1>4. Broken = {} <=> \A i \in 1..Len(heard) : ~Bad(heard[i])
  BY <1>3 DEF Broken
<1>5. Broken' = {} <=> \A i \in 1..(Len(heard) + 1) : ~Bad(heard'[i])
  BY <1>1, <1>3 DEF Broken
<1> QED
  BY <1>3, <1>4, <1>5

LEMMA BrokenFrame ==
    ASSUME heard' = heard, call' = call
    PROVE  Broken' = Broken
BY DEF Broken, PassedOver, ByAuthor
LEMMA BrokenNone ==
    ASSUME heard' = <<>>
    PROVE  Broken' = {}
BY DEF Broken

-----------------------------------------------------------------------------
(* How a lookup goes on *)

LookupInv == TypeOK /\ AskSoFar /\ HeardSoFar /\ HonestVerdict

LEMMA LeftType ==
    ASSUME TypeOK
    PROVE  left \in Nat /\ left <= BookPaths + MaxItems /\ heard \in Seq(Heard)
<1>1. left \in 0..(BookPaths + MaxItems) /\ heard \in Seq(Heard)
  BY DEF TypeOK, Heard
<1> QED
  BY <1>1, SizeAssumption

(* TypeOK, for what an adapter does.                                         *)
LEMMA TypeKept ==
    ASSUME TypeOK, call' = call, effect' = effect, heard' \in Seq(Heard),
           at' \in {"ask", "walk", "got"}, req' \in Request,
           left' \in 0..(BookPaths + MaxItems), at' = "ask" => left' > 0,
           page' = page, stack' = stack, out' = out, cands' \in Seq(Candidate),
           err' \in {"none", "notfound", "other"},
           at' = "got" /\ call.op = "Get" => Len(cands') <= 1,
           at' = "got" /\ call.src \in Scraper => Len(cands') <= MaxBooks
    PROVE  TypeOK'
<1>1. at' \in {"idle", "ask", "walk", "got"}
  OBVIOUS
<1> QED
  BY <1>1, Zenon DEF TypeOK, Heard

(* The adapter returns e and cs after what it has heard.                     *)
LEMMA ReturnKeeps ==
    ASSUME LookupInv, at \in {"ask", "walk"},
           at' = "got", left' = 0, UNCHANGED <<call, effect, req, walkVars>>,
           heard' \in Seq(Heard), cands' \in Seq(Candidate),
           err' \in {"none", "notfound", "other"},
           call.op = "Get" => Len(cands') <= 1,
           call.src \in Scraper => Len(cands') <= MaxBooks,
           err' = "other" <=> Broken' # {},
           err' = "notfound" /\ call.op # "Get" =>
               call.src = "itunes" /\ heard'[1].what = "404",
           cands' # <<>> \/ err' = "other" \/ Len(heard') >= Paths
    PROVE  LookupInv'
<1>1. /\ call' = call /\ effect' = effect
      /\ req' = req /\ page' = page /\ stack' = stack /\ out' = out
  BY DEF walkVars
<1>2. Paths' = Paths
  BY DEF Paths
<1>3. TypeOK'
  <2>1. req \in Request
    BY DEF LookupInv, TypeOK
  <2>2. left' \in 0..(BookPaths + MaxItems)
    BY SizeAssumption
  <2> QED
    BY <1>1, <2>1, <2>2, TypeKept DEF LookupInv
<1>4. AskSoFar'
  BY <1>1 DEF LookupInv, AskSoFar
<1>5. HeardSoFar'
  BY <1>1, <1>2 DEF LookupInv, HeardSoFar
<1>6. HonestVerdict'
  BY <1>1 DEF HonestVerdict
<1> QED
  BY <1>3, <1>4, <1>5, <1>6 DEF LookupInv

(* The adapter makes its next request.                                       *)
LEMMA AskKeeps ==
    ASSUME LookupInv, at \in {"ask", "walk"},
           at' = "ask", UNCHANGED <<call, effect, walkVars>>, err' = "none",
           req' \in {"book", "chapters"}, left' \in 1..(BookPaths + MaxItems),
           cands' \in Seq(Candidate), heard' \in Seq(Heard), Broken' = {},
           Len(heard') + left' >= Paths, call.src # "itunes",
           req' = "chapters" =>
               call.src = "audnexus" /\ (~ByAuthor => Len(cands') <= 1),
           req' = "book" =>
               \/ call.src = "audnexus" /\ ByAuthor
               \/ cands' = <<>> /\ (call.op = "Get" \/ call.key = "asin")
    PROVE  LookupInv'
<1>1. /\ call' = call /\ effect' = effect
      /\ page' = page /\ stack' = stack /\ out' = out
  BY DEF walkVars
<1>2. Paths' = Paths /\ ByAuthor' = ByAuthor
  BY <1>1 DEF Paths, ByAuthor
<1>3. TypeOK'
  <2>1. req' \in Request
    BY DEF Request
  <2>2. left' \in 0..(BookPaths + MaxItems) /\ left' > 0
    BY SizeAssumption
  <2> QED
    BY <1>1, <2>1, <2>2, TypeKept DEF LookupInv
<1>4. AskSoFar'
  BY <1>1, <1>2 DEF LookupInv, AskSoFar
<1>5. HeardSoFar'
  BY <1>1, <1>2 DEF HeardSoFar
<1>6. HonestVerdict'
  BY DEF HonestVerdict
<1> QED
  BY <1>3, <1>4, <1>5, <1>6 DEF LookupInv

(* BookBeat's next path, or the end.                                         *)
LEMMA NextPathKeeps ==
    ASSUME LookupInv, at \in {"ask", "walk"}, call.src \in Scraper, NextPath,
           call' = call, effect' = effect, heard' \in Seq(Heard), heard' # <<>>,
           Broken' = {}, Len(heard') + left >= Paths + 1
    PROVE  LookupInv'
<1>1. left \in Nat /\ left <= BookPaths + MaxItems /\ Len(heard') \in Nat
  BY LeftType DEF LookupInv
<1>2. Paths \in Nat /\ Len(heard') # 0 /\ call.src # "itunes"
  BY SizeAssumption DEF Paths, Scraper
<1>3. CASE call.src = "bookbeat" /\ call.op = "Get" /\ left > 1
  <2>1. /\ at' = "ask" /\ req' = "book" /\ left' = left - 1
        /\ cands' = <<>> /\ err' = "none" /\ UNCHANGED walkVars
    BY <1>3 DEF NextPath, Ask
  <2>2. left - 1 \in 1..(BookPaths + MaxItems) /\ Len(heard') + (left - 1) >= Paths
    BY <1>1, <1>2, <1>3, SizeAssumption
  <2> QED
    BY <1>2, <1>3, <2>1, <2>2, AskKeeps
<1>4. CASE ~(call.src = "bookbeat" /\ call.op = "Get" /\ left > 1)
  <2>1. /\ at' = "got" /\ err' = Missing /\ cands' = <<>> /\ left' = 0
        /\ UNCHANGED <<req, walkVars>>
    BY <1>4 DEF NextPath, Return
  <2>2. Len(heard') >= Paths
    BY <1>1, <1>2, <1>4 DEF Paths
  <2>3. Missing \in {"none", "notfound"} /\ (Missing = "notfound" => call.op = "Get")
    BY DEF Missing
  <2>4. <<>> \in Seq(Candidate) /\ Len(<<>>) = 0 /\ MaxBooks \in Nat
    BY SizeAssumption
  <2> QED
    BY <2>1, <2>2, <2>3, <2>4, ReturnKeeps
<1> QED
  BY <1>3, <1>4

(* The response was a failure, and the adapter does not pass over it.        *)
LEMMA FailedKeeps ==
    ASSUME LookupInv, at = "ask", NEW r, Failed(r), call' = call,
           effect' = effect, heard' \in Seq(Heard), Len(heard') >= Paths,
           Broken' = {} <=> r.what \notin {"lost", "undecodable"}
    PROVE  LookupInv'
<1>1. <<>> \in Seq(Candidate) /\ Len(<<>>) = 0 /\ MaxBooks \in Nat
  BY SizeAssumption
<1>2. Missing \in {"none", "notfound"} /\ (Missing = "notfound" => call.op = "Get")
  BY DEF Missing
<1>3. /\ at' = "got" /\ cands' = <<>> /\ left' = 0 /\ UNCHANGED <<req, walkVars>>
      /\ err' = IF r.what = "404" THEN Missing ELSE "other"
      /\ r.what \in {"404", "lost", "undecodable"}
  BY DEF Failed, Return
<1> QED
  BY <1>1, <1>2, <1>3, ReturnKeeps

(* What a response does to what was heard.                                   *)
LEMMA ReplyHeard ==
    ASSUME LookupInv, at = "ask", NEW w \in {"ok", "404", "lost", "undecodable"},
           heard' = Append(heard, [req |-> req, what |-> w]),
           call' = call, effect' = effect
    PROVE  /\ heard' \in Seq(Heard) /\ heard' # <<>>
           /\ Len(heard') \in Nat /\ Len(heard') = Len(heard) + 1
           /\ Len(heard') + left >= Paths + 1
           /\ call.src # "bookbeat" => Len(heard') >= Paths
           /\ call.src = "itunes" => heard'[1].what = w
           /\ Broken' = {} <=> \/ w \notin {"lost", "undecodable"}
                               \/ PassedOver([req |-> req, what |-> w])
<1> DEFINE h == [req |-> req, what |-> w]
<1>1. heard' = Append(heard, h) /\ req \in Request
  BY DEF LookupInv, TypeOK
<1>2. h \in Heard /\ h.what = w
  BY <1>1 DEF Heard
<1>3. heard \in Seq(Heard) /\ left \in Nat
  BY LeftType DEF LookupInv
<1>4. Broken = {} /\ Len(heard) + left >= Paths
  BY DEF LookupInv, HeardSoFar
<1>5. Paths \in Nat /\ (call.src # "bookbeat" => Paths = 1)
  BY SizeAssumption DEF Paths
<1>6. call.src = "itunes" => heard = <<>>
  BY DEF LookupInv, HeardSoFar
<1>7. /\ Len(heard) \in Nat /\ heard' \in Seq(Heard)
      /\ Len(heard') = Len(heard) + 1 /\ heard'[Len(heard) + 1] = h
  BY <1>1, <1>2, <1>3
<1>8. heard' # <<>>
  BY <1>7
<1>9. call.src = "itunes" => heard'[1].what = w
  BY <1>2, <1>6, <1>7
<1>10. Broken' = {} <=> (h.what \in {"lost", "undecodable"} => PassedOver(h))
  BY <1>1, <1>2, <1>4, BrokenAppend DEF LookupInv
<1> HIDE DEF h
<1>11. Len(heard') + left >= Paths + 1 /\ (call.src # "bookbeat" => Len(heard') >= Paths)
  BY <1>3, <1>4, <1>5, <1>7
<1> QED
  BY <1>1, <1>2, <1>7, <1>8, <1>9, <1>10, <1>11 DEF h
-----------------------------------------------------------------------------
(* The actions *)

LEMMA QuestionKeeps ==
    ASSUME LookupInv, NEW c \in Caller, NEW s \in Source,
           NEW op \in {"Get", "Search"}, NEW k \in Key,
           c = "search" => op = "Search", c \in {"item", "images"} => op = "Get",
           Question(c, s, op, k)
    PROVE  LookupInv'
<1>1. /\ s \in Registered /\ effect' = "none" /\ heard' = <<>>
      /\ call' = [caller |-> c, src |-> s, op |-> op, key |-> k]
  BY DEF Question
<1>2. /\ call'.caller = c /\ call'.src = s /\ call'.op = op /\ call'.key = k
      /\ call' \in [caller : Caller, src : Source, op : {"Get", "Search", "none"},
                    key : Key \cup {""}]
  BY <1>1
<1>3. Broken' = {}
  BY <1>1, BrokenNone
<1>4. page' = page /\ stack' = stack /\ out' = out
  BY DEF Question, Return, walkVars
<1>5. Len(heard') = 0 /\ heard' \in Seq(Heard)
  BY <1>1
<1>6. CASE Refuses(s, op, k)
  <2>1. at' = "got" /\ err' = "none" /\ cands' = <<>> /\ left' = 0 /\ req' = req
    BY <1>6 DEF Question, Return
  <2>2. left' \in 0..(BookPaths + MaxItems) /\ Len(cands') = 0 /\ MaxBooks \in Nat
    BY <2>1, SizeAssumption
  <2>3. Len(cands') <= 1 /\ Len(cands') <= MaxBooks /\ cands' \in Seq(Candidate)
    BY <2>1, <2>2
  <2>4. /\ at' \in {"idle", "ask", "walk", "got"} /\ at' # "ask"
        /\ err' \in {"none", "notfound", "other"}
        /\ effect' \in {"none", "found", "absent", "failed"}
    BY <1>1, <2>1
  <2>5. TypeOK'
    BY <1>2, <1>4, <1>5, <2>1, <2>2, <2>3, <2>4, Zenon DEF LookupInv, TypeOK, Heard
  <2>6. AskSoFar'
    BY <1>1, <1>2, <2>1 DEF AskSoFar
  <2>7. Refuses(call.src, call.op, call.key)'
    BY <1>2, <1>6 DEF Refuses
  <2>8. HeardSoFar'
    BY <1>3, <2>1, <2>7 DEF HeardSoFar
  <2>9. HonestVerdict'
    BY <2>1 DEF HonestVerdict
  <2> QED
    BY <2>5, <2>6, <2>8, <2>9 DEF LookupInv
<1>7. CASE ~Refuses(s, op, k)
  <2>1. /\ at' = "ask" /\ err' = "none" /\ cands' = <<>>
        /\ req' = FirstRequest(s, op, k)
        /\ left' = IF s = "bookbeat" /\ op = "Get" THEN BookPaths ELSE 1
    BY <1>7 DEF Question, Ask
  <2>2. left' \in 1..(BookPaths + MaxItems)
    BY <2>1, SizeAssumption
  <2>3. left' \in 0..(BookPaths + MaxItems) /\ left' > 0
    BY <2>2, SizeAssumption
  <2>4. /\ at' \in {"idle", "ask", "walk", "got"} /\ at' # "got"
        /\ err' \in {"none", "notfound", "other"} /\ req' \in Request
        /\ effect' \in {"none", "found", "absent", "failed"}
        /\ cands' \in Seq(Candidate)
    BY <1>1, <2>1 DEF FirstRequest, Request
  <2>5. TypeOK'
    BY <1>2, <1>4, <1>5, <2>3, <2>4, Zenon DEF LookupInv, TypeOK, Heard
  <2>6. ~Refuses(call.src, call.op, call.key)'
    BY <1>2, <1>7 DEF Refuses
  <2>7. AskSoFar'
    BY <1>1, <1>2, <2>1, <2>6 DEF AskSoFar, FirstRequest, ByAuthor
  <2>8. Paths' = left'
    BY <1>2, <2>1 DEF Paths
  <2>9. HeardSoFar'
    BY <1>1, <1>3, <1>5, <2>1, <2>2, <2>8, SizeAssumption DEF HeardSoFar
  <2>10. HonestVerdict'
    BY <2>1 DEF HonestVerdict
  <2> QED
    BY <2>5, <2>7, <2>9, <2>10 DEF LookupInv
<1> QED
  BY <1>6, <1>7

LEMMA NoQuestionKeeps ==
    ASSUME LookupInv, NEW c \in Caller, NEW s \in Source, NoQuestion(c, s)
    PROVE  LookupInv'
<1>1. /\ at = "idle" /\ at' = "idle" /\ req' = req /\ left' = left
      /\ page' = page /\ stack' = stack /\ out' = out
      /\ cands' = <<>> /\ err' = "none" /\ effect' = "failed" /\ heard' = <<>>
      /\ call' = [caller |-> c, src |-> s, op |-> "none", key |-> ""]
  BY DEF NoQuestion, walkVars
<1>2. /\ call' \in [caller : Caller, src : Source, op : {"Get", "Search", "none"},
                    key : Key \cup {""}]
      /\ call'.op = "none"
  BY <1>1
<1>3. /\ at' \in {"idle", "ask", "walk", "got"} /\ at' # "got" /\ at' # "ask"
      /\ err' \in {"none", "notfound", "other"}
      /\ effect' \in {"none", "found", "absent", "failed"}
  BY <1>1
<1>5. cands' \in Seq(Candidate) /\ heard' \in Seq(Heard)
  BY <1>1, EmptySeq
<1>4. TypeOK'
  BY <1>1, <1>2, <1>3, <1>5, Zenon DEF LookupInv, TypeOK, Heard
<1> QED
  BY <1>1, <1>2, <1>4 DEF LookupInv, AskSoFar, HeardSoFar, HonestVerdict

LEMMA AudiMetaKeeps ==
    ASSUME LookupInv, NEW q \in {"book", "search"}, NEW r,
           IF q = "book" THEN r \in BookReply ELSE r \in ListReply,
           AudiMeta(q, r)
    PROVE  LookupInv'
<1>1. /\ r.what \in {"ok", "404", "lost", "undecodable"} /\ q \in Request
      /\ r.what = "ok" => /\ r.items \in Seq(Candidate)
                          /\ q = "book" => Len(r.items) = 1
  BY BookShape, ListShape DEF Request
<1>2. /\ at = "ask" /\ req = q /\ call.src = "audimeta"
      /\ heard' = Append(heard, [req |-> req, what |-> r.what])
      /\ call' = call /\ effect' = effect
  BY DEF AudiMeta, Reply
<1>3. /\ heard' \in Seq(Heard) /\ Len(heard') >= Paths
      /\ Broken' = {} <=> r.what \notin {"lost", "undecodable"}
  BY <1>1, <1>2, ReplyHeard DEF PassedOver
<1>4. q = "search" => call.op = "Search"
  BY <1>2 DEF LookupInv, AskSoFar
<1>5. CASE Failed(r)
  BY <1>2, <1>3, <1>5, FailedKeeps
<1>6. CASE r.what = "ok" /\ Return("none", r.items)
  <2>1. /\ at' = "got" /\ err' = "none" /\ cands' = r.items /\ left' = 0
        /\ UNCHANGED <<req, walkVars>>
    BY <1>6 DEF Return
  <2>2. call.op = "Get" => q = "book" /\ Len(cands') = 1
    BY <1>1, <1>4, <1>6, <2>1, Zenon
  <2>3. call.op = "Get" => Len(cands') <= 1
    <3>1. 1 <= 1
      OBVIOUS
    <3> QED
      BY <2>2, <3>1, Zenon
  <2> QED
    BY <1>1, <1>2, <1>3, <1>6, <2>1, <2>3, ReturnKeeps DEF Scraper
<1> QED
  BY <1>5, <1>6 DEF AudiMeta

LEMMA AudiobookCoversKeeps ==
    ASSUME LookupInv, NEW r \in BookReply, AudiobookCovers(r)
    PROVE  LookupInv'
<1>1. /\ r.what \in {"ok", "404", "lost", "undecodable"}
      /\ r.what = "ok" => r.items \in Seq(Candidate) /\ Len(r.items) = 1
  BY BookShape
<1>2. /\ at = "ask" /\ req = "book" /\ call.src = "audiobookcovers"
      /\ heard' = Append(heard, [req |-> req, what |-> r.what])
      /\ call' = call /\ effect' = effect
  BY DEF AudiobookCovers, Reply
<1>3. /\ heard' \in Seq(Heard) /\ Len(heard') >= Paths
      /\ Broken' = {} <=> r.what \notin {"lost", "undecodable"}
  BY <1>1, <1>2, ReplyHeard DEF PassedOver
<1>4. CASE Failed(r)
  BY <1>2, <1>3, <1>4, FailedKeeps
<1>5. CASE ~Failed(r)
  <2>1. /\ r.what = "ok" /\ at' = "got" /\ left' = 0 /\ UNCHANGED <<req, walkVars>>
        /\ \/ err' = "none" /\ cands' = r.items
           \/ err' = Missing /\ cands' = <<>>
    BY <1>5 DEF AudiobookCovers, Return
  <2>2. /\ err' \in {"none", "notfound", "other"} /\ err' # "other"
        /\ err' = "notfound" => call.op = "Get"
    BY <2>1 DEF Missing
  <2>3. cands' \in Seq(Candidate) /\ (Len(cands') = 1 \/ Len(cands') = 0)
    BY <1>1, <2>1, EmptySeq
  <2>4. Len(cands') <= 1
    <3>1. 1 <= 1 /\ 0 <= 1
      OBVIOUS
    <3> QED
      BY <2>3, <3>1, Zenon
  <2> QED
    BY <1>2, <1>3, <2>1, <2>2, <2>3, <2>4, ReturnKeeps DEF Scraper
<1> QED
  BY <1>4, <1>5

LEMMA ITunesGetKeeps ==
    ASSUME LookupInv, NEW r \in ListReply, ITunesGet(r)
    PROVE  LookupInv'
<1>1. /\ r.what \in {"ok", "404", "lost", "undecodable"}
      /\ r.what = "ok" => r.items \in Seq(Candidate)
  BY ListShape
<1>2. /\ at = "ask" /\ req = "book" /\ call.src = "itunes"
      /\ heard' = Append(heard, [req |-> req, what |-> r.what])
      /\ call' = call /\ effect' = effect
  BY DEF ITunesGet, Reply
<1>3. /\ heard' \in Seq(Heard) /\ Len(heard') >= Paths
      /\ Broken' = {} <=> r.what \notin {"lost", "undecodable"}
  BY <1>1, <1>2, ReplyHeard DEF PassedOver
<1>4. call.op = "Get"
  BY <1>2 DEF LookupInv, AskSoFar, Refuses, Scraper
<1>5. CASE Failed(r)
  BY <1>2, <1>3, <1>5, FailedKeeps
<1>6. CASE ~Failed(r)
  <2>1. /\ r.what = "ok" /\ at' = "got" /\ left' = 0 /\ UNCHANGED <<req, walkVars>>
        /\ \/ err' = "notfound" /\ cands' = <<>>
           \/ err' = "none" /\ r.items # <<>> /\ cands' = <<r.items[1]>>
    BY <1>6 DEF ITunesGet, Return
  <2>2. cands' \in Seq(Candidate) /\ (Len(cands') = 1 \/ Len(cands') = 0)
    <3>1. CASE cands' = <<>>
      BY <3>1, EmptySeq
    <3>2. CASE r.items # <<>> /\ cands' = <<r.items[1]>>
      <4>1. r.items[1] \in Candidate
        <5>1. r.items \in Seq(Candidate) /\ Len(r.items) \in Nat \ {0}
          BY <1>1, <2>1, <3>2, EmptySeq
        <5> QED
          BY <5>1
      <4> QED
        BY <3>2, <4>1
    <3> QED
      BY <2>1, <3>1, <3>2
  <2>3. Len(cands') <= 1
    <3>1. 1 <= 1 /\ 0 <= 1
      OBVIOUS
    <3> QED
      BY <2>2, <3>1, Zenon
  <2> QED
    BY <1>2, <1>3, <1>4, <2>1, <2>2, <2>3, ReturnKeeps DEF Scraper
<1> QED
  BY <1>5, <1>6

LEMMA ITunesSearchKeeps ==
    ASSUME LookupInv, NEW r \in ListReply, ITunesSearch(r)
    PROVE  LookupInv'
<1>1. /\ r.what \in {"ok", "404", "lost", "undecodable"}
      /\ r.what = "ok" => r.items \in Seq(Candidate)
  BY ListShape
<1>2. /\ at = "ask" /\ req = "search" /\ call.src = "itunes"
      /\ heard' = Append(heard, [req |-> req, what |-> r.what])
      /\ call' = call /\ effect' = effect
  BY DEF ITunesSearch, Reply
<1>3. /\ heard' \in Seq(Heard) /\ Len(heard') >= Paths /\ heard'[1].what = r.what
      /\ Broken' = {} <=> r.what \notin {"lost", "undecodable"}
  BY <1>1, <1>2, ReplyHeard DEF PassedOver
<1>4. call.op = "Search"
  BY <1>2 DEF LookupInv, AskSoFar
<1>5. /\ at' = "got" /\ left' = 0 /\ UNCHANGED <<req, walkVars>>
      /\ \/ r.what = "404" /\ err' = "notfound" /\ cands' = <<>>
         \/ r.what \in {"lost", "undecodable"} /\ err' = "other" /\ cands' = <<>>
         \/ r.what = "ok" /\ err' = "none" /\ cands' = r.items
  BY DEF ITunesSearch, Return
<1>6. cands' \in Seq(Candidate)
  BY <1>1, <1>5, EmptySeq
<1> QED
  BY <1>2, <1>3, <1>4, <1>5, <1>6, ReturnKeeps DEF Scraper

(* The next book of an author, or the end.                                   *)
LEMMA NextBookKeeps ==
    ASSUME LookupInv, at = "ask", call.src = "audnexus", ByAuthor,
           NextBook(cands), call' = call, effect' = effect,
           heard' \in Seq(Heard), Len(heard') >= Paths, Len(heard') \in Nat,
           Broken' = {}
    PROVE  LookupInv'
<1>1. left \in Nat /\ left <= BookPaths + MaxItems /\ cands \in Seq(Candidate)
  BY LeftType DEF LookupInv, TypeOK
<1>2. call.op = "Search" /\ Paths = 1
  BY DEF ByAuthor, Paths
<1>3. CASE left > 1
  <2>1. /\ at' = "ask" /\ req' = "book" /\ left' = left - 1
        /\ cands' = cands /\ err' = "none" /\ UNCHANGED walkVars
    BY <1>3 DEF NextBook, Ask
  <2>2. left' \in 1..(BookPaths + MaxItems) /\ Len(heard') + left' >= Paths
    BY <1>1, <1>2, <1>3, <2>1, SizeAssumption
  <2> QED
    BY <1>1, <2>1, <2>2, AskKeeps
<1>4. CASE ~(left > 1)
  <2>1. /\ at' = "got" /\ left' = 0 /\ cands' = cands /\ err' = "none"
        /\ UNCHANGED <<req, walkVars>>
    BY <1>4 DEF NextBook, Return
  <2> QED
    BY <1>1, <1>2, <2>1, ReturnKeeps DEF Scraper
<1> QED
  BY <1>3, <1>4

LEMMA AudnexusAuthorsKeeps ==
    ASSUME LookupInv, NEW r \in ListReply, AudnexusAuthors(r)
    PROVE  LookupInv'
<1>1. /\ r.what \in {"ok", "404", "lost", "undecodable"}
      /\ r.what = "ok" => /\ r.items \in Seq(Candidate) /\ Len(r.items) \in Nat
                          /\ Len(r.items) <= MaxItems
  BY ListShape
<1>2. /\ at = "ask" /\ req = "authors" /\ call.src = "audnexus"
      /\ heard' = Append(heard, [req |-> req, what |-> r.what])
      /\ call' = call /\ effect' = effect
  BY DEF AudnexusAuthors, Reply
<1>3. ByAuthor /\ call.op = "Search" /\ Paths = 1
  BY <1>2 DEF LookupInv, AskSoFar, ByAuthor, Paths
<1>4. /\ heard' \in Seq(Heard) /\ Len(heard') >= Paths /\ Len(heard') \in Nat
      /\ Broken' = {} <=> r.what \notin {"lost", "undecodable"}
  BY <1>1, <1>2, ReplyHeard DEF PassedOver
<1>5. CASE Failed(r)
  BY <1>2, <1>4, <1>5, FailedKeeps
<1>6. CASE ~Failed(r) /\ r.items = <<>>
  <2>1. /\ r.what = "ok" /\ at' = "got" /\ left' = 0 /\ cands' = <<>>
        /\ err' = "none" /\ UNCHANGED <<req, walkVars>>
    BY <1>6 DEF AudnexusAuthors, Return
  <2>2. cands' \in Seq(Candidate)
    BY <2>1, EmptySeq
  <2> QED
    BY <1>2, <1>3, <1>4, <2>1, <2>2, ReturnKeeps DEF Scraper
<1>7. CASE ~Failed(r) /\ r.items # <<>>
  <2>1. /\ r.what = "ok" /\ at' = "ask" /\ req' = "book" /\ left' = Len(r.items)
        /\ cands' = <<>> /\ err' = "none" /\ UNCHANGED walkVars
    BY <1>7 DEF AudnexusAuthors, Ask
  <2>2. Len(r.items) \in Nat \ {0} /\ <<>> \in Seq(Candidate)
    BY <1>1, <1>7, <2>1, EmptySeq
  <2>3. left' \in 1..(BookPaths + MaxItems) /\ Len(heard') + left' >= Paths
    BY <1>1, <1>3, <1>4, <2>1, <2>2, SizeAssumption
  <2> QED
    BY <1>2, <1>3, <1>4, <2>1, <2>2, <2>3, AskKeeps
<1> QED
  BY <1>5, <1>6, <1>7

LEMMA AudnexusBookKeeps ==
    ASSUME LookupInv, NEW r \in BookReply, AudnexusBook(r)
    PROVE  LookupInv'
<1>1. /\ r.what \in {"ok", "404", "lost", "undecodable"}
      /\ r.what = "ok" => r.items \in Seq(Candidate) /\ Len(r.items) = 1
  BY BookShape
<1>2. /\ at = "ask" /\ req = "book" /\ call.src = "audnexus"
      /\ heard' = Append(heard, [req |-> req, what |-> r.what])
      /\ call' = call /\ effect' = effect
  BY DEF AudnexusBook, Reply
<1>3. /\ heard' \in Seq(Heard) /\ Len(heard') >= Paths /\ Len(heard') \in Nat
      /\ Broken' = {} <=> \/ r.what \notin {"lost", "undecodable"} \/ ByAuthor
  BY <1>1, <1>2, ReplyHeard DEF PassedOver
<1>4. CASE r.what = "ok"
  <2>1. /\ at' = "ask" /\ req' = "chapters" /\ left' = left
        /\ cands' = cands \o r.items /\ err' = "none" /\ UNCHANGED walkVars
    BY <1>4 DEF AudnexusBook, Ask
  <2>2. left \in Nat /\ left <= BookPaths + MaxItems /\ Paths = 1 /\ left > 0
        /\ cands \in Seq(Candidate)
    BY <1>2, LeftType DEF LookupInv, TypeOK, Paths
  <2>3. left' \in 1..(BookPaths + MaxItems) /\ Len(heard') + left' >= Paths
    BY <1>3, <2>1, <2>2, SizeAssumption
  <2>4. cands' \in Seq(Candidate)
    BY <1>1, <1>4, <2>1, <2>2
  <2>5. ~ByAuthor => Len(cands') <= 1
    <3>1. ~ByAuthor => cands = <<>>
      BY <1>2 DEF LookupInv, AskSoFar
    <3>2. cands = <<>> => cands' = r.items
      BY <1>1, <1>4, <2>1, ConcatEmptySeq
    <3>3. 1 <= 1
      OBVIOUS
    <3> QED
      BY <1>1, <1>4, <3>1, <3>2, <3>3, Zenon
  <2> QED
    BY <1>2, <1>3, <1>4, <2>1, <2>3, <2>4, <2>5, AskKeeps
<1>5. CASE r.what # "ok" /\ ByAuthor
  BY <1>2, <1>3, <1>5, NextBookKeeps DEF AudnexusBook
<1>6. CASE r.what # "ok" /\ ~ByAuthor
  BY <1>2, <1>3, <1>6, FailedKeeps DEF AudnexusBook
<1> QED
  BY <1>4, <1>5, <1>6

LEMMA AudnexusChaptersKeeps ==
    ASSUME LookupInv, NEW r \in Failure \cup Json({<<>>}), AudnexusChapters(r)
    PROVE  LookupInv'
<1>1. r.what \in {"ok", "404", "lost", "undecodable"}
  BY ChaptersShape
<1>2. /\ at = "ask" /\ req = "chapters" /\ call.src = "audnexus"
      /\ heard' = Append(heard, [req |-> req, what |-> r.what])
      /\ call' = call /\ effect' = effect
  BY DEF AudnexusChapters, Reply
<1>3. /\ heard' \in Seq(Heard) /\ Len(heard') >= Paths /\ Len(heard') \in Nat
      /\ Broken' = {}
  BY <1>1, <1>2, ReplyHeard DEF PassedOver
<1>4. CASE ByAuthor
  BY <1>2, <1>3, <1>4, NextBookKeeps DEF AudnexusChapters
<1>5. CASE ~ByAuthor
  <2>1. /\ at' = "got" /\ left' = 0 /\ cands' = cands /\ err' = "none"
        /\ UNCHANGED <<req, walkVars>>
    BY <1>5 DEF AudnexusChapters, Return
  <2>2. cands \in Seq(Candidate) /\ Len(cands) <= 1
    BY <1>2, <1>5 DEF LookupInv, TypeOK, AskSoFar
  <2> QED
    BY <1>2, <1>3, <2>1, <2>2, ReturnKeeps DEF Scraper
<1> QED
  BY <1>4, <1>5

-----------------------------------------------------------------------------
(* Pages *)

Frame == [path : Seq(Nat), depth : 0..(MaxTraverseDepth + 1)]

(* The adapter has a page: its JSON-LD is the answer, or the walk begins.    *)
LEMMA ParsePageKeeps ==
    ASSUME LookupInv, at = "ask", call.src \in Scraper, NEW r \in Page,
           ParsePage(r), call' = call, effect' = effect,
           heard' \in Seq(Heard), heard' # <<>>,
           Len(heard') + left >= Paths + 1, Broken' = {}
    PROVE  LookupInv'
<1>1. /\ r.ld \in Seq(Candidate) /\ r.tree \in Tree
  BY LdShape
<1>2. CASE call.op = "Get" /\ r.ld # <<>>
  <2>1. /\ at' = "got" /\ left' = 0 /\ err' = "none"
        /\ cands' = <<GetCandidate(r.ld[1])>> /\ UNCHANGED <<req, walkVars>>
    BY <1>2 DEF ParsePage, Return
  <2>2. r.ld[1] \in Candidate
    <3>1. Len(r.ld) \in Nat \ {0}
      BY <1>1, <1>2, EmptySeq
    <3> QED
      BY <1>1, <3>1
  <2>3. GetCandidate(r.ld[1]) \in Candidate
    BY <2>2 DEF GetCandidate, Candidate
  <2>4. cands' \in Seq(Candidate) /\ Len(cands') = 1 /\ cands' # <<>>
    BY <2>1, <2>3
  <2>5. Len(cands') <= 1 /\ Len(cands') <= MaxBooks
    <3>1. 1 <= 1 /\ 1 <= MaxBooks
      BY SizeAssumption
    <3> QED
      BY <2>4, <3>1, Zenon
  <2> QED
    BY <2>1, <2>4, <2>5, ReturnKeeps
<1>3. CASE ~(call.op = "Get" /\ r.ld # <<>>)
  <2>1. /\ at' = "walk" /\ page' = r /\ out' = <<>> /\ req' = req /\ left' = left
        /\ cands' = cands /\ err' = err
        /\ stack' = IF <<>> \in DOMAIN r.tree
                    THEN <<[path |-> <<>>, depth |-> 0]>> ELSE <<>>
    BY <1>3 DEF ParsePage
  <2>2. stack' \in Seq(Frame)
    <3>1. <<>> \in Seq(Nat) /\ 0 \in 0..(MaxTraverseDepth + 1)
      BY SizeAssumption
    <3>2. [path |-> <<>>, depth |-> 0] \in Frame
      BY <3>1 DEF Frame
    <3>3. <<[path |-> <<>>, depth |-> 0]>> \in Seq(Frame) /\ <<>> \in Seq(Frame)
      BY <3>2
    <3> QED
      BY <2>1, <3>3, Zenon
  <2>3. /\ out' \in Seq(Seq(Nat)) /\ at' \in {"idle", "ask", "walk", "got"}
        /\ at' # "ask" /\ at' # "got"
    BY <2>1
  <2>4. TypeOK'
    BY <2>1, <2>2, <2>3, Zenon DEF LookupInv, TypeOK, Heard, Frame
  <2>5. AskSoFar'
    BY <2>1 DEF LookupInv, AskSoFar
  <2>6. HeardSoFar'
    <3>1. Paths' = Paths
      BY DEF Paths
    <3> QED
      BY <2>1, <3>1 DEF HeardSoFar
  <2>7. HonestVerdict'
    BY <2>1 DEF HonestVerdict
  <2> QED
    BY <2>4, <2>5, <2>6, <2>7 DEF LookupInv
<1> QED
  BY <1>2, <1>3

LEMMA StorytelKeeps ==
    ASSUME LookupInv, NEW q, NEW r \in PageReply,
           Storytel(q, r) \/ Audioteka(q, r)
    PROVE  LookupInv'
<1>1. r.what \in {"ok", "404", "lost"} /\ (r.what = "ok" => r \in Page)
  BY PageShape
<1>2. /\ at = "ask" /\ req = q /\ call.src \in {"storytel", "audioteka"}
      /\ heard' = Append(heard, [req |-> req, what |-> r.what])
      /\ call' = call /\ effect' = effect
  BY DEF Storytel, Audioteka, Reply
<1>3. /\ heard' \in Seq(Heard) /\ heard' # <<>> /\ Len(heard') >= Paths
      /\ Len(heard') + left >= Paths + 1
      /\ Broken' = {} <=> r.what \notin {"lost", "undecodable"}
  BY <1>1, <1>2, ReplyHeard DEF PassedOver
<1>4. CASE Failed(r)
  BY <1>2, <1>3, <1>4, FailedKeeps
<1>5. CASE ParsePage(r)
  <2>1. r.what = "ok"
    BY <1>5 DEF ParsePage
  <2> QED
    BY <1>1, <1>2, <1>3, <1>5, <2>1, ParsePageKeeps DEF Scraper
<1> QED
  BY <1>4, <1>5 DEF Storytel, Audioteka

LEMMA BookBeatKeeps ==
    ASSUME LookupInv, NEW q, NEW r \in PageReply, BookBeat(q, r)
    PROVE  LookupInv'
<1>1. r.what \in {"ok", "404", "lost"} /\ (r.what = "ok" => r \in Page)
  BY PageShape
<1>2. /\ at = "ask" /\ req = q /\ call.src = "bookbeat"
      /\ heard' = Append(heard, [req |-> req, what |-> r.what])
      /\ call' = call /\ effect' = effect
  BY DEF BookBeat, Reply
<1>3. /\ heard' \in Seq(Heard) /\ heard' # <<>>
      /\ Len(heard') + left >= Paths + 1
      /\ Broken' = {} <=> r.what # "lost"
  BY <1>1, <1>2, ReplyHeard DEF PassedOver
<1>4. CASE r.what = "404" /\ NextPath
  BY <1>2, <1>3, <1>4, NextPathKeeps DEF Scraper
<1>5. CASE r.what = "lost" /\ Return("other", <<>>)
  <2>1. /\ at' = "got" /\ left' = 0 /\ err' = "other" /\ cands' = <<>>
        /\ UNCHANGED <<req, walkVars>>
    BY <1>5 DEF Return
  <2>2. cands' \in Seq(Candidate) /\ Len(cands') = 0
    BY <2>1, EmptySeq
  <2>3. Len(cands') <= 1 /\ Len(cands') <= MaxBooks
    <3>1. 0 <= 1 /\ 0 <= MaxBooks
      BY SizeAssumption
    <3> QED
      BY <2>2, <3>1, Zenon
  <2> QED
    BY <1>2, <1>3, <1>5, <2>1, <2>2, <2>3, ReturnKeeps
<1>6. CASE ParsePage(r)
  <2>1. r.what = "ok"
    BY <1>6 DEF ParsePage
  <2> QED
    BY <1>1, <1>2, <1>3, <1>6, <2>1, ParsePageKeeps DEF Scraper
<1> QED
  BY <1>4, <1>5, <1>6 DEF BookBeat

(* One step of traverse keeps what is left to visit in shape.                *)
LEMMA TraverseTyped ==
    ASSUME stack \in Seq(Frame), stack # <<>>, out \in Seq(Seq(Nat)),
           page.tree \in Tree, Traverse
    PROVE  stack' \in Seq(Frame) /\ out' \in Seq(Seq(Nat))
<1> DEFINE top == Head(stack)
           width == Width(page.tree, top.path)
           push(o) == [i \in DOMAIN o |-> [path |-> Append(top.path, o[i]),
                                           depth |-> top.depth + 1]]
<1>1. top \in Frame /\ Tail(stack) \in Seq(Frame)
  OBVIOUS
<1>2. top.path \in Seq(Nat) /\ top.depth \in 0..(MaxTraverseDepth + 1)
  BY <1>1 DEF Frame
<1>3. width \in Nat
  <2>1. IsFiniteSet(DOMAIN page.tree)
    BY TreeAssumption
  <2>2. IsFiniteSet({q \in DOMAIN page.tree :
                        Within(top.path, q) /\ Len(q) = Len(top.path) + 1})
    BY <2>1, FS_Subset
  <2> QED
    BY <2>2, FS_CardinalityType DEF Width
<1>4. out' = out \/ out' = Append(out, top.path)
  BY Zenon DEF Traverse
<1>5. out' \in Seq(Seq(Nat))
  <2> HIDE DEF top
  <2>1. Append(out, top.path) \in Seq(Seq(Nat))
    BY <1>2, AppendProperties, Zenon
  <2> QED
    BY <1>4, <2>1, Zenon
<1>6. \/ stack' = Tail(stack)
      \/ ~TooDeep(top.depth) /\ \E o \in Orders(width) : stack' = push(o) \o Tail(stack)
  BY DEF Traverse
<1>7. ASSUME ~TooDeep(top.depth), NEW o \in Orders(width)
      PROVE  push(o) \in Seq(Frame)
  <2>1. o \in [1..width -> 1..width]
    BY DEF Orders
  <2>2. top.depth + 1 \in 0..(MaxTraverseDepth + 1)
    BY <1>2, <1>7, SizeAssumption DEF TooDeep
  <2>3. \A i \in 1..width : Append(top.path, o[i]) \in Seq(Nat)
    <3> SUFFICES ASSUME NEW i \in 1..width
                 PROVE  Append(top.path, o[i]) \in Seq(Nat)
      OBVIOUS
    <3> HIDE DEF top, width
    <3>1. o[i] \in Nat
      BY <1>3, <2>1
    <3> QED
      BY <1>2, <3>1, AppendProperties
  <2>4. \A i \in 1..width :
            [path |-> Append(top.path, o[i]), depth |-> top.depth + 1] \in Frame
    BY <2>2, <2>3 DEF Frame
  <2>5. DOMAIN o = 1..width
    BY <2>1
  <2> HIDE DEF top, width
  <2>6. push(o) \in [1..width -> Frame]
    BY <2>4, <2>5
  <2> QED
    BY <1>3, <2>6
<1> HIDE DEF top, width, push
<1>8. stack' \in Seq(Frame)
  BY <1>1, <1>6, <1>7, ConcatProperties
<1> QED
  BY <1>5, <1>8

LEMMA VisitKeeps ==
    ASSUME LookupInv, Visit
    PROVE  LookupInv'
<1>1. /\ at = "walk" /\ stack # <<>> /\ Traverse
      /\ UNCHANGED <<call, at, req, left, page, cands, err, effect, heard>>
  BY DEF Visit
<1>2. stack \in Seq(Frame) /\ out \in Seq(Seq(Nat))
  BY DEF LookupInv, TypeOK, Frame
<1>3. page \in Page
  BY <1>1 DEF LookupInv, AskSoFar
<1>4. page.tree \in Tree
  BY <1>3, LdShape
<1>5. stack' \in Seq(Frame) /\ out' \in Seq(Seq(Nat))
  BY <1>1, <1>2, <1>4, TraverseTyped
<1>6. TypeOK'
  BY <1>1, <1>5, Zenon DEF LookupInv, TypeOK, Frame
<1>7. Broken' = Broken /\ Paths' = Paths
  BY <1>1, BrokenFrame DEF Paths
<1>8. AskSoFar' /\ HeardSoFar' /\ HonestVerdict'
  BY <1>1, <1>7 DEF LookupInv, AskSoFar, HeardSoFar, HonestVerdict
<1> QED
  BY <1>6, <1>8 DEF LookupInv

(* The candidates of the books found.                                        *)
LEMMA BooksTyped ==
    ASSUME out \in Seq(Seq(Nat))
    PROVE  /\ Books \in Seq(Candidate) /\ Len(Books) = Len(out)
           /\ CutBooks(Books) \in Seq(Candidate) /\ Len(CutBooks(Books)) <= MaxBooks
<1>1. \A m : MapToCandidate(m) \in Candidate
  BY DEF MapToCandidate, StorytelMapToCandidate, BookBeatMapToCandidate,
         AudiotekaMapToCandidate, Candidate
<1>2. DOMAIN out = 1..Len(out) /\ Len(out) \in Nat
  OBVIOUS
<1>3. Books \in [1..Len(out) -> Candidate]
  BY <1>1, <1>2 DEF Books
<1>4. Books \in Seq(Candidate) /\ Len(Books) = Len(out)
  <2>1. \A n \in Nat : \A s \in [1..n -> Candidate] :
            s \in Seq(Candidate) /\ Len(s) = n
    OBVIOUS
  <2> QED
    BY <1>2, <1>3, <2>1, Zenon
<1>5. CASE Len(Books) > MaxBooks
  <2>1. MaxBooks \in Int /\ 1 \in Int /\ 1 <= MaxBooks
    BY SizeAssumption
  <2>2. \A i \in 1..MaxBooks : Books[i] \in Candidate
    BY <1>2, <1>3, <1>4, <1>5, <2>1
  <2>3. /\ SubSeq(Books, 1, MaxBooks) \in Seq(Candidate)
        /\ Len(SubSeq(Books, 1, MaxBooks)) = MaxBooks - 1 + 1
    BY <2>1, <2>2, SubSeqProperties
  <2>4. CutBooks(Books) = SubSeq(Books, 1, MaxBooks)
    BY <1>5 DEF CutBooks
  <2> QED
    BY <1>4, <2>1, <2>3, <2>4
<1>6. CASE ~(Len(Books) > MaxBooks)
  <2>1. CutBooks(Books) = Books
    BY <1>6 DEF CutBooks
  <2> QED
    BY <1>2, <1>4, <1>6, <2>1, SizeAssumption
<1> QED
  BY <1>5, <1>6

LEMMA PageReadKeeps ==
    ASSUME LookupInv, PageRead
    PROVE  LookupInv'
<1> DEFINE cs == CASE call.op = "Get"         -> ParseBookPage
                   [] call.op = "Search" /\ call.src = "audioteka"
                                              -> ParseAudiotekaSearchPage
                   [] OTHER                   -> ParseSearchPage
<1>1. /\ at = "walk" /\ call' = call /\ effect' = effect /\ heard' = heard
      /\ IF cs = <<>> THEN NextPath ELSE Return("none", cs)
  BY DEF PageRead
<1>2. page \in Page /\ call.src \in Scraper /\ call.op \in {"Get", "Search"}
  BY <1>1 DEF LookupInv, AskSoFar
<1>3. /\ Broken' = {} /\ heard' \in Seq(Heard) /\ heard' # <<>>
      /\ Len(heard') + left >= Paths + 1
  <2>1. Broken = {} /\ heard # <<>> /\ Len(heard) + left >= Paths + 1
    BY <1>1 DEF LookupInv, HeardSoFar
  <2> QED
    BY <1>1, <2>1, BrokenFrame, LeftType DEF LookupInv
<1>4. out \in Seq(Seq(Nat))
  BY DEF LookupInv, TypeOK
<1>5. ParseBookPage \in Seq(Candidate) /\ Len(ParseBookPage) \in {0, 1}
  <2>1. CASE out = <<>>
    <3>1. ParseBookPage = <<>>
      BY <2>1 DEF ParseBookPage
    <3> QED
      BY <3>1, EmptySeq
  <2>2. CASE out # <<>>
    <3>1. Len(out) \in Nat \ {0}
      BY <1>4, <2>2, EmptySeq
    <3>2. Books \in Seq(Candidate) /\ Len(Books) = Len(out)
      BY <1>4, BooksTyped
    <3>3. Books[1] \in Candidate
      BY <3>1, <3>2
    <3>4. GetCandidate(Books[1]) \in Candidate
      BY <3>3 DEF GetCandidate, Candidate
    <3>5. ParseBookPage = <<GetCandidate(Books[1])>>
      BY <2>2 DEF ParseBookPage
    <3> QED
      BY <3>4, <3>5
  <2> QED
    BY <2>1, <2>2
<1>6. /\ cs \in Seq(Candidate) /\ Len(cs) <= MaxBooks
      /\ call.op = "Get" => Len(cs) <= 1
  <2>1. CASE call.op = "Get"
    <3>1. cs = ParseBookPage
      BY <2>1
    <3>2. 0 <= 1 /\ 1 <= 1 /\ 0 <= MaxBooks /\ 1 <= MaxBooks
      BY SizeAssumption
    <3>3. Len(ParseBookPage) = 0 \/ Len(ParseBookPage) = 1
      BY <1>5
    <3> HIDE DEF cs
    <3> QED
      BY <1>5, <3>1, <3>2, <3>3, Zenon
  <2>2. CASE call.op # "Get"
    <3>1. CutBooks(Books) \in Seq(Candidate) /\ Len(CutBooks(Books)) <= MaxBooks
      BY <1>4, BooksTyped
    <3>2. page.ld \in Seq(Candidate) /\ Len(page.ld) <= MaxBooks
      BY <1>2, LdShape, SizeAssumption
    <3>3. cs = CutBooks(Books) \/ cs = page.ld
      BY <1>2, <2>2 DEF ParseAudiotekaSearchPage, ParseSearchPage
    <3> HIDE DEF cs
    <3> QED
      BY <2>2, <3>1, <3>2, <3>3, Zenon
  <2> QED
    BY <2>1, <2>2
<1>7. CASE cs = <<>>
  BY <1>1, <1>2, <1>3, <1>7, NextPathKeeps
<1>8. CASE cs # <<>>
  <2>1. /\ at' = "got" /\ left' = 0 /\ err' = "none" /\ cands' = cs
        /\ UNCHANGED <<req, walkVars>>
    BY <1>1, <1>8 DEF Return
  <2> HIDE DEF cs
  <2> QED
    BY <1>1, <1>3, <1>6, <1>8, <2>1, ReturnKeeps
<1> QED
  BY <1>7, <1>8

(* What the callers make of a lookup.                                        *)
LEMMA SettleKeeps ==
    ASSUME LookupInv, SearchDone \/ ProcessDone \/ GetMetadata \/ GetImages
    PROVE  LookupInv'
<1>1. /\ at = "got" /\ at' = "idle" /\ page' = NoPage /\ out' = <<>>
      /\ UNCHANGED <<call, req, left, stack, cands, err, heard>>
  BY DEF SearchDone, ProcessDone, SourceAdapter, GetMetadata, GetImages, Settle
<1>2. effect' \in {"found", "absent", "failed"}
  BY DEF SearchDone, ProcessDone, SourceAdapter, GetMetadata, GetImages, Settle
<1>3. TypeOK'
  <2>1. /\ at' \in {"idle", "ask", "walk", "got"} /\ at' # "ask" /\ at' # "got"
        /\ effect' \in {"none", "found", "absent", "failed"}
    BY <1>1, <1>2
  <2>2. out' \in Seq(Seq(Nat))
    BY <1>1
  <2> QED
    BY <1>1, <2>1, <2>2, Zenon DEF LookupInv, TypeOK
<1>4. Broken' = Broken /\ Paths' = Paths
  BY <1>1, BrokenFrame DEF Paths
<1>5. /\ call.caller = "search" => call.op = "Search"
      /\ call.caller \in {"item", "images"} => call.op = "Get"
      /\ call.op \in {"Get", "Search"} /\ err \in {"none", "notfound", "other"}
  BY <1>1 DEF LookupInv, TypeOK, AskSoFar
<1>6. /\ err = "other" <=> Broken # {}
      /\ err = "notfound" /\ call.op # "Get" =>
             call.src = "itunes" /\ heard[1].what = "404"
      /\ \/ Refuses(call.src, call.op, call.key) \/ cands # <<>>
         \/ err = "other" \/ Len(heard) >= Paths
  BY <1>1 DEF LookupInv, HeardSoFar
<1>7. /\ effect' = "absent" => err # "other"
      /\ effect' = "failed" => \/ err = "other"
                               \/ err = "notfound" /\ call.op = "Search"
  BY <1>5 DEF SearchDone, ProcessDone, SourceAdapter, GetMetadata, GetImages, Settle
<1>8. HonestVerdict'
  BY <1>1, <1>4, <1>5, <1>6, <1>7 DEF HonestVerdict
<1>9. AskSoFar' /\ HeardSoFar'
  BY <1>1 DEF AskSoFar, HeardSoFar
<1> QED
  BY <1>3, <1>8, <1>9 DEF LookupInv

-----------------------------------------------------------------------------
(* The invariant *)

LEMMA LookupInit == Init => LookupInv
<1> SUFFICES ASSUME Init PROVE LookupInv
  OBVIOUS
<1>1. TypeOK
  <2>1. /\ call \in [caller : Caller, src : Source, op : {"Get", "Search", "none"},
                     key : Key \cup {""}]
        /\ at \in {"idle", "ask", "walk", "got"} /\ at # "ask" /\ at # "got"
        /\ req \in Request /\ page = NoPage
        /\ err \in {"none", "notfound", "other"}
        /\ effect \in {"none", "found", "absent", "failed"}
    BY DEF Init, Caller, Source, Registered, Scraper, Request
  <2>2. left \in 0..(BookPaths + MaxItems)
    <3>1. left = 0
      BY DEF Init
    <3> QED
      BY <3>1, SizeAssumption
  <2>3. /\ stack \in Seq(Frame) /\ out \in Seq(Seq(Nat))
        /\ cands \in Seq(Candidate) /\ heard \in Seq(Heard)
    BY EmptySeq, Zenon DEF Init
  <2> QED
    BY <2>1, <2>2, <2>3, Zenon DEF TypeOK, Frame, Heard
<1>2. AskSoFar /\ HeardSoFar /\ HonestVerdict
  BY DEF Init, AskSoFar, HeardSoFar, HonestVerdict
<1> QED
  BY <1>1, <1>2 DEF LookupInv

LEMMA LookupStep == LookupInv /\ [Next]_vars => LookupInv'
<1> SUFFICES ASSUME LookupInv, [Next]_vars PROVE LookupInv'
  OBVIOUS
<1>1. CASE \E s \in Source : SearchOne(s)
  <2>1. PICK s \in Source, k \in Key : Question("search", s, "Search", k)
    BY <1>1 DEF SearchOne
  <2> QED
    BY <2>1, QuestionKeeps DEF Caller
<1>2. CASE \E s \in Source : \E row \in Row : Process(s, row)
  <2>1. PICK s \in Source, row \in Row : Process(s, row)
    BY <1>2
  <2>2. /\ row.asin # "" => row.asin \in Key
        /\ row.isbn # "" => row.isbn \in Key
    BY DEF Row
  <2>3. \/ row.text \in Key
        \/ row.text = ""
    BY DEF Row, Key
  <2>4. \/ NoQuestion("enrich", s)
        \/ \E op \in {"Get", "Search"}, k \in Key : Question("enrich", s, op, k)
    <3>1. row = [asin |-> row.asin, isbn |-> row.isbn, text |-> row.text]
      BY DEF Row
    <3> QED
      BY <2>1, <2>2, <2>3, <3>1 DEF Process
  <2> QED
    BY <2>4, QuestionKeeps, NoQuestionKeeps DEF Caller
<1>3. CASE \E s \in Source : \E c \in {"item", "images"} : Details(c, s)
  <2>1. PICK s \in Source, c \in {"item", "images"} : Details(c, s)
    BY <1>3
  <2>2. NoQuestion(c, s) \/ \E k \in Key : Question(c, s, "Get", k)
    BY <2>1 DEF Details
  <2> QED
    BY <2>2, QuestionKeeps, NoQuestionKeeps DEF Caller
<1>4. CASE \E r \in BookReply :
               AudiMeta("book", r) \/ AudiobookCovers(r) \/ AudnexusBook(r)
  BY <1>4, AudiMetaKeeps, AudiobookCoversKeeps, AudnexusBookKeeps
<1>5. CASE \E r \in ListReply :
               \/ AudiMeta("search", r) \/ ITunesGet(r) \/ ITunesSearch(r)
               \/ AudnexusAuthors(r)
  BY <1>5, AudiMetaKeeps, ITunesGetKeeps, ITunesSearchKeeps, AudnexusAuthorsKeeps
<1>6. CASE \E r \in Failure \cup Json({<<>>}) : AudnexusChapters(r)
  BY <1>6, AudnexusChaptersKeeps
<1>7. CASE \E q \in {"book", "search"}, r \in PageReply :
               Storytel(q, r) \/ BookBeat(q, r) \/ Audioteka(q, r)
  BY <1>7, StorytelKeeps, BookBeatKeeps
<1>8. CASE TraverseNextData \/ TraverseBookBeatNextData \/ TraverseAudiotekaData
  BY <1>8, VisitKeeps
     DEF TraverseNextData, TraverseBookBeatNextData, TraverseAudiotekaData
<1>9. CASE PageRead
  BY <1>9, PageReadKeeps
<1>10. CASE SearchDone \/ ProcessDone \/ GetMetadata \/ GetImages
  BY <1>10, SettleKeeps
<1>11. CASE UNCHANGED vars
  <2>1. /\ UNCHANGED <<call, at, req, left, page, stack, out>>
        /\ UNCHANGED <<cands, err, effect, heard>>
    BY <1>11 DEF vars
  <2>2. Broken' = Broken /\ Paths' = Paths
    BY <2>1, BrokenFrame DEF Paths
  <2>3. TypeOK'
    BY <2>1, Zenon DEF LookupInv, TypeOK
  <2>4. AskSoFar'
    BY <2>1 DEF LookupInv, AskSoFar, ByAuthor
  <2>5. HeardSoFar'
    BY <2>1, <2>2 DEF LookupInv, HeardSoFar
  <2>6. HonestVerdict'
    BY <2>1, <2>2 DEF LookupInv, HonestVerdict
  <2> QED
    BY <2>3, <2>4, <2>5, <2>6 DEF LookupInv
<1> QED
  BY <1>1, <1>2, <1>3, <1>4, <1>5, <1>6, <1>7, <1>8, <1>9, <1>10, <1>11 DEF Next

LEMMA LookupInvariant == Spec => []LookupInv
BY LookupInit, LookupStep, PTL DEF Spec

(* Whatever a source answers, a lookup keeps its types; with them a Get has  *)
(* at most one candidate and a scraped page yields at most MaxBooks, however *)
(* many books it holds and however they nest.                                *)
THEOREM LookupTypeCorrect == Spec => []TypeOK
<1>1. LookupInv => TypeOK
  BY DEF LookupInv
<1> QED
  BY <1>1, LookupInvariant, PTL

(* An adapter takes an outage for an absence only where Audnexus passes over *)
(* chapters or single books of an author, and an absence for an outage only  *)
(* where iTunes answers a search with a 404; for any number of paths, books  *)
(* of an author and candidates of a page.                                    *)
THEOREM VerdictsAreHonest == Spec => []HonestVerdict
<1>1. LookupInv => HonestVerdict
  BY DEF LookupInv
<1> QED
  BY <1>1, LookupInvariant, PTL

(* What the two exceptions leave.  Storytel, BookBeat, Audioteka, AudiMeta,  *)
(* AudiobookCovers and iTunes never report an absence when any response to   *)
(* the question was lost or did not decode, and a source other than iTunes   *)
(* never fails when all of them came and decoded.                            *)
THEOREM OutagesAlwaysShow == Spec => []OutagesShow
<1>1. HonestVerdict => OutagesShow
  <2>1. Broken # {} => \E i \in DOMAIN heard :
                          heard[i].what \in {"lost", "undecodable"}
    BY DEF Broken
  <2>2. call.src # "audnexus" /\ Broken = {} =>
            ~ \E i \in DOMAIN heard : heard[i].what \in {"lost", "undecodable"}
    BY DEF Broken, PassedOver
  <2> QED
    BY <2>1, <2>2 DEF HonestVerdict, OutagesShow
<1> QED
  BY <1>1, VerdictsAreHonest, PTL

-----------------------------------------------------------------------------
(* Paths of a tree, position by position *)

LEMMA SubSeqPoint ==
    ASSUME NEW p \in Seq(Nat), NEW n \in Nat, n <= Len(p)
    PROVE  /\ SubSeq(p, 1, n) \in Seq(Nat) /\ Len(SubSeq(p, 1, n)) = n
           /\ \A i \in 1..n : SubSeq(p, 1, n)[i] = p[i]
<1>1. \A i \in 1..n : p[i] \in Nat
  BY ElementOfSeq
<1>2. /\ SubSeq(p, 1, n) \in Seq(Nat)
      /\ Len(SubSeq(p, 1, n)) = IF 1 <= n THEN n - 1 + 1 ELSE 0
      /\ \A i \in 1..(n - 1 + 1) : SubSeq(p, 1, n)[i] = p[1 + i - 1]
  BY <1>1, SubSeqProperties
<1> QED
  BY <1>2

LEMMA PrefixPoint ==
    ASSUME NEW p \in Seq(Nat), NEW q \in Seq(Nat), NEW n \in Nat,
           n <= Len(p), n <= Len(q)
    PROVE  SubSeq(p, 1, n) = SubSeq(q, 1, n) <=> \A i \in 1..n : p[i] = q[i]
<1>1. /\ SubSeq(p, 1, n) \in Seq(Nat) /\ Len(SubSeq(p, 1, n)) = n
      /\ \A i \in 1..n : SubSeq(p, 1, n)[i] = p[i]
  BY SubSeqPoint
<1>2. /\ SubSeq(q, 1, n) \in Seq(Nat) /\ Len(SubSeq(q, 1, n)) = n
      /\ \A i \in 1..n : SubSeq(q, 1, n)[i] = q[i]
  BY SubSeqPoint
<1>3. ASSUME \A i \in 1..n : p[i] = q[i]
      PROVE  SubSeq(p, 1, n) = SubSeq(q, 1, n)
  BY <1>1, <1>2, <1>3, SeqEqual
<1> QED
  BY <1>1, <1>2, <1>3

LEMMA WithinPoint ==
    ASSUME NEW p \in Seq(Nat), NEW q \in Seq(Nat)
    PROVE  Within(p, q) <=> /\ Len(p) < Len(q)
                            /\ \A i \in 1..Len(p) : p[i] = q[i]
<1>1. SubSeq(p, 1, Len(p)) = p /\ Len(p) \in Nat /\ Len(q) \in Nat
  BY SubSeqFull
<1>2. CASE Len(p) < Len(q)
  <2>1. SubSeq(p, 1, Len(p)) = SubSeq(q, 1, Len(p)) <=> \A i \in 1..Len(p) : p[i] = q[i]
    BY <1>1, <1>2, PrefixPoint
  <2> QED
    BY <1>1, <1>2, <2>1 DEF Within
<1> QED
  BY <1>2 DEF Within

LEMMA ChildPoint ==
    ASSUME NEW t \in Seq(Nat), NEW x \in Nat
    PROVE  /\ Append(t, x) \in Seq(Nat) /\ Len(Append(t, x)) = Len(t) + 1
           /\ Len(t) \in Nat /\ Append(t, x)[Len(t) + 1] = x
           /\ \A i \in 1..Len(t) : Append(t, x)[i] = t[i]
BY AppendProperties

(* Everything above a child is above its parent, or is the parent.           *)
LEMMA AboveChild ==
    ASSUME NEW t \in Seq(Nat), NEW x \in Nat, NEW q \in Seq(Nat),
           Within(q, Append(t, x))
    PROVE  q = t \/ Within(q, t)
<1>1. /\ Append(t, x) \in Seq(Nat) /\ Len(Append(t, x)) = Len(t) + 1
      /\ Len(t) \in Nat /\ \A i \in 1..Len(t) : Append(t, x)[i] = t[i]
  BY ChildPoint
<1>2. /\ Len(q) < Len(Append(t, x))
      /\ \A i \in 1..Len(q) : q[i] = Append(t, x)[i]
  BY <1>1, WithinPoint, Zenon
<1>6. Len(q) \in Nat
  OBVIOUS
<1>7. Len(q) < Len(t) + 1 /\ Len(q) <= Len(t)
  BY <1>1, <1>2, <1>6
<1>3. \A i \in 1..Len(q) : q[i] = t[i]
  <2> SUFFICES ASSUME NEW i \in 1..Len(q) PROVE q[i] = t[i]
    OBVIOUS
  <2>1. i \in 1..Len(t)
    BY <1>1, <1>6, <1>7
  <2> QED
    BY <1>1, <1>2, <2>1, Zenon
<1>4. CASE Len(q) = Len(t)
  BY <1>3, <1>4, SeqEqual
<1>5. CASE Len(q) < Len(t)
  BY <1>3, <1>5, WithinPoint
<1> QED
  BY <1>1, <1>6, <1>7, <1>4, <1>5

(* Apart: the two differ somewhere.                                          *)
LEMMA ApartPoint ==
    ASSUME NEW p \in Seq(Nat), NEW q \in Seq(Nat)
    PROVE  Apart(p, q) <=> \E i \in 1..Len(p) : i \in 1..Len(q) /\ p[i] # q[i]
<1>1. Len(p) \in Nat /\ Len(q) \in Nat
  OBVIOUS
<1>2. Within(p, q) <=> Len(p) < Len(q) /\ \A i \in 1..Len(p) : p[i] = q[i]
  BY WithinPoint
<1>3. Within(q, p) <=> Len(q) < Len(p) /\ \A i \in 1..Len(q) : q[i] = p[i]
  BY WithinPoint
<1>4. p = q <=> Len(p) = Len(q) /\ \A i \in 1..Len(p) : p[i] = q[i]
  BY SeqEqual
<1>5. ASSUME \A i \in 1..Len(p) : i \in 1..Len(q) => p[i] = q[i]
      PROVE  ~Apart(p, q)
  <2>1. CASE Len(p) < Len(q)
    BY <1>1, <1>2, <1>5, <2>1 DEF Apart
  <2>2. CASE Len(q) < Len(p)
    BY <1>1, <1>3, <1>5, <2>2 DEF Apart
  <2>3. CASE Len(q) = Len(p)
    BY <1>1, <1>4, <1>5, <2>3 DEF Apart
  <2> QED
    BY <1>1, <2>1, <2>2, <2>3
<1>6. ASSUME NEW i \in 1..Len(p), i \in 1..Len(q), p[i] # q[i]
      PROVE  Apart(p, q)
  BY <1>1, <1>2, <1>3, <1>4, <1>6 DEF Apart
<1> QED
  BY <1>5, <1>6

Before(tree, p, q) ==
    \A n \in 0..(Len(p) - 1) :
        /\ n < Len(q) /\ \A i \in 1..n : p[i] = q[i]
        /\ tree[SubSeq(p, 1, n)].kind = "list"
        => p[n + 1] <= q[n + 1]

LEMMA OrderPoint ==
    ASSUME NEW tree, NEW p \in Seq(Nat), NEW q \in Seq(Nat)
    PROVE  InListOrder(tree, p, q) <=> Before(tree, p, q)
<1>1. Len(p) \in Nat /\ Len(q) \in Nat
  OBVIOUS
<1>2. ASSUME NEW n \in 0..(Len(p) - 1), n < Len(q)
      PROVE  SubSeq(p, 1, n) = SubSeq(q, 1, n) <=> \A i \in 1..n : p[i] = q[i]
  <2>1. n \in Nat /\ n <= Len(p) /\ n <= Len(q)
    BY <1>1, <1>2
  <2> QED
    BY <2>1, PrefixPoint
<1> QED
  BY <1>2 DEF InListOrder, Before

LEMMA ChildPrefix ==
    ASSUME NEW t \in Seq(Nat), NEW x \in Nat, NEW n \in 0..Len(t)
    PROVE  SubSeq(Append(t, x), 1, n) = SubSeq(t, 1, n)
<1>1. /\ Append(t, x) \in Seq(Nat) /\ Len(Append(t, x)) = Len(t) + 1
      /\ Len(t) \in Nat /\ \A i \in 1..Len(t) : Append(t, x)[i] = t[i]
  BY ChildPoint
<1>2. n \in Nat /\ n <= Len(Append(t, x)) /\ n <= Len(t)
  BY <1>1
<1>3. \A i \in 1..n : Append(t, x)[i] = t[i]
  BY <1>1, <1>2
<1> QED
  BY <1>1, <1>2, <1>3, PrefixPoint

(* A child takes the place of its parent in the line.                        *)
LEMMA ChildAfter ==
    ASSUME NEW tree, NEW u \in Seq(Nat), NEW t \in Seq(Nat), NEW x \in Nat,
           InLine(tree, u, t)
    PROVE  InLine(tree, u, Append(t, x))
<1> DEFINE c == Append(t, x)
<1>1. /\ c \in Seq(Nat) /\ Len(c) = Len(t) + 1 /\ Len(t) \in Nat
      /\ \A i \in 1..Len(t) : c[i] = t[i]
  BY ChildPoint
<1> HIDE DEF c
<1>2. PICK k \in 1..Len(u) : k \in 1..Len(t) /\ u[k] # t[k]
  BY ApartPoint DEF InLine
<1>3. k \in 1..Len(c) /\ u[k] # c[k] /\ Len(u) \in Nat
  BY <1>1, <1>2
<1>4. Apart(u, c)
  BY <1>1, <1>2, <1>3, ApartPoint
<1>5. Before(tree, u, t)
  BY OrderPoint DEF InLine
<1>6. Before(tree, u, c)
  <2> SUFFICES ASSUME NEW n \in 0..(Len(u) - 1), n < Len(c),
                      \A i \in 1..n : u[i] = c[i],
                      tree[SubSeq(u, 1, n)].kind = "list"
               PROVE  u[n + 1] <= c[n + 1]
    BY DEF Before
  <2>1. n < Len(t)
    BY <1>1, <1>2, <1>3
  <2>2. \A i \in 1..n : u[i] = t[i]
    BY <1>1, <2>1
  <2>3. u[n + 1] <= t[n + 1]
    BY <1>5, <2>1, <2>2 DEF Before
  <2>4. n + 1 \in 1..Len(t)
    BY <1>1, <1>3, <2>1
  <2>5. c[n + 1] = t[n + 1]
    BY <1>1, <2>4
  <2> QED
    BY <2>3, <2>5
<1> QED
  BY <1>1, <1>4, <1>6, OrderPoint DEF InLine, c

LEMMA ChildBefore ==
    ASSUME NEW tree, NEW v \in Seq(Nat), NEW t \in Seq(Nat), NEW x \in Nat,
           InLine(tree, t, v)
    PROVE  InLine(tree, Append(t, x), v)
<1> DEFINE c == Append(t, x)
<1>1. /\ c \in Seq(Nat) /\ Len(c) = Len(t) + 1 /\ Len(t) \in Nat
      /\ \A i \in 1..Len(t) : c[i] = t[i]
  BY ChildPoint
<1>7. \A n \in 0..Len(t) : SubSeq(c, 1, n) = SubSeq(t, 1, n)
  BY ChildPrefix
<1> HIDE DEF c
<1>2. PICK k \in 1..Len(t) : k \in 1..Len(v) /\ t[k] # v[k]
  BY ApartPoint DEF InLine
<1>3. k \in 1..Len(c) /\ v[k] # c[k] /\ Len(v) \in Nat
  BY <1>1, <1>2
<1>4. Apart(c, v)
  BY <1>1, <1>2, <1>3, ApartPoint
<1>5. Before(tree, t, v)
  BY OrderPoint DEF InLine
<1>6. Before(tree, c, v)
  <2> SUFFICES ASSUME NEW n \in 0..(Len(c) - 1), n < Len(v),
                      \A i \in 1..n : c[i] = v[i],
                      tree[SubSeq(c, 1, n)].kind = "list"
               PROVE  c[n + 1] <= v[n + 1]
    BY DEF Before
  <2>1. n < Len(t) /\ n \in 0..(Len(t) - 1) /\ n \in 0..Len(t)
    BY <1>1, <1>2, <1>3
  <2>2. \A i \in 1..n : t[i] = v[i]
    BY <1>1, <2>1
  <2>3. SubSeq(c, 1, n) = SubSeq(t, 1, n)
    BY <1>7, <2>1
  <2>4. t[n + 1] <= v[n + 1]
    BY <1>5, <2>1, <2>2, <2>3 DEF Before
  <2>5. c[n + 1] = t[n + 1]
    BY <1>1, <2>1
  <2> QED
    BY <2>4, <2>5
<1> QED
  BY <1>1, <1>4, <1>6, OrderPoint DEF InLine, c

LEMMA Siblings ==
    ASSUME NEW tree, NEW t \in Seq(Nat), NEW x \in Nat, NEW y \in Nat, x # y,
           tree[t].kind = "list" => x <= y
    PROVE  InLine(tree, Append(t, x), Append(t, y))
<1> DEFINE c == Append(t, x)
           d == Append(t, y)
<1>1. /\ c \in Seq(Nat) /\ Len(c) = Len(t) + 1 /\ Len(t) \in Nat
      /\ c[Len(t) + 1] = x /\ \A i \in 1..Len(t) : c[i] = t[i]
  BY ChildPoint
<1>2. /\ d \in Seq(Nat) /\ Len(d) = Len(t) + 1
      /\ d[Len(t) + 1] = y /\ \A i \in 1..Len(t) : d[i] = t[i]
  BY ChildPoint
<1>3. SubSeq(c, 1, Len(t)) = t
  BY <1>1, ChildPrefix, SubSeqFull
<1> HIDE DEF c, d
<1>4. Len(t) + 1 \in 1..Len(c) /\ Len(t) + 1 \in 1..Len(d)
  BY <1>1, <1>2
<1>5. Apart(c, d)
  BY <1>1, <1>2, <1>4, ApartPoint
<1>6. Before(tree, c, d)
  <2> SUFFICES ASSUME NEW n \in 0..(Len(c) - 1),
                      tree[SubSeq(c, 1, n)].kind = "list"
               PROVE  c[n + 1] <= d[n + 1]
    BY DEF Before
  <2>1. CASE n = Len(t)
    BY <1>1, <1>2, <1>3, <2>1
  <2>2. CASE n < Len(t)
    <3>1. n + 1 \in 1..Len(t) /\ t[n + 1] \in Nat
      BY <1>1, <2>2
    <3>2. c[n + 1] = t[n + 1] /\ d[n + 1] = t[n + 1]
      BY <1>1, <1>2, <3>1
    <3> QED
      BY <3>1, <3>2
  <2> QED
    BY <1>1, <2>1, <2>2
<1> QED
  BY <1>1, <1>2, <1>5, <1>6, OrderPoint DEF InLine, c, d

(* The children of a node are numbered without a gap, so that whatever is    *)
(* below the node is one of them or below one.                               *)
LEMMA BelowIsBelowChild ==
    ASSUME NEW tree \in Tree, NEW t \in DOMAIN tree, NEW p \in DOMAIN tree,
           Within(t, p)
    PROVE  \E x \in 1..Width(tree, t) : \/ Append(t, x) = p
                                        \/ Within(Append(t, x), p)
<1> DEFINE C == {q \in DOMAIN tree : Within(t, q) /\ Len(q) = Len(t) + 1}
           w == Width(tree, t)
           f == [i \in 1..w |-> Append(t, i)]
           m == Len(t) + 1
           c == SubSeq(p, 1, m)
<1>1. /\ DOMAIN tree \subseteq Seq(Nat) /\ IsFiniteSet(DOMAIN tree)
      /\ \A i \in DOMAIN p : SubSeq(p, 1, i - 1) \in DOMAIN tree
      /\ \A i \in 1..w : Append(t, i) \in DOMAIN tree
  BY TreeAssumption
<1>2. t \in Seq(Nat) /\ p \in Seq(Nat) /\ Len(t) \in Nat /\ Len(p) \in Nat
  BY <1>1
<1>3. Len(t) < Len(p) /\ \A i \in 1..Len(t) : t[i] = p[i]
  BY <1>2, WithinPoint
<1>4. IsFiniteSet(C) /\ Cardinality(C) = w /\ w \in Nat
  <2>1. IsFiniteSet(C)
    BY <1>1, FS_Subset
  <2> QED
    BY <2>1, FS_CardinalityType DEF Width
<1>5. f \in Injection(1..w, C)
  <2>1. ASSUME NEW i \in 1..w PROVE Append(t, i) \in C
    <3>1. /\ Append(t, i) \in Seq(Nat) /\ Len(Append(t, i)) = Len(t) + 1
          /\ \A k \in 1..Len(t) : Append(t, i)[k] = t[k]
      BY <1>2, <1>4, ChildPoint
    <3>2. Len(t) < Len(Append(t, i)) /\ \A k \in 1..Len(t) : t[k] = Append(t, i)[k]
      BY <1>2, <3>1
    <3>3. Within(t, Append(t, i))
      BY <1>2, <3>1, <3>2, WithinPoint, Zenon
    <3> QED
      BY <1>1, <3>1, <3>3
  <2>2. ASSUME NEW i \in 1..w, NEW j \in 1..w, Append(t, i) = Append(t, j) PROVE i = j
    <3>1. Append(t, i)[Len(t) + 1] = i /\ Append(t, j)[Len(t) + 1] = j
      BY <1>2, <1>4, ChildPoint
    <3> QED
      BY <2>2, <3>1
  <2> HIDE DEF C, w
  <2>3. f \in [1..w -> C] /\ \A i \in 1..w : f[i] = Append(t, i)
    BY <2>1
  <2> HIDE DEF f
  <2> QED
    BY <2>2, <2>3, Zenon DEF Injection, IsInjective
<1>6. f \in Surjection(1..w, C)
  <2> HIDE DEF C, w, f
  <2>1. Cardinality(1..w) = w
    BY <1>4, FS_Interval
  <2> QED
    BY <1>4, <1>5, <2>1, FS_Injection
<1>7. /\ c \in Seq(Nat) /\ Len(c) = m /\ m \in Nat /\ m <= Len(p)
      /\ \A i \in 1..m : c[i] = p[i]
  <2>1. m \in Nat /\ m <= Len(p)
    BY <1>2, <1>3
  <2> QED
    BY <1>2, <2>1, SubSeqPoint
<1>8. c \in C
  <2>1. c \in DOMAIN tree
    <3>1. CASE m = Len(p)
      BY <1>2, <3>1, SubSeqFull
    <3>2. CASE m < Len(p)
      <4>1. m + 1 \in DOMAIN p /\ (m + 1) - 1 = m
        BY <1>2, <1>7, <3>2
      <4> HIDE DEF m
      <4> QED
        BY <1>1, <4>1
    <3> QED
      BY <1>2, <1>7, <3>1, <3>2
  <2>2. Within(t, c)
    <3> HIDE DEF c
    <3>1. ASSUME NEW i \in 1..Len(t) PROVE t[i] = c[i]
      <4>1. i \in 1..m
        BY <1>2
      <4> HIDE DEF m
      <4> QED
        BY <1>3, <1>7, <4>1
    <3> QED
      BY <1>2, <1>7, <3>1, WithinPoint
  <2> QED
    BY <1>7, <2>1, <2>2
<1>9. PICK x \in 1..w : Append(t, x) = c
  <2> HIDE DEF C, w, c
  <2> QED
    BY <1>6, <1>8 DEF Surjection
<1>10. c = p \/ Within(c, p)
  <2> HIDE DEF c
  <2>1. CASE m = Len(p)
    BY <1>2, <1>7, <2>1, SeqEqual
  <2>2. CASE m < Len(p)
    BY <1>2, <1>7, <2>2, WithinPoint
  <2> QED
    BY <1>2, <1>7, <2>1, <2>2
<1> QED
  BY <1>9, <1>10

(* Whatever order the range has, every child has its turn.                   *)
LEMMA OrdersReach ==
    ASSUME NEW w \in Nat, NEW o \in Orders(w), NEW x \in 1..w
    PROVE  \E i \in 1..w : o[i] = x
<1>1. o \in Injection(1..w, 1..w)
  BY DEF Orders, Injection, IsInjective
<1>2. IsFiniteSet(1..w)
  BY FS_Interval
<1>3. o \in Surjection(1..w, 1..w)
  BY <1>1, <1>2, FS_Injection
<1> QED
  BY <1>3 DEF Surjection

-----------------------------------------------------------------------------
(* The line of what is found and what is still to be visited *)

LEMMA FrameFields ==
    \A p, d : /\ [path |-> p, depth |-> d].path = p
              /\ [path |-> p, depth |-> d].depth = d
OBVIOUS

LEMMA FrameDepth ==
    ASSUME NEW p, NEW d, NEW f, f = [path |-> p, depth |-> d]
    PROVE  f.depth = d
OBVIOUS

(* The line without its first entry, and with that entry found.              *)
LEMMA DropTop ==
    ASSUME NEW tree \in Tree, NEW ou \in Seq(Seq(Nat)), NEW st \in Seq(Frame),
           st # <<>>, StackSound(tree, st), AllInLine(tree, ou, st)
    PROVE  StackSound(tree, Tail(st)) /\ AllInLine(tree, ou, Tail(st))
<1> DEFINE rest == Tail(st)
<1>1. /\ rest \in Seq(Frame) /\ Len(rest) = Len(st) - 1 /\ Len(st) \in Nat
      /\ \A i \in 1..Len(rest) : rest[i] = st[i + 1]
  BY HeadTailProperties
<1>2. DOMAIN st = 1..Len(st) /\ DOMAIN rest = 1..Len(rest)
  BY <1>1
<1> HIDE DEF rest
<1>3. ASSUME NEW i \in DOMAIN rest
      PROVE  i \in Nat /\ i + 1 \in DOMAIN st /\ rest[i] = st[i + 1]
  BY <1>1, <1>2
<1>4. StackSound(tree, rest)
  BY <1>3, Zenon DEF StackSound
<1>5. ASSUME NEW i \in DOMAIN ou, NEW j \in DOMAIN rest
      PROVE  InLine(tree, ou[i], rest[j].path)
  BY <1>3, Zenon DEF AllInLine
<1>6. ASSUME NEW i \in DOMAIN rest, NEW j \in DOMAIN rest, i < j
      PROVE  InLine(tree, rest[i].path, rest[j].path)
  <2>1. i + 1 < j + 1
    BY <1>3, <1>6
  <2> QED
    BY <1>3, <2>1, Zenon DEF AllInLine
<1>7. AllInLine(tree, ou, rest)
  BY <1>5, <1>6, Zenon DEF AllInLine
<1> QED
  BY <1>4, <1>7 DEF rest

LEMMA MoveTop ==
    ASSUME NEW tree \in Tree, NEW ou \in Seq(Seq(Nat)), NEW st \in Seq(Frame),
           st # <<>>, StackSound(tree, st), AllInLine(tree, ou, st)
    PROVE  AllInLine(tree, Append(ou, st[1].path), Tail(st))
<1> DEFINE rest == Tail(st)
           t == st[1].path
           found == Append(ou, t)
<1>1. /\ rest \in Seq(Frame) /\ Len(rest) = Len(st) - 1 /\ Len(st) \in Nat
      /\ \A i \in 1..Len(rest) : rest[i] = st[i + 1]
  BY HeadTailProperties
<1>2. DOMAIN st = 1..Len(st) /\ DOMAIN rest = 1..Len(rest) /\ 1 \in DOMAIN st
  BY <1>1, EmptySeq
<1>3. t \in Seq(Nat)
  <2>1. st[1] \in Frame
    BY <1>2, ElementOfSeq
  <2> QED
    BY <2>1 DEF Frame
<1>4. DOMAIN ou = 1..Len(ou) /\ Len(ou) \in Nat
  OBVIOUS
<1>5. /\ DOMAIN found = 1..(Len(ou) + 1) /\ found[Len(ou) + 1] = t
      /\ \A i \in 1..Len(ou) : found[i] = ou[i]
  BY <1>3, <1>4, AppendProperties
<1> HIDE DEF rest, t, found
<1>6. ASSUME NEW j \in DOMAIN rest
      PROVE  j \in Nat /\ j + 1 \in DOMAIN st /\ rest[j] = st[j + 1] /\ 1 < j + 1
  BY <1>1, <1>2
<1>7. ASSUME NEW i \in DOMAIN found
      PROVE  \/ i \in DOMAIN ou /\ found[i] = ou[i]
             \/ i = Len(ou) + 1 /\ found[i] = t
  BY <1>4, <1>5
<1>8. AllInLine(tree, ou, rest)
  BY DropTop DEF rest
<1>9. ASSUME NEW i \in DOMAIN found, NEW j \in DOMAIN found, i < j
      PROVE  InLine(tree, found[i], found[j])
  <2>1. i \in DOMAIN ou /\ found[i] = ou[i]
    BY <1>4, <1>5, <1>7, <1>9
  <2>2. CASE j \in DOMAIN ou /\ found[j] = ou[j]
    BY <1>9, <2>1, <2>2, Zenon DEF AllInLine
  <2>3. CASE found[j] = t
    BY <1>2, <2>1, <2>3, Zenon DEF AllInLine, t
  <2> QED
    BY <1>7, <2>2, <2>3
<1>10. ASSUME NEW i \in DOMAIN found, NEW j \in DOMAIN rest
       PROVE  InLine(tree, found[i], rest[j].path)
  <2>1. CASE i \in DOMAIN ou /\ found[i] = ou[i]
    BY <1>8, <2>1, Zenon DEF AllInLine
  <2>2. CASE found[i] = t
    BY <1>2, <1>6, <2>2, Zenon DEF AllInLine, t
  <2> QED
    BY <1>7, <2>1, <2>2
<1>11. \A i, j \in DOMAIN rest : i < j => InLine(tree, rest[i].path, rest[j].path)
  BY <1>8, Zenon DEF AllInLine
<1>12. AllInLine(tree, found, rest)
  BY <1>9, <1>10, <1>11, Zenon DEF AllInLine
<1> QED
  BY <1>12 DEF rest, t, found

(* The children of the first entry, in the order o, take its place.          *)
Children(f, o) == [i \in DOMAIN o |-> [path |-> Append(f.path, o[i]),
                                       depth |-> f.depth + 1]]

LEMMA ChildrenTyped ==
    ASSUME NEW f \in Frame, ~TooDeep(f.depth), NEW w \in Nat, NEW o \in Orders(w)
    PROVE  Children(f, o) \in Seq(Frame)
<1>1. o \in [1..w -> 1..w]
  BY DEF Orders
<1>2. f.path \in Seq(Nat) /\ f.depth \in 0..(MaxTraverseDepth + 1)
  BY DEF Frame
<1>3. f.depth + 1 \in 0..(MaxTraverseDepth + 1)
  BY <1>2, SizeAssumption DEF TooDeep
<1>4. ASSUME NEW i \in 1..w PROVE Append(f.path, o[i]) \in Seq(Nat)
  <2>1. o[i] \in Nat
    BY <1>1
  <2> QED
    BY <1>2, <2>1, AppendProperties
<1>5. \A i \in 1..w : [path |-> Append(f.path, o[i]), depth |-> f.depth + 1] \in Frame
  BY <1>3, <1>4 DEF Frame
<1>6. Children(f, o) \in [1..w -> Frame]
  BY <1>1, <1>5 DEF Children
<1> QED
  BY <1>6

(* Pushed in the order o of w children.                                      *)
Pushed(st, w, o, st2) ==
    /\ \A i \in 1..w : /\ i \in DOMAIN st2 /\ o[i] \in 1..w
                       /\ st2[i] = [path |-> Append(st[1].path, o[i]),
                                    depth |-> st[1].depth + 1]
    /\ \A k \in DOMAIN st :
           k # 1 => w + k - 1 \in DOMAIN st2 /\ st2[w + k - 1] = st[k]
    /\ \A i \in DOMAIN st2 :
           i \in 1..w \/ \E k \in DOMAIN st : k # 1 /\ i = w + k - 1
    /\ DOMAIN st \subseteq Nat

LEMMA PushPoint ==
    ASSUME NEW st \in Seq(Frame), st # <<>>,
           NEW w \in Nat, NEW o \in Orders(w), Children(st[1], o) \in Seq(Frame),
           NEW st2, st2 = Children(st[1], o) \o Tail(st)
    PROVE  Pushed(st, w, o, st2)
<1>1. o \in [1..w -> 1..w]
  BY DEF Orders
<1> DEFINE ch == Children(st[1], o)
           rest == Tail(st)
<1>2. /\ rest \in Seq(Frame) /\ Len(rest) = Len(st) - 1 /\ Len(st) \in Nat
      /\ \A i \in 1..Len(rest) : rest[i] = st[i + 1]
  BY HeadTailProperties
<1>3. /\ DOMAIN ch = 1..w
      /\ \A i \in 1..w : ch[i] = [path |-> Append(st[1].path, o[i]),
                                  depth |-> st[1].depth + 1]
  BY <1>1 DEF Children
<1> HIDE DEF ch, rest
<1>4. ch \in Seq(Frame)
  BY DEF ch
<1>5. Len(ch) = w
  BY <1>3, <1>4
<1>6. /\ st2 \in Seq(Frame) /\ Len(st2) = w + Len(rest)
      /\ \A i \in 1..(w + Len(rest)) : st2[i] = IF i <= w THEN ch[i] ELSE rest[i - w]
  BY <1>2, <1>4, <1>5, ConcatProperties DEF ch, rest
<1>7. DOMAIN st2 = 1..(w + Len(rest)) /\ DOMAIN st = 1..Len(st) /\ Len(rest) \in Nat
  BY <1>2, <1>6
<1>8. ASSUME NEW i \in 1..w
      PROVE  /\ i \in DOMAIN st2 /\ o[i] \in 1..w
             /\ st2[i] = [path |-> Append(st[1].path, o[i]),
                          depth |-> st[1].depth + 1]
  <2>1. i \in 1..(w + Len(rest)) /\ i <= w
    BY <1>7
  <2>2. st2[i] = ch[i]
    BY <1>6, <2>1
  <2> QED
    BY <1>1, <1>3, <1>7, <2>1, <2>2
<1>9. ASSUME NEW k \in DOMAIN st, k # 1
      PROVE  w + k - 1 \in DOMAIN st2 /\ st2[w + k - 1] = st[k]
  <2>1. /\ w + k - 1 \in 1..(w + Len(rest)) /\ ~(w + k - 1 <= w)
        /\ (w + k - 1) - w \in 1..Len(rest) /\ ((w + k - 1) - w) + 1 = k
    BY <1>2, <1>7, <1>9
  <2>2. st2[w + k - 1] = rest[(w + k - 1) - w]
    BY <1>6, <2>1, Zenon
  <2>3. rest[(w + k - 1) - w] = st[((w + k - 1) - w) + 1]
    BY <1>2, <2>1, Zenon
  <2> QED
    BY <1>7, <2>1, <2>2, <2>3, Zenon
<1>10. ASSUME NEW i \in DOMAIN st2, i \notin 1..w
       PROVE  \E k \in DOMAIN st : k # 1 /\ i = w + k - 1
  <2>1. /\ i - w + 1 \in 1..Len(st) /\ i - w + 1 # 1 /\ i = w + (i - w + 1) - 1
    BY <1>2, <1>7, <1>10
  <2> QED
    BY <1>7, <2>1, Zenon
<1>11. DOMAIN st \subseteq Nat
  BY <1>7
<1> QED
  BY <1>8, <1>9, <1>10, <1>11, Zenon DEF Pushed

LEMMA OpenTop ==
    ASSUME NEW tree \in Tree, NEW ou \in Seq(Seq(Nat)), NEW st \in Seq(Frame),
           st # <<>>, StackSound(tree, st), AllInLine(tree, ou, st),
           NEW w \in Nat, w = Width(tree, st[1].path), NEW o \in Orders(w),
           tree[st[1].path].kind = "list" => \A i \in 1..w : o[i] = i,
           ~IsRecord(tree, st[1].path), Children(st[1], o) \in Seq(Frame),
           NEW st2, st2 = Children(st[1], o) \o Tail(st)
    PROVE  StackSound(tree, st2) /\ AllInLine(tree, ou, st2)
<1>1. /\ \A i \in 1..w :
             /\ i \in DOMAIN st2 /\ o[i] \in 1..w
             /\ st2[i] = [path |-> Append(st[1].path, o[i]),
                          depth |-> st[1].depth + 1]
      /\ \A k \in DOMAIN st :
             k # 1 => w + k - 1 \in DOMAIN st2 /\ st2[w + k - 1] = st[k]
      /\ \A i \in DOMAIN st2 :
             i \in 1..w \/ \E k \in DOMAIN st : k # 1 /\ i = w + k - 1
      /\ DOMAIN st \subseteq Nat
  <2>1. Pushed(st, w, o, st2)
    BY PushPoint
  <2> QED
    BY <2>1, Zenon DEF Pushed
<1>2. 1 \in DOMAIN st /\ \A k \in DOMAIN st : k # 1 => 1 < k
  BY EmptySeq
<1>3. PICK t \in DOMAIN tree : st[1].path = t
  BY <1>2 DEF StackSound
<1>4. /\ DOMAIN tree \subseteq Seq(Nat) /\ t \in Seq(Nat)
      /\ \A i \in 1..w : Append(t, i) \in DOMAIN tree
  BY <1>3, TreeAssumption
<1>5. /\ st[1].depth = Len(t) /\ InNoRecord(tree, t)
  BY <1>2, <1>3 DEF StackSound
<1>6. \A k \in DOMAIN st : st[k].path \in Seq(Nat)
  BY <1>4 DEF StackSound
<1>7. ASSUME NEW i \in 1..w
      PROVE  /\ st2[i].path = Append(t, o[i]) /\ st2[i].depth = Len(t) + 1
             /\ o[i] \in Nat /\ i \in DOMAIN st2
             /\ Append(t, o[i]) \in DOMAIN tree /\ Append(t, o[i]) \in Seq(Nat)
  <2>1. st2[i] = [path |-> Append(t, o[i]), depth |-> Len(t) + 1]
    BY <1>1, <1>3, <1>5, Zenon
  <2>2. o[i] \in 1..w /\ i \in DOMAIN st2
    BY <1>1, Zenon
  <2>3. o[i] \in Nat
    BY <2>2
  <2>4. Append(t, o[i]) \in DOMAIN tree /\ Append(t, o[i]) \in Seq(Nat)
    BY <1>4, <2>2, Zenon
  <2>5. st2[i].path = Append(t, o[i])
    BY <2>1, FrameFields, Zenon
  <2>6. st2[i].depth = Len(t) + 1
    <3>1. PICK d : d = Len(t) + 1
      OBVIOUS
    <3>2. st2[i] = [path |-> Append(t, o[i]), depth |-> d]
      BY <2>1, <3>1, Zenon
    <3>3. st2[i].depth = d
      BY <3>2, FrameDepth, Zenon
    <3> QED
      BY <3>1, <3>3
  <2> QED
    BY <2>2, <2>3, <2>4, <2>5, <2>6, Zenon
<1>8. StackSound(tree, st2)
  <2> SUFFICES ASSUME NEW i \in DOMAIN st2
               PROVE  /\ st2[i].path \in DOMAIN tree
                      /\ st2[i].depth = Len(st2[i].path)
                      /\ InNoRecord(tree, st2[i].path)
    BY DEF StackSound
  <2>1. CASE i \in 1..w
    <3>1. Len(Append(t, o[i])) = Len(t) + 1
      BY <1>4, <1>7, <2>1, ChildPoint
    <3>2. InNoRecord(tree, Append(t, o[i]))
      <4> SUFFICES ASSUME NEW q \in DOMAIN tree, Within(q, Append(t, o[i]))
                   PROVE  ~IsRecord(tree, q)
        BY DEF InNoRecord
      <4>1. q = t \/ Within(q, t)
        BY <1>4, <1>7, <2>1, AboveChild
      <4> QED
        BY <1>3, <1>5, <4>1 DEF InNoRecord
    <3> QED
      BY <1>7, <2>1, <3>1, <3>2
  <2>2. ASSUME NEW k \in DOMAIN st, k # 1, i = w + k - 1
        PROVE  /\ st2[i].path \in DOMAIN tree
               /\ st2[i].depth = Len(st2[i].path)
               /\ InNoRecord(tree, st2[i].path)
    <3>1. st2[i] = st[k]
      BY <1>1, <2>2
    <3> QED
      BY <3>1, Zenon DEF StackSound
  <2> QED
    BY <1>1, <2>1, <2>2
<1>9. ASSUME NEW i \in DOMAIN ou, NEW j \in DOMAIN st2
      PROVE  InLine(tree, ou[i], st2[j].path)
  <2>1. CASE j \in 1..w
    <3>1. InLine(tree, ou[i], t) /\ ou[i] \in Seq(Nat)
      BY <1>2, <1>3 DEF AllInLine
    <3>2. o[j] \in Nat /\ st2[j].path = Append(t, o[j])
      BY <1>7, <2>1, Zenon
    <3>3. InLine(tree, ou[i], Append(t, o[j]))
      BY <1>4, <3>1, <3>2, ChildAfter
    <3> QED
      BY <3>2, <3>3
  <2>2. ASSUME NEW k \in DOMAIN st, k # 1, j = w + k - 1
        PROVE  InLine(tree, ou[i], st2[j].path)
    BY <1>1, <2>2 DEF AllInLine
  <2> QED
    BY <1>1, <2>1, <2>2
<1>10. ASSUME NEW i \in DOMAIN st2, NEW j \in DOMAIN st2, i < j
       PROVE  InLine(tree, st2[i].path, st2[j].path)
  <2>1. CASE i \in 1..w /\ j \in 1..w
    <3>1. o[i] # o[j]
      BY <1>10, <2>1 DEF Orders
    <3>2. tree[t].kind = "list" => o[i] <= o[j]
      BY <1>3, <1>10, <2>1
    <3>3. InLine(tree, Append(t, o[i]), Append(t, o[j]))
      BY <1>4, <1>7, <2>1, <3>1, <3>2, Siblings
    <3> QED
      BY <1>7, <2>1, <3>3
  <2>2. ASSUME i \in 1..w, NEW k \in DOMAIN st, k # 1, j = w + k - 1
        PROVE  InLine(tree, st2[i].path, st2[j].path)
    <3>1. InLine(tree, t, st[k].path)
      BY <1>2, <1>3, <2>2 DEF AllInLine
    <3>2. InLine(tree, Append(t, o[i]), st[k].path)
      BY <1>4, <1>6, <1>7, <2>2, <3>1, ChildBefore
    <3> QED
      BY <1>1, <1>7, <2>2, <3>2
  <2>3. ASSUME NEW k \in DOMAIN st, k # 1, i = w + k - 1, j \in 1..w
        PROVE  FALSE
    BY <1>1, <1>2, <1>10, <2>3
  <2>4. ASSUME NEW k \in DOMAIN st, k # 1, i = w + k - 1,
               NEW l \in DOMAIN st, l # 1, j = w + l - 1
        PROVE  InLine(tree, st2[i].path, st2[j].path)
    <3>1. k < l
      BY <1>1, <1>10, <2>4
    <3>2. InLine(tree, st[k].path, st[l].path)
      BY <3>1 DEF AllInLine
    <3> QED
      BY <1>1, <2>4, <3>2
  <2> QED
    BY <1>1, <2>1, <2>2, <2>3, <2>4
<1>11. AllInLine(tree, ou, st2)
  BY <1>9, <1>10, Zenon DEF AllInLine
<1> QED
  BY <1>8, <1>11

(* No book is lost: one below the first entry is below one of its children.  *)
LEMMA OpenKeepsBooks ==
    ASSUME NEW tree \in Tree, NEW ou, NEW st \in Seq(Frame), st # <<>>,
           StackSound(tree, st), BooksLeft(tree, ou, st),
           NEW w \in Nat, w = Width(tree, st[1].path), NEW o \in Orders(w),
           ~IsRecord(tree, st[1].path), Children(st[1], o) \in Seq(Frame),
           NEW st2, st2 = Children(st[1], o) \o Tail(st)
    PROVE  BooksLeft(tree, ou, st2)
<1>1. /\ \A i \in 1..w :
             /\ i \in DOMAIN st2 /\ o[i] \in 1..w
             /\ st2[i] = [path |-> Append(st[1].path, o[i]),
                          depth |-> st[1].depth + 1]
      /\ \A k \in DOMAIN st :
             k # 1 => w + k - 1 \in DOMAIN st2 /\ st2[w + k - 1] = st[k]
  <2>1. Pushed(st, w, o, st2)
    BY PushPoint
  <2> QED
    BY <2>1, Zenon DEF Pushed
<1>2. 1 \in DOMAIN st
  BY EmptySeq
<1>3. PICK t \in DOMAIN tree : st[1].path = t
  BY <1>2 DEF StackSound
<1> SUFFICES ASSUME NEW p \in BooksOf(tree), ~\E i \in DOMAIN ou : ou[i] = p
             PROVE  \E i \in DOMAIN st2 : st2[i].path = p \/ Within(st2[i].path, p)
  BY DEF BooksLeft
<1>4. PICK k \in DOMAIN st : st[k].path = p \/ Within(st[k].path, p)
  BY DEF BooksLeft
<1>5. p \in DOMAIN tree /\ IsRecord(tree, p)
  BY DEF BooksOf
<1>6. CASE k # 1
  BY <1>1, <1>4, <1>6
<1>7. CASE k = 1
  <2>1. Within(t, p)
    BY <1>3, <1>4, <1>5, <1>7
  <2>2. PICK x \in 1..w : Append(t, x) = p \/ Within(Append(t, x), p)
    BY <1>3, <1>5, <2>1, BelowIsBelowChild
  <2>3. PICK i \in 1..w : o[i] = x
    BY OrdersReach
  <2>4. /\ i \in DOMAIN st2
        /\ st2[i] = [path |-> Append(t, x), depth |-> st[1].depth + 1]
    BY <1>1, <1>3, <2>3, Zenon
  <2>5. st2[i].path = Append(t, x)
    BY <2>4, FrameFields, Zenon
  <2> QED
    BY <2>2, <2>4, <2>5, Zenon
<1> QED
  BY <1>6, <1>7

(* A step of traverse on values: the first entry is dropped, found or opened. *)
LEMMA TopGone ==
    ASSUME NEW tree \in Tree, NEW ou, NEW st \in Seq(Frame), st # <<>>,
           StackSound(tree, st), BooksLeft(tree, ou, st),
           NEW found, \A i \in DOMAIN ou : \E j \in DOMAIN found : found[j] = ou[i],
           \A p \in BooksOf(tree) :
               p = st[1].path \/ Within(st[1].path, p) =>
                   \E j \in DOMAIN found : found[j] = p
    PROVE  BooksLeft(tree, found, Tail(st))
<1> DEFINE rest == Tail(st)
<1>1. /\ rest \in Seq(Frame) /\ Len(rest) = Len(st) - 1 /\ Len(st) \in Nat
      /\ \A i \in 1..Len(rest) : rest[i] = st[i + 1]
  BY HeadTailProperties
<1>2. DOMAIN st = 1..Len(st) /\ DOMAIN rest = 1..Len(rest)
  BY <1>1
<1> HIDE DEF rest
<1>3. ASSUME NEW k \in DOMAIN st, k # 1
      PROVE  k - 1 \in DOMAIN rest /\ rest[k - 1] = st[k]
  <2>1. k - 1 \in 1..Len(rest) /\ (k - 1) + 1 = k
    BY <1>1, <1>2, <1>3
  <2>2. rest[k - 1] = st[(k - 1) + 1]
    BY <1>1, <2>1, Zenon
  <2> QED
    BY <1>2, <2>1, <2>2, Zenon
<1>4. BooksLeft(tree, found, rest)
  <2> SUFFICES ASSUME NEW p \in BooksOf(tree), ~\E i \in DOMAIN found : found[i] = p
               PROVE  \E i \in DOMAIN rest : rest[i].path = p \/ Within(rest[i].path, p)
    BY Zenon DEF BooksLeft
  <2>1. ~\E i \in DOMAIN ou : ou[i] = p
    BY Zenon
  <2>2. PICK k \in DOMAIN st : st[k].path = p \/ Within(st[k].path, p)
    BY <2>1, Zenon DEF BooksLeft
  <2>3. k # 1
    BY <2>2, Zenon
  <2> QED
    BY <1>3, <2>2, <2>3, Zenon
<1> QED
  BY <1>4 DEF rest

-----------------------------------------------------------------------------
(* The walk over a page *)

(* One step of traverse keeps the line.                                      *)
LEMMA TraverseKeepsLine ==
    ASSUME NEW tree \in Tree, page.tree = tree,
           NEW ou \in Seq(Seq(Nat)), out = ou,
           NEW st \in Seq(Frame), stack = st, st # <<>>, Traverse,
           StackSound(tree, st), BooksFound(tree, ou),
           BooksLeft(tree, ou, st), AllInLine(tree, ou, st)
    PROVE  /\ StackSound(tree, stack') /\ BooksFound(tree, out')
           /\ BooksLeft(tree, out', stack') /\ AllInLine(tree, out', stack')
<1>1. 1 \in DOMAIN st /\ st[1] \in Frame /\ Head(st) = st[1]
  <2>1. Len(st) \in Nat \ {0}
    BY EmptySeq
  <2> QED
    BY <2>1
<1>2. PICK t \in DOMAIN tree : st[1].path = t
  BY <1>1 DEF StackSound
<1>3. t \in Seq(Nat) /\ Len(t) \in Nat
  BY TreeAssumption
<1>4. st[1].depth = Len(t) /\ InNoRecord(tree, t)
  BY <1>1, <1>2 DEF StackSound
<1>5. PICK w : w = Width(tree, t)
  OBVIOUS
<1>6. w \in Nat
  <2>1. IsFiniteSet(DOMAIN tree)
    BY TreeAssumption
  <2>2. IsFiniteSet({q \in DOMAIN tree : Within(t, q) /\ Len(q) = Len(t) + 1})
    BY <2>1, FS_Subset
  <2> QED
    BY <1>5, <2>2, FS_CardinalityType DEF Width
<1>7. CASE TooDeep(Len(t)) \/ tree[t].kind = "leaf"
  <2>1. stack' = Tail(st) /\ out' = ou
    BY <1>1, <1>2, <1>4, <1>7, Zenon DEF Traverse
  <2>2. ASSUME NEW p \in BooksOf(tree), p = t \/ Within(t, p) PROVE FALSE
    <3>1. p \in DOMAIN tree /\ tree[p].kind = "map" /\ Len(p) <= MaxTraverseDepth
      BY DEF BooksOf, IsRecord
    <3>2. p \in Seq(Nat) /\ Len(p) \in Nat
      BY <3>1, TreeAssumption
    <3>3. CASE TooDeep(Len(t))
      <4>1. Len(t) <= Len(p)
        BY <1>3, <2>2, <3>2 DEF Within
      <4> QED
        BY <1>3, <3>1, <3>2, <3>3, <4>1, SizeAssumption DEF TooDeep
    <3>4. CASE tree[t].kind = "leaf"
      <4>1. Within(t, p)
        BY <2>2, <3>1, <3>4
      <4>2. \E x \in 1..Width(tree, t) : TRUE
        BY <3>1, <4>1, BelowIsBelowChild
      <4>3. Width(tree, t) = 0
        BY <3>4, TreeAssumption
      <4> QED
        BY <4>2, <4>3
    <3> QED
      BY <1>7, <3>3, <3>4
  <2>3. BooksLeft(tree, ou, Tail(st))
    BY <1>2, <2>2, TopGone
  <2>4. StackSound(tree, Tail(st)) /\ AllInLine(tree, ou, Tail(st))
    BY DropTop
  <2> QED
    BY <2>1, <2>3, <2>4
<1>8. CASE ~(TooDeep(Len(t)) \/ tree[t].kind = "leaf") /\ IsRecord(tree, t)
  <2>1. /\ stack' = Tail(st)
        /\ out' = IF "title" \in tree[t].strings THEN Append(ou, t) ELSE ou
    BY <1>1, <1>2, <1>4, <1>8, Zenon DEF Traverse, IsRecord
  <2>2. ASSUME NEW p \in BooksOf(tree), p = t \/ Within(t, p)
        PROVE  p = t /\ "title" \in tree[t].strings
    BY <1>8, <2>2 DEF BooksOf, InNoRecord
  <2>3. CASE "title" \in tree[t].strings
    <3>1. out' = Append(ou, t)
      BY <2>1, <2>3
    <3>2. /\ \A i \in 1..Len(ou) : Append(ou, t)[i] = ou[i]
          /\ Append(ou, t)[Len(ou) + 1] = t
      BY <1>3, AppendProperties
    <3>3. /\ DOMAIN ou = 1..Len(ou) /\ Len(ou) \in Nat
          /\ DOMAIN Append(ou, t) = 1..(Len(ou) + 1)
      BY <1>3
    <3>4. Len(ou) + 1 \in DOMAIN Append(ou, t)
      BY <3>3
    <3>5. \A i \in DOMAIN ou : i \in DOMAIN Append(ou, t) /\ Append(ou, t)[i] = ou[i]
      BY <3>2, <3>3
    <3>6. \A i \in DOMAIN Append(ou, t) : i \in DOMAIN ou \/ i = Len(ou) + 1
      BY <3>3
    <3>7. t \in BooksOf(tree)
      BY <1>3, <1>4, <1>8, <2>3, SizeAssumption DEF BooksOf, TooDeep
    <3>8. BooksFound(tree, Append(ou, t))
      BY <3>2, <3>5, <3>6, <3>7, Zenon DEF BooksFound
    <3>9. BooksLeft(tree, Append(ou, t), Tail(st))
      <4>1. \A i \in DOMAIN ou : \E j \in DOMAIN Append(ou, t) : Append(ou, t)[j] = ou[i]
        BY <3>5, Zenon
      <4>2. \A p \in BooksOf(tree) :
                p = st[1].path \/ Within(st[1].path, p) =>
                    \E j \in DOMAIN Append(ou, t) : Append(ou, t)[j] = p
        BY <1>2, <2>2, <3>2, <3>4, Zenon
      <4>3. PICK found : found = Append(ou, t)
        OBVIOUS
      <4> QED
        BY <4>1, <4>2, <4>3, TopGone
    <3>10. StackSound(tree, Tail(st)) /\ AllInLine(tree, Append(ou, t), Tail(st))
      BY <1>2, DropTop, MoveTop
    <3> QED
      BY <2>1, <3>1, <3>8, <3>9, <3>10
  <2>4. CASE "title" \notin tree[t].strings
    <3>1. stack' = Tail(st) /\ out' = ou
      BY <2>1, <2>4
    <3>2. BooksLeft(tree, ou, Tail(st))
      BY <1>2, <2>2, <2>4, TopGone
    <3>3. StackSound(tree, Tail(st)) /\ AllInLine(tree, ou, Tail(st))
      BY DropTop
    <3> QED
      BY <3>1, <3>2, <3>3
  <2> QED
    BY <2>3, <2>4
<1>9. CASE ~(TooDeep(Len(t)) \/ tree[t].kind = "leaf") /\ ~IsRecord(tree, t)
  <2>1. PICK o \in Orders(w) :
            /\ tree[t].kind = "list" => \A i \in 1..w : o[i] = i
            /\ stack' = Children(st[1], o) \o Tail(st)
            /\ out' = ou
    BY <1>1, <1>2, <1>4, <1>5, <1>9, Zenon DEF Traverse, IsRecord, Children
  <2>2. Children(st[1], o) \in Seq(Frame)
    BY <1>1, <1>2, <1>3, <1>4, <1>6, <1>9, ChildrenTyped
  <2>3. StackSound(tree, stack') /\ AllInLine(tree, ou, stack')
    BY <1>2, <1>5, <1>6, <1>9, <2>1, <2>2, OpenTop
  <2>4. BooksLeft(tree, ou, stack')
    BY <1>2, <1>5, <1>6, <1>9, <2>1, <2>2, OpenKeepsBooks
  <2> QED
    BY <2>1, <2>3, <2>4
<1> QED
  BY <1>7, <1>8, <1>9

(* A walk begins with its root, if the page has any state.                   *)
LEMMA WalkBegins ==
    ASSUME NEW tree \in Tree, NEW st,
           st = IF <<>> \in DOMAIN tree THEN <<[path |-> <<>>, depth |-> 0]>> ELSE <<>>
    PROVE  /\ StackSound(tree, st) /\ BooksFound(tree, <<>>)
           /\ BooksLeft(tree, <<>>, st) /\ AllInLine(tree, <<>>, st)
<1>1. /\ DOMAIN tree \subseteq Seq(Nat)
      /\ \A p \in DOMAIN tree : \A i \in DOMAIN p : SubSeq(p, 1, i - 1) \in DOMAIN tree
  BY TreeAssumption
<1>2. <<>> \in Seq(Nat) /\ Len(<<>>) = 0
  BY EmptySeq
<1>3. BooksFound(tree, <<>>)
  BY DEF BooksFound
<1>4. CASE <<>> \in DOMAIN tree
  <2>1. st = <<[path |-> <<>>, depth |-> 0]>>
    BY <1>4
  <2>2. /\ DOMAIN st = {1} /\ st[1] = [path |-> <<>>, depth |-> 0]
    BY <2>1
  <2>3. st[1].path = <<>> /\ st[1].depth = 0
    <3>1. st[1].path = <<>>
      BY <2>2, FrameFields, Zenon
    <3>2. st[1].depth = 0
      BY <2>2, FrameDepth, Zenon
    <3> QED
      BY <3>1, <3>2, Zenon
  <2>4. InNoRecord(tree, <<>>)
    <3>1. ASSUME NEW q \in DOMAIN tree, Within(q, <<>>) PROVE FALSE
      <4>1. q \in Seq(Nat) /\ Len(q) < Len(<<>>)
        BY <1>1, <3>1 DEF Within
      <4> QED
        BY <1>2, <4>1
    <3> QED
      BY <3>1 DEF InNoRecord
  <2>5. StackSound(tree, st)
    BY <1>2, <1>4, <2>2, <2>3, <2>4 DEF StackSound
  <2>6. ASSUME NEW p \in DOMAIN tree PROVE <<>> = p \/ Within(<<>>, p)
    <3>1. CASE p = <<>>
      BY <3>1
    <3>2. CASE p # <<>>
      <4>1. p \in Seq(Nat) /\ Len(p) \in Nat \ {0}
        BY <1>1, <3>2, EmptySeq
      <4>2. Len(<<>>) < Len(p) /\ \A i \in 1..Len(<<>>) : <<>>[i] = p[i]
        BY <1>2, <4>1
      <4> QED
        BY <1>2, <4>1, <4>2, WithinPoint
    <3> QED
      BY <3>1, <3>2
  <2>7. BooksLeft(tree, <<>>, st)
    BY <2>2, <2>3, <2>6 DEF BooksLeft, BooksOf
  <2>8. AllInLine(tree, <<>>, st)
    BY <2>2 DEF AllInLine
  <2> QED
    BY <1>3, <2>5, <2>7, <2>8
<1>5. CASE <<>> \notin DOMAIN tree
  <2>1. st = <<>>
    BY <1>5
  <2>2. ASSUME NEW p \in DOMAIN tree PROVE FALSE
    <3>1. p \in Seq(Nat) /\ p # <<>>
      BY <1>1, <1>5
    <3>2. Len(p) \in Nat \ {0}
      BY <3>1, EmptySeq
    <3>3. 1 \in DOMAIN p
      BY <3>1, <3>2
    <3>4. SubSeq(p, 1, 1 - 1) \in DOMAIN tree
      BY <1>1, <3>3
    <3>5. SubSeq(p, 1, 1 - 1) = <<>>
      BY SubSeqEmpty
    <3> QED
      BY <1>5, <3>4, <3>5
  <2>3. StackSound(tree, st) /\ AllInLine(tree, <<>>, st)
    BY <2>1 DEF StackSound, AllInLine
  <2>4. BooksLeft(tree, <<>>, st)
    BY <2>2 DEF BooksLeft, BooksOf
  <2> QED
    BY <1>3, <2>3, <2>4
<1> QED
  BY <1>4, <1>5

(* Books and records are those of the source that is asked.                  *)
LEMMA RecordFrame ==
    ASSUME call' = call
    PROVE  /\ \A tree, p : InNoRecord(tree, p)' <=> InNoRecord(tree, p)
           /\ \A tree : BooksOf(tree)' = BooksOf(tree)
<1>1. \A m : IsBook(m)' <=> IsBook(m)
  BY DEF IsBook
<1>2. \A tree, p : IsRecord(tree, p)' <=> IsRecord(tree, p)
  BY <1>1 DEF IsRecord
<1>3. \A tree, p : InNoRecord(tree, p)' <=> InNoRecord(tree, p)
  BY <1>2 DEF InNoRecord
<1> QED
  BY <1>2, <1>3 DEF BooksOf

(* A step that leaves a walk under way is a call of traverse or begins it.   *)
LEMMA WalkSteps ==
    ASSUME LookupInv, [Next]_vars, at' = "walk"
    PROVE  \/ Visit \/ UNCHANGED vars
           \/ \E r \in PageReply : ParsePage(r) /\ call' = call
<1>1. ASSUME NEW c, NEW s, NoQuestion(c, s) PROVE FALSE
  BY <1>1 DEF NoQuestion
<1>2. ASSUME NEW c, NEW s, NEW op, NEW k, Question(c, s, op, k) PROVE FALSE
  BY <1>2 DEF Question, Return, Ask
<1>3. CASE \E s \in Source :
               \/ SearchOne(s)
               \/ \E row \in Row : Process(s, row)
               \/ \E c \in {"item", "images"} : Details(c, s)
  BY <1>1, <1>2, <1>3, Zenon DEF SearchOne, Process, Details
<1>4. ASSUME NEW r, Failed(r) PROVE FALSE
  BY <1>4 DEF Failed, Return
<1>5. ASSUME NEW cs, NextBook(cs) PROVE FALSE
  BY <1>5 DEF NextBook, Return, Ask
<1>6. ASSUME NextPath PROVE FALSE
  BY <1>6 DEF NextPath, Return, Ask
<1>7. CASE \E r \in BookReply :
               AudiMeta("book", r) \/ AudiobookCovers(r) \/ AudnexusBook(r)
  <2>1. PICK r \in BookReply :
            AudiMeta("book", r) \/ AudiobookCovers(r) \/ AudnexusBook(r)
    BY <1>7
  <2>2. ~AudiMeta("book", r)
    BY <1>4 DEF AudiMeta, Return
  <2>3. ~AudiobookCovers(r)
    BY <1>4 DEF AudiobookCovers, Return
  <2>4. ~AudnexusBook(r)
    BY <1>4, <1>5 DEF AudnexusBook, Ask
  <2> QED
    BY <2>1, <2>2, <2>3, <2>4
<1>8. CASE \E r \in ListReply :
               \/ AudiMeta("search", r) \/ ITunesGet(r) \/ ITunesSearch(r)
               \/ AudnexusAuthors(r)
  <2>1. PICK r \in ListReply :
            \/ AudiMeta("search", r) \/ ITunesGet(r) \/ ITunesSearch(r)
            \/ AudnexusAuthors(r)
    BY <1>8
  <2>2. ~AudiMeta("search", r)
    BY <1>4 DEF AudiMeta, Return
  <2>3. ~ITunesGet(r)
    BY <1>4 DEF ITunesGet, Return
  <2>4. ~ITunesSearch(r)
    BY DEF ITunesSearch, Return
  <2>5. ~AudnexusAuthors(r)
    BY <1>4 DEF AudnexusAuthors, Return, Ask
  <2> QED
    BY <2>1, <2>2, <2>3, <2>4, <2>5
<1>9. CASE \E r \in Failure \cup Json({<<>>}) : AudnexusChapters(r)
  <2>1. PICK r : AudnexusChapters(r)
    BY <1>9
  <2> QED
    BY <1>5, <2>1 DEF AudnexusChapters, Return
<1>10. CASE \E q \in {"book", "search"}, r \in PageReply :
                Storytel(q, r) \/ BookBeat(q, r) \/ Audioteka(q, r)
  <2>1. PICK q \in {"book", "search"}, r \in PageReply :
            Storytel(q, r) \/ BookBeat(q, r) \/ Audioteka(q, r)
    BY <1>10
  <2>2. call' = call
    BY <2>1 DEF Storytel, BookBeat, Audioteka, Reply
  <2>3. CASE Storytel(q, r) \/ Audioteka(q, r)
    BY <1>4, <2>2, <2>3, Zenon DEF Storytel, Audioteka
  <2>4. CASE BookBeat(q, r)
    <3>1. ~Return("other", <<>>)
      BY DEF Return
    <3> QED
      BY <1>6, <2>2, <2>4, <3>1, Zenon DEF BookBeat
  <2> QED
    BY <2>1, <2>3, <2>4
<1>11. CASE TraverseNextData \/ TraverseBookBeatNextData \/ TraverseAudiotekaData
  BY <1>11 DEF TraverseNextData, TraverseBookBeatNextData, TraverseAudiotekaData
<1>12. CASE PageRead
  <2>1. PICK cs : IF cs = <<>> THEN NextPath ELSE Return("none", cs)
    BY <1>12, Zenon DEF PageRead
  <2> QED
    BY <1>6, <2>1 DEF Return
<1>13. CASE SearchDone \/ ProcessDone \/ GetMetadata \/ GetImages
  <2>1. PICK c, e : Settle(c, e)
    BY <1>13, Zenon DEF SearchDone, ProcessDone, GetMetadata, GetImages
  <2> QED
    BY <2>1 DEF Settle
<1>14. CASE UNCHANGED vars
  BY <1>14
<1> QED
  BY <1>3, <1>7, <1>8, <1>9, <1>10, <1>11, <1>12, <1>13, <1>14 DEF Next

LEMMA PageStep == LookupInv /\ PageSoFar /\ [Next]_vars => PageSoFar'
<1> SUFFICES ASSUME LookupInv, PageSoFar, [Next]_vars, at' = "walk" PROVE PageSoFar'
  BY DEF PageSoFar
<1>1. ASSUME Visit PROVE PageSoFar'
  <2>1. /\ at = "walk" /\ stack # <<>> /\ Traverse /\ page' = page /\ call' = call
    BY <1>1 DEF Visit
  <2>2. stack \in Seq(Frame) /\ out \in Seq(Seq(Nat))
    BY DEF LookupInv, TypeOK, Frame
  <2>3. PICK tree \in Tree : page.tree = tree
    BY <2>1, LdShape DEF LookupInv, AskSoFar
  <2>4. PICK st \in Seq(Frame) : stack = st
    BY <2>2
  <2>5. PICK ou \in Seq(Seq(Nat)) : out = ou
    BY <2>2
  <2>6. /\ StackSound(tree, st) /\ BooksFound(tree, ou)
        /\ BooksLeft(tree, ou, st) /\ AllInLine(tree, ou, st)
    BY <2>1, <2>3, <2>4, <2>5, Zenon DEF PageSoFar
  <2>7. /\ StackSound(tree, stack') /\ BooksFound(tree, out')
        /\ BooksLeft(tree, out', stack') /\ AllInLine(tree, out', stack')
    BY <2>1, <2>3, <2>4, <2>5, <2>6, TraverseKeepsLine
  <2>8. page'.tree = tree
    BY <2>1, <2>3
  <2> QED
    BY <2>1, <2>7, <2>8, RecordFrame
       DEF PageSoFar, StackSound, BooksFound, BooksLeft, AllInLine
<1>2. ASSUME NEW r \in PageReply, ParsePage(r), call' = call PROVE PageSoFar'
  <2>1. /\ page' = r /\ out' = <<>>
        /\ stack' = IF <<>> \in DOMAIN r.tree
                    THEN <<[path |-> <<>>, depth |-> 0]>> ELSE <<>>
    BY <1>2 DEF ParsePage, Return
  <2>2. r.tree \in Tree
    BY <1>2, PageShape, LdShape DEF ParsePage
  <2>3. /\ StackSound(r.tree, stack') /\ BooksFound(r.tree, <<>>)
        /\ BooksLeft(r.tree, <<>>, stack') /\ AllInLine(r.tree, <<>>, stack')
    BY <2>1, <2>2, WalkBegins
  <2> QED
    BY <1>2, <2>1, <2>3, RecordFrame
       DEF PageSoFar, StackSound, BooksFound, BooksLeft, AllInLine
<1>3. ASSUME UNCHANGED vars PROVE PageSoFar'
  <2>1. /\ at' = at /\ page' = page /\ stack' = stack /\ out' = out /\ call' = call
    BY <1>3 DEF vars
  <2> QED
    BY <2>1, RecordFrame
       DEF PageSoFar, StackSound, BooksFound, BooksLeft, AllInLine
<1> QED
  BY <1>1, <1>2, <1>3, WalkSteps

LEMMA PageInvariant == Spec => [](LookupInv /\ PageSoFar)
<1>1. Init => PageSoFar
  BY DEF Init, PageSoFar
<1> QED
  BY <1>1, LookupInit, LookupStep, PageStep, PTL DEF Spec

(* A sequence without repetition is as long as the set of its entries.       *)
LEMMA AsManyAsEntries ==
    ASSUME NEW s \in Seq(Seq(Nat)), NEW S, {s[i] : i \in DOMAIN s} = S,
           \A i, j \in DOMAIN s : i < j => s[i] # s[j]
    PROVE  Len(s) = Cardinality(S)
<1>1. DOMAIN s = 1..Len(s) /\ Len(s) \in Nat /\ s \in [1..Len(s) -> Seq(Nat)]
  OBVIOUS
<1>2. PICK n \in Nat : n = Len(s)
  BY <1>1
<1>3. s \in [1..n -> S]
  BY <1>1, <1>2
<1>4. ASSUME NEW i \in 1..n, NEW j \in 1..n, s[i] = s[j] PROVE i = j
  <2>1. i \in DOMAIN s /\ j \in DOMAIN s
    BY <1>1, <1>2
  <2>2. ~(i < j) /\ ~(j < i)
    BY <1>4, <2>1, Zenon
  <2> QED
    BY <2>2
<1>5. \A t \in S : \E i \in 1..n : s[i] = t
  BY <1>1, <1>2
<1>6. s \in Bijection(1..n, S)
  BY <1>3, <1>4, <1>5 DEF Bijection, Injection, IsInjective, Surjection
<1>7. Cardinality(S) = n
  BY <1>6, FS_CountingElements DEF ExistsBijection
<1> QED
  BY <1>2, <1>7

(* When a walk has ended, whatever order the maps were visited in, it has    *)
(* found the books of the page, each once and those of a list in order: for  *)
(* any page that has a finite tree, any depth limit and any scraped source.  *)
THEOREM PagesHaveBooks == Spec => []PageHasBooks
<1>1. LookupInv /\ PageSoFar => PageHasBooks
  <2> SUFFICES ASSUME LookupInv, PageSoFar, at = "walk", stack = <<>>
               PROVE  /\ {out[i] : i \in DOMAIN out} = BooksOf(page.tree)
                      /\ Len(out) = Cardinality(BooksOf(page.tree))
                      /\ \A i, j \in DOMAIN out :
                             i < j => InListOrder(page.tree, out[i], out[j])
    BY Zenon DEF PageHasBooks
  <2>1. /\ BooksFound(page.tree, out) /\ BooksLeft(page.tree, out, stack)
        /\ AllInLine(page.tree, out, stack)
    BY DEF PageSoFar
  <2>2. DOMAIN stack = {}
    OBVIOUS
  <2>3. {out[i] : i \in DOMAIN out} = BooksOf(page.tree)
    BY <2>1, <2>2 DEF BooksFound, BooksLeft
  <2>4. \A i, j \in DOMAIN out :
            i < j => /\ out[i] # out[j]
                     /\ InListOrder(page.tree, out[i], out[j])
    BY <2>1 DEF AllInLine, InLine, Apart
  <2>5. out \in Seq(Seq(Nat))
    BY DEF LookupInv, TypeOK
  <2>6. Len(out) = Cardinality(BooksOf(page.tree))
    BY <2>3, <2>4, <2>5, AsManyAsEntries
  <2> QED
    BY <2>3, <2>4, <2>6
<1> QED
  BY <1>1, PageInvariant, PTL
=============================================================================
