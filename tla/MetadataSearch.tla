--------------------------- MODULE MetadataSearch ---------------------------
(***************************************************************************)
(* A metadata search of the host: the aggregator asks every enabled source *)
(* in a goroutine of its own, each behind the cache table, and ranks what  *)
(* they answer.  Upstream answers change, fetches take time, sources and   *)
(* statements fail, scans evict expired rows, and two searches write the   *)
(* same cache row in any order.                                            *)
(*                                                                         *)
(* One query in one region: its cache keys differ by source only, and no   *)
(* other query shares them.  Of a candidate, Info holds how it compares    *)
(* with the query and the ids sent along.  The unit of time is the day.    *)
(***************************************************************************)
EXTENDS Naturals, Sequences, FiniteSets

CONSTANTS
    Client,        \* searches that may run at the same time
    Symbol,        \* what ids are made of
    Source,        \* registered sources
    Scraped,       \* those whose candidates carry the HTML page in Raw
    Candidate,     \* what sources find
    Info,          \* Info[m]: source, native id and comparison of m
    Answers,       \* Answers[s]: sequences of candidates s may answer
    EnabledFor,    \* EnabledFor[c]: sets of sources enabled when c searches
    NoRow,         \* no cache row
    BadId,         \* ErrBadExternalID, or no such source
    TTL,           \* metadata_cache_ttl_days
    NotFoundTTL,   \* the TTL of negative rows
    MaxResults,
    MaxLag,        \* longest time from an upstream answer to its cache row
    MaxSkew,       \* how far the clocks of process and database are apart
    MaxSearches,   \* bound: searches
    MaxEdits,      \* bound: changes of upstream answers
    MaxFaults      \* bound: failed statements on the cache

Answer == UNION {Answers[s] : s \in Source}
Row == [answer : Answer, age : 0..(TTL + MaxSkew + 1)]  \* by the database's clock

ASSUME IdAssumption == Source \subseteq Symbol \ {":"} /\ Source # {}
ASSUME ScrapedAssumption == Scraped \subseteq Source
ASSUME InfoAssumption ==
    /\ Info \in [Candidate ->
                     [source : Source, native : Seq(Symbol),
                      title : {"none", "equal", "contains", "words"},
                      matched : Nat, words : Nat \ {0},
                      asin : BOOLEAN, author : BOOLEAN, isbn : BOOLEAN,
                      narrator : BOOLEAN, fields : 0..9]]
    /\ \A m \in Candidate : Info[m].matched <= Info[m].words

(* A candidate is one entry of an answer: the entries are told apart. *)
ASSUME AnswersAssumption ==
    /\ Answers \in [Source -> SUBSET Seq(Candidate)]
    /\ \A s \in Source : \A a \in Answers[s] : \A i, j \in DOMAIN a :
           Info[a[i]].source = s /\ (a[i] = a[j] => i = j)
ASSUME EnabledAssumption == EnabledFor \in [Client -> SUBSET SUBSET Source]
ASSUME TTLAssumption == TTL \in Nat /\ NotFoundTTL \in 0..TTL
ASSUME BoundAssumption ==
    /\ MaxLag \in Nat /\ MaxSkew \in Nat /\ MaxSearches \in Nat
    /\ MaxEdits \in Nat /\ MaxFaults \in Nat /\ MaxResults \in Nat \ {0}
ASSUME NoneAssumption ==
    /\ NoRow \notin Row
    /\ \A m \in Candidate :
           BadId # [source |-> <<Info[m].source>>, native |-> Info[m].native]

VARIABLES
    upstream,   \* upstream[s]: what source s answers now
    cache,      \* cache[s]: its row of metadata_cache, or NoRow
    gor,        \* gor[c][s]: where the goroutine of c's search for s is
    got,        \* got[c][s]: its matches
    out,        \* out[c]: the matches appended so far
    results,    \* results[c]: what the search returned
    searches, edits, faults,
    \* history, read by the properties only
    lag,        \* lag[c][s]: days since the goroutine fetched what it will put
    heard,      \* heard[s][a]: days since s last answered a
    aged,       \* aged[c][s]: heard of its answer when the goroutine got it
    kept        \* kept[s]: the last row put, evicted or not

searchVars == <<gor, got, out, results>>
histVars == <<lag, heard, aged, kept>>
vars == <<upstream, cache, searchVars, searches, edits, faults, histVars>>

MaxHeard == TTL + MaxLag + MaxSkew + 1
Running == {"get", "wait", "put", "append"}

(* Answers are those of their source; a goroutine appends what is not empty. *)
Linked ==
    /\ \A s \in Source :
           /\ upstream[s] \in Answers[s]
           /\ cache[s] # NoRow => cache[s].answer \in Answers[s]
    /\ \A c \in Client, s \in Source :
           /\ got[c][s] # <<>> \/ gor[c][s] = "put" => got[c][s] \in Answers[s]
           /\ gor[c][s] = "append" => got[c][s] # <<>>
           /\ gor[c][s] \in {"get", "wait"} => got[c][s] = <<>>

Shapes ==
    /\ upstream \in [Source -> Answer]
    /\ cache \in [Source -> Row \cup {NoRow}]
    /\ gor \in [Client -> [Source -> Running \cup {"off", "over"}]]
    /\ got \in [Client -> [Source -> Answer \cup {<<>>}]]
    /\ out \in [Client -> Seq(Candidate)] /\ results \in [Client -> Seq(Candidate)]
    /\ searches \in Nat /\ edits \in Nat /\ faults \in Nat
    /\ lag \in [Client -> [Source -> 0..MaxLag]]
    /\ heard \in [Source -> [Answer -> 0..MaxHeard]]
    /\ aged \in [Client -> [Source -> 0..MaxHeard]]
    /\ kept \in [Source -> Row \cup {NoRow}]

TypeOK == Shapes /\ Linked

Each(x) == [c \in Client |-> [s \in Source |-> x]]

Init ==
    /\ upstream \in [Source -> Answer]
    /\ \A s \in Source : upstream[s] \in Answers[s]
    /\ cache = [s \in Source |-> NoRow]
    /\ gor = Each("off") /\ got = Each(<<>>)
    /\ out = [c \in Client |-> <<>>] /\ results = [c \in Client |-> <<>>]
    /\ searches = 0 /\ edits = 0 /\ faults = 0
    /\ lag = Each(0) /\ aged = Each(0)
    /\ heard = [s \in Source |-> [a \in Answer |->
                   IF a = upstream[s] THEN 0 ELSE MaxHeard]]
    /\ kept = [s \in Source |-> NoRow]

-----------------------------------------------------------------------------
(* Confidence *)

Points(b, n) == IF b THEN n ELSE 0

TitleScore(i) ==
    CASE i.title = "none"     -> 0
      [] i.title = "equal"    -> 30
      [] i.title = "contains" -> 22
      [] OTHER                -> (i.matched * 30) \div i.words

CompletenessScore(i) == (i.fields * 5) \div 9

(* Mutant: an identifier counts as much as a title. *)
CalculateConfidence_Asin30(m) ==
    LET i == Info[m]
    IN  TitleScore(i) + Points(i.asin, 30) + Points(i.author, 15)
          + Points(i.isbn, 15) + Points(i.narrator, 10) + CompletenessScore(i)

(* The provider sends at most one author and one narrator, so that their     *)
(* fractions are 0 or 1.                                                     *)
CalculateConfidence(m) ==
    LET i == Info[m]
        score == TitleScore(i) + Points(i.asin, 35) + Points(i.author, 15)
                   + Points(i.isbn, 15) + Points(i.narrator, 10)
                   + CompletenessScore(i)
    IN  IF score > 100 THEN 100 ELSE score

(* sort.SliceStable by descending confidence: the place of the i-th match is *)
(* one more than the number of matches that come before it.                  *)
Place(ms, i) ==
    1 + Cardinality({j \in DOMAIN ms :
            \/ CalculateConfidence(ms[j]) > CalculateConfidence(ms[i])
            \/ CalculateConfidence(ms[j]) = CalculateConfidence(ms[i]) /\ j < i})
SortStable(ms) ==
    [p \in DOMAIN ms |-> ms[CHOOSE i \in DOMAIN ms : Place(ms, i) = p]]

Cut(ms) == IF Len(ms) > MaxResults THEN SubSeq(ms, 1, MaxResults) ELSE ms

-----------------------------------------------------------------------------
(* Ids.  A source's name is one symbol and has no colon; a native id is any  *)
(* sequence of symbols, colons included, and may be empty.                   *)

FormatExternalID(source, nativeID) == <<source, ":">> \o nativeID

(* Mutant: split at the last colon. *)
ParseExternalID_Last(id) ==
    LET colons == {i \in DOMAIN id : id[i] = ":"}
        last == CHOOSE i \in colons : \A j \in colons : j <= i
    IN  IF colons = {} \/ last = 1 \/ last = Len(id) THEN BadId
        ELSE [source |-> SubSeq(id, 1, last - 1),
              native |-> SubSeq(id, last + 1, Len(id))]

ParseExternalID(id) ==
    LET colons == {i \in DOMAIN id : id[i] = ":"}
        first == CHOOSE i \in colons : \A j \in colons : i <= j
    IN  IF colons = {} \/ first = 1 \/ first = Len(id) THEN BadId
        ELSE [source |-> SubSeq(id, 1, first - 1),
              native |-> SubSeq(id, first + 1, Len(id))]

(* What GetMetadata and GetImages ask which source for: the enabled sources  *)
(* are not looked at.                                                        *)
ParseAndLookup(id) ==
    LET parsed == ParseExternalID(id)
    IN  IF parsed = BadId \/ parsed.source \notin {<<s>> : s \in Source}
        THEN BadId ELSE parsed

-----------------------------------------------------------------------------
(* Cache *)

TtlOf(row) == IF row.answer = <<>> THEN NotFoundTTL ELSE TTL

(* fetched_at and the evictions go by now() of the database, Get by the      *)
(* clock of the process: what Get takes for the age of a row is up to        *)
(* MaxSkew off.  Near the end of its TTL a row may answer or not.            *)
MayHit(row) == row # NoRow /\ row.age <= TtlOf(row) + MaxSkew
MayMiss(row) == row # NoRow => row.age + MaxSkew > TtlOf(row)

(* Mutant: every row goes after the short TTL. *)
EvictExpired_Short ==
    /\ cache' = [s \in Source |->
                    IF cache[s] # NoRow /\ cache[s].age > NotFoundTTL
                    THEN NoRow ELSE cache[s]]
    /\ UNCHANGED <<upstream, searchVars, searches, edits, faults, histVars>>

EvictExpired ==
    /\ cache' = [s \in Source |->
                    IF cache[s] # NoRow
                       /\ \/ cache[s].answer # <<>> /\ cache[s].age > TTL
                          \/ cache[s].answer = <<>> /\ cache[s].age > NotFoundTTL
                    THEN NoRow ELSE cache[s]]
    /\ UNCHANGED <<upstream, searchVars, searches, edits, faults, histVars>>

-----------------------------------------------------------------------------
(* Search *)

Idle(c) == \A s \in Source : gor[c][s] = "off"

(* The aggregator starts a goroutine per enabled source. *)
Search(c, enabled) ==
    /\ Idle(c) /\ searches < MaxSearches
    /\ searches' = searches + 1
    /\ gor' = [gor EXCEPT ![c] = [s \in Source |->
                  IF s \in enabled THEN "get" ELSE "over"]]
    /\ got' = [got EXCEPT ![c] = [s \in Source |-> <<>>]]
    /\ aged' = [aged EXCEPT ![c] = [s \in Source |-> 0]]
    /\ results' = [results EXCEPT ![c] = <<>>]
    /\ UNCHANGED <<upstream, cache, out, edits, faults, lag, heard, kept>>

(* Mutant: a negative row is taken for an answer. *)
CacheHit_Negative(c, s) ==
    /\ gor[c][s] = "get" /\ MayHit(cache[s])
    /\ got' = [got EXCEPT ![c][s] = cache[s].answer]
    /\ aged' = [aged EXCEPT ![c][s] = heard[s][cache[s].answer]]
    /\ gor' = [gor EXCEPT ![c][s] = "append"]
    /\ UNCHANGED <<upstream, cache, out, results, searches, edits, faults, lag,
                   heard, kept>>

(* A row within its TTL answers, a negative one with nothing. *)
CacheHit(c, s) ==
    /\ gor[c][s] = "get" /\ MayHit(cache[s])
    /\ got' = [got EXCEPT ![c][s] = cache[s].answer]
    /\ aged' = [aged EXCEPT ![c][s] = heard[s][cache[s].answer]]
    /\ gor' = [gor EXCEPT ![c][s] =
                  IF cache[s].answer = <<>> THEN "over" ELSE "append"]
    /\ UNCHANGED <<upstream, cache, out, results, searches, edits, faults, lag,
                   heard, kept>>

CacheMiss(c, s) ==
    /\ gor[c][s] = "get" /\ MayMiss(cache[s])
    /\ gor' = [gor EXCEPT ![c][s] = "wait"]
    /\ UNCHANGED <<upstream, cache, got, out, results, searches, edits, faults,
                   histVars>>

(* The statement fails or the row does not decode: fetch as after a miss. *)
CacheError(c, s) ==
    /\ gor[c][s] = "get" /\ faults < MaxFaults
    /\ faults' = faults + 1
    /\ gor' = [gor EXCEPT ![c][s] = "wait"]
    /\ UNCHANGED <<upstream, cache, got, out, results, searches, edits, histVars>>

(* Past the limiter, the source answers. *)
Fetch(c, s) ==
    /\ gor[c][s] = "wait"
    /\ got' = [got EXCEPT ![c][s] = upstream[s]]
    /\ aged' = [aged EXCEPT ![c][s] = 0]
    /\ gor' = [gor EXCEPT ![c][s] = "put"]
    /\ UNCHANGED <<upstream, cache, out, results, searches, edits, faults, lag,
                   heard, kept>>

(* Mutant: a failed source is cached as one that found nothing. *)
SourceFails_Cached(c, s) ==
    /\ gor[c][s] = "wait"
    /\ gor' = [gor EXCEPT ![c][s] = "over"]
    /\ cache' = [cache EXCEPT ![s] = [answer |-> <<>>, age |-> 0]]
    /\ UNCHANGED <<upstream, got, out, results, searches, edits, faults, histVars>>

(* The limiter's five seconds are over, or the source fails: its error is    *)
(* dropped, and nothing is cached.                                           *)
SourceFails(c, s) ==
    /\ gor[c][s] = "wait"
    /\ gor' = [gor EXCEPT ![c][s] = "over"]
    /\ UNCHANGED <<upstream, cache, got, out, results, searches, edits, faults,
                   histVars>>

AfterPut(c, s) ==
    /\ gor' = [gor EXCEPT ![c][s] = IF got[c][s] = <<>> THEN "over" ELSE "append"]
    /\ lag' = [lag EXCEPT ![c][s] = 0]

(* json.Marshal refuses a Raw that is not JSON: there is nothing to put.     *)
Unmarshallable(c, s) == s \in Scraped /\ got[c][s] # <<>>

(* PutHit or PutNotFound, whatever another search stored since the fetch;    *)
(* fetched_at is the time of the statement.                                  *)
Put(c, s) ==
    /\ gor[c][s] = "put" /\ ~Unmarshallable(c, s)
    /\ cache' = [cache EXCEPT ![s] = [answer |-> got[c][s], age |-> 0]]
    /\ kept' = [kept EXCEPT ![s] = [answer |-> got[c][s], age |-> 0]]
    /\ AfterPut(c, s)
    /\ UNCHANGED <<upstream, got, out, results, searches, edits, faults, heard,
                   aged>>

(* The statement fails, or there is none: the goroutine goes on all the same. *)
PutError(c, s) ==
    /\ gor[c][s] = "put"
    /\ IF Unmarshallable(c, s) THEN faults' = faults
       ELSE faults < MaxFaults /\ faults' = faults + 1
    /\ AfterPut(c, s)
    /\ UNCHANGED <<upstream, cache, got, out, results, searches, edits, heard,
                   aged, kept>>

(* Under mu. *)
AppendMatches(c, s) ==
    /\ gor[c][s] = "append"
    /\ out' = [out EXCEPT ![c] = @ \o got[c][s]]
    /\ gor' = [gor EXCEPT ![c][s] = "over"]
    /\ UNCHANGED <<upstream, cache, got, results, searches, edits, faults,
                   histVars>>

Goroutine(c, s) ==
    \/ CacheHit(c, s) \/ CacheMiss(c, s) \/ CacheError(c, s)
    \/ Fetch(c, s) \/ SourceFails(c, s)
    \/ Put(c, s) \/ PutError(c, s) \/ AppendMatches(c, s)

(* Mutant: cut at MaxResults before the sort. *)
Return_CutFirst(c) ==
    /\ \A s \in Source : gor[c][s] = "over"
    /\ results' = [results EXCEPT ![c] = SortStable(Cut(out[c]))]
    /\ out' = [out EXCEPT ![c] = <<>>]
    /\ gor' = [gor EXCEPT ![c] = [s \in Source |-> "off"]]
    /\ UNCHANGED <<upstream, cache, got, searches, edits, faults, histVars>>

(* wg.Wait, sort, cut. *)
Return(c) ==
    /\ \A s \in Source : gor[c][s] = "over"
    /\ results' = [results EXCEPT ![c] = Cut(SortStable(out[c]))]
    /\ out' = [out EXCEPT ![c] = <<>>]
    /\ gor' = [gor EXCEPT ![c] = [s \in Source |-> "off"]]
    /\ UNCHANGED <<upstream, cache, got, searches, edits, faults, histVars>>

-----------------------------------------------------------------------------
(* Surroundings *)

Edit(s, a) ==
    /\ a \in Answers[s] /\ a # upstream[s] /\ edits < MaxEdits
    /\ edits' = edits + 1
    /\ upstream' = [upstream EXCEPT ![s] = a]
    /\ heard' = [heard EXCEPT ![s][a] = 0]
    /\ UNCHANGED <<cache, searchVars, searches, faults, lag, aged, kept>>

Older(row) ==
    IF row = NoRow THEN NoRow
    ELSE [row EXCEPT !.age = IF @ > TTL + MaxSkew THEN @ ELSE @ + 1]

(* A day goes by; a goroutine that has fetched does not wait longer than     *)
(* MaxLag for its put.                                                       *)
Tick ==
    /\ \A c \in Client, s \in Source : gor[c][s] = "put" => lag[c][s] < MaxLag
    /\ cache' = [s \in Source |-> Older(cache[s])]
    /\ kept' = [s \in Source |-> Older(kept[s])]
    /\ lag' = [c \in Client |-> [s \in Source |->
                  IF gor[c][s] = "put" THEN lag[c][s] + 1 ELSE lag[c][s]]]
    /\ heard' = [s \in Source |-> [a \in Answer |->
                    IF a = upstream[s] THEN 0
                    ELSE IF heard[s][a] < MaxHeard THEN heard[s][a] + 1
                    ELSE heard[s][a]]]
    /\ UNCHANGED <<upstream, searchVars, searches, edits, faults, aged>>

Next ==
    \/ \E c \in Client :
           \/ \E enabled \in EnabledFor[c] : Search(c, enabled)
           \/ \E s \in Source : Goroutine(c, s)
           \/ Return(c)
    \/ EvictExpired
    \/ \E s \in Source, a \in Answer : Edit(s, a)
    \/ Tick

Spec == Init /\ [][Next]_vars

-----------------------------------------------------------------------------
(* Properties *)

(* What a search takes from a source, out of the cache or not, is something  *)
(* the source answered at most a TTL ago (for "nothing found", the short     *)
(* TTL), plus the time a fetch may take to its put and what the clocks are   *)
(* apart: no order in which searches overwrite each other's rows makes an    *)
(* answer older.                                                             *)
FreshAnswers ==
    \A c \in Client, s \in Source :
        aged[c][s] <= MaxLag + MaxSkew + IF got[c][s] = <<>> THEN NotFoundTTL ELSE TTL

(* The evictions of concurrent scans cost no request: a goroutine that goes  *)
(* on to ask its source, its read of the cache having worked, might have had *)
(* to ask with the row stored last still in place, for this row is at the    *)
(* end of its TTL by the clock of the process.  The comparisons of Get, in   *)
(* Go, and of EvictExpired, in SQL, agree on each row's TTL, up to the       *)
(* clocks.  How long the TTLs are is not the point here: a negative row has  *)
(* the 24 hours of cache.go:26, where two docs have it live as long as a hit. *)
UpstreamSpared ==
    [][\A c \in Client, s \in Source :
          gor[c][s] = "get" /\ gor'[c][s] = "wait" /\ faults' = faults =>
              MayMiss(kept[s])]_vars

(* README.md: "Results are cached in Postgres for metadata_cache_ttl_days":  *)
(* unless its statement failed, a goroutine that has fetched leaves a row    *)
(* with its TTL ahead.  Not so with a scraping source (aggregator.go:141).   *)
ResultsCached ==
    [][\A c \in Client, s \in Source :
          gor[c][s] = "put" /\ gor'[c][s] # "put" /\ faults' = faults =>
              ~MayMiss(cache[s])']_vars

Found(c) == UNION {{got[c][s][i] : i \in DOMAIN got[c][s]} : s \in Source}
IsTop(res, found) ==
    LET best == {res[i] : i \in DOMAIN res}
    IN  /\ best \subseteq found
        /\ Cardinality(best) = Len(res)
        /\ Len(res) = IF Cardinality(found) > MaxResults THEN MaxResults
                      ELSE Cardinality(found)
        /\ \A i, j \in DOMAIN res : i < j =>
               CalculateConfidence(res[i]) >= CalculateConfidence(res[j])
        /\ \A m \in found \ best, b \in best :
               CalculateConfidence(m) <= CalculateConfidence(b)

(* A search that returned has the best MaxResults of all matches of all      *)
(* sources that answered, once each and best first, in whatever order the    *)
(* goroutines came to an end and whichever sources failed.                   *)
TopResults == \A c \in Client : Idle(c) => IsTop(results[c], Found(c))

(* A match by ASIN with anything else to it comes before every match by      *)
(* title, however exact and complete that one is, if author, ISBN and        *)
(* narrator do not tell them apart.                                          *)
AsinFirst ==
    \A c \in Client : \A i, j \in DOMAIN results[c] :
        LET a == Info[results[c][i]]  b == Info[results[c][j]]
        IN  /\ a.asin /\ a.fields > 1 /\ ~b.asin
            /\ <<a.author, a.isbn, a.narrator>> = <<b.author, b.isbn, b.narrator>>
            => i < j

(* The provider id of a result, sent back by the host, reaches the source    *)
(* that found it with its native id; one without a native id is refused and  *)
(* reaches no other.                                                         *)
IdsResolve ==
    \A c \in Client : \A i \in DOMAIN results[c] :
        LET m == Info[results[c][i]]
        IN  ParseAndLookup(FormatExternalID(m.source, m.native)) =
                IF m.native = <<>> THEN BadId
                ELSE [source |-> <<m.source>>, native |-> m.native]

-----------------------------------------------------------------------------
(* Inductive strengthenings of the invariants above.                         *)

(* heard bounds the age of what is stored and of what is about to be. *)
Heard ==
    \A s \in Source :
        /\ heard[s][upstream[s]] = 0
        /\ cache[s] # NoRow =>
               heard[s][cache[s].answer] <= cache[s].age + MaxLag
        /\ \A c \in Client :
               IF gor[c][s] = "put" THEN heard[s][got[c][s]] <= lag[c][s]
               ELSE lag[c][s] = 0

(* An eviction takes away nothing that has not expired for the database. *)
KeptInCache ==
    \A s \in Source :
        kept[s] # NoRow /\ kept[s].age <= TtlOf(kept[s]) => cache[s] = kept[s]

(* What the goroutines that are over have found, each match once. *)
Over(c) == {s \in Source : gor[c][s] = "over"}
Merged(c) == UNION {{got[c][s][i] : i \in DOMAIN got[c][s]} : s \in Over(c)}
OutIsMerged ==
    \A c \in Client :
        /\ \A s \in Source : gor[c][s] = "off" => Idle(c)
        /\ {out[c][i] : i \in DOMAIN out[c]} = Merged(c)
        /\ \A i, j \in DOMAIN out[c] : out[c][i] = out[c][j] => i = j
=============================================================================
