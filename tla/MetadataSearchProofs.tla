------------------------ MODULE MetadataSearchProofs ------------------------
(***************************************************************************)
(* Proofs about MetadataSearch: ranking is a permutation into descending   *)
(* order, the invariants of the cache, and what a search returns.          *)
(***************************************************************************)
EXTENDS MetadataSearch, FiniteSetTheorems, TLAPS

(* Answers are sequences of candidates. *)
LEMMA AnswerSeq == Answer \subseteq Seq(Candidate)
  BY AnswersAssumption DEF Answer

-----------------------------------------------------------------------------
(* Ranking *)

(* The scores of the parts, and the confidence, are numbers in their range.  *)
LEMMA ScoreRange ==
    ASSUME NEW m \in Candidate
    PROVE  /\ TitleScore(Info[m]) \in 0..30
           /\ CompletenessScore(Info[m]) \in 0..5
           /\ CalculateConfidence(m) \in Int
           /\ CalculateConfidence(m) <= 100
<1> DEFINE i == Info[m]
<1>1. /\ i.title \in {"none", "equal", "contains", "words"}
      /\ i.matched \in Nat /\ i.words \in Nat \ {0} /\ i.matched <= i.words
      /\ i.fields \in 0..9
  BY InfoAssumption
<1>2. TitleScore(i) \in 0..30
  <2>1. (i.matched * 30) \div i.words \in 0..30
    BY <1>1
  <2> QED BY <1>1, <2>1 DEF TitleScore
<1>3. CompletenessScore(i) \in 0..5
  BY <1>1 DEF CompletenessScore
<1>4. \A b : Points(b, 35) \in 0..35 /\ Points(b, 15) \in 0..15 /\ Points(b, 10) \in 0..10
  BY DEF Points
<1> QED BY <1>2, <1>3, <1>4 DEF CalculateConfidence

(* The matches that come before the i-th one. *)
Ahead(ms, i) ==
    {j \in DOMAIN ms :
        \/ CalculateConfidence(ms[j]) > CalculateConfidence(ms[i])
        \/ CalculateConfidence(ms[j]) = CalculateConfidence(ms[i]) /\ j < i}

(* Places are 1 to n, and a match that comes before another has the smaller  *)
(* one.                                                                      *)
LEMMA PlaceOrder ==
    ASSUME NEW ms \in Seq(Candidate), NEW i \in DOMAIN ms
    PROVE  /\ Place(ms, i) \in 1..Len(ms)
           /\ \A j \in DOMAIN ms : i \in Ahead(ms, j) => Place(ms, i) < Place(ms, j)
<1>0. /\ DOMAIN ms = 1..Len(ms) /\ Len(ms) \in Nat
      /\ \A k \in DOMAIN ms : CalculateConfidence(ms[k]) \in Int
  <2>1. DOMAIN ms = 1..Len(ms) /\ Len(ms) \in Nat /\ \A k \in DOMAIN ms : ms[k] \in Candidate
    OBVIOUS
  <2>2. \A m \in Candidate : CalculateConfidence(m) \in Int
    BY ScoreRange
  <2> QED BY <2>1, <2>2
<1>1. IsFiniteSet(DOMAIN ms) /\ Cardinality(DOMAIN ms) = Len(ms)
  <2>1. IsFiniteSet(1..Len(ms)) /\ Cardinality(1..Len(ms)) = IF 1 > Len(ms) THEN 0 ELSE Len(ms) - 1 + 1
    BY <1>0, FS_Interval
  <2> QED BY <1>0, <2>1
<1>2. \A k \in DOMAIN ms : /\ IsFiniteSet(Ahead(ms, k)) /\ Cardinality(Ahead(ms, k)) \in Nat
                           /\ Place(ms, k) = 1 + Cardinality(Ahead(ms, k))
  BY <1>1, FS_Subset, FS_CardinalityType DEF Ahead, Place
<1>3. Cardinality(Ahead(ms, i)) < Len(ms)
  <2>1. Ahead(ms, i) \subseteq DOMAIN ms /\ i \notin Ahead(ms, i)
    BY <1>0 DEF Ahead
  <2> QED BY <2>1, <1>1, <1>2, FS_Subset
<1>4. ASSUME NEW j \in DOMAIN ms, i \in Ahead(ms, j)
      PROVE  Cardinality(Ahead(ms, i)) < Cardinality(Ahead(ms, j))
  <2>1. Ahead(ms, i) \subseteq Ahead(ms, j)
    BY <1>0, <1>4 DEF Ahead
  <2>2. i \notin Ahead(ms, i)
    BY <1>0 DEF Ahead
  <2> QED BY <2>1, <2>2, <1>2, <1>4, FS_Subset
<1> QED BY <1>0, <1>2, <1>3, <1>4

(* sort.SliceStable permutes the matches into descending order: every match  *)
(* has a place of its own, and every place is taken.                         *)
LEMMA SortPermutes ==
    ASSUME NEW ms \in Seq(Candidate)
    PROVE  LET sorted == SortStable(ms)
           IN  /\ sorted \in Seq(Candidate) /\ Len(sorted) = Len(ms)
               /\ \A p, q \in DOMAIN sorted : p < q =>
                      CalculateConfidence(sorted[p]) >= CalculateConfidence(sorted[q])
               /\ {sorted[p] : p \in DOMAIN sorted} = {ms[i] : i \in DOMAIN ms}
               /\ (\A i, j \in DOMAIN ms : ms[i] = ms[j] => i = j) =>
                      \A p, q \in DOMAIN sorted : sorted[p] = sorted[q] => p = q
<1> DEFINE n == Len(ms)
           place == [i \in 1..n |-> Place(ms, i)]
           at(p) == CHOOSE i \in DOMAIN ms : Place(ms, i) = p
           sorted == SortStable(ms)
<1>0. /\ DOMAIN ms = 1..n /\ n \in Nat
      /\ \A k \in DOMAIN ms : ms[k] \in Candidate /\ CalculateConfidence(ms[k]) \in Int
  <2>1. DOMAIN ms = 1..n /\ n \in Nat /\ \A k \in DOMAIN ms : ms[k] \in Candidate
    OBVIOUS
  <2>2. \A m \in Candidate : CalculateConfidence(m) \in Int
    BY ScoreRange
  <2> QED BY <2>1, <2>2
<1>1. place \in Injection(1..n, 1..n)
  <2>1. place \in [1..n -> 1..n]
    BY <1>0, PlaceOrder
  <2>2. ASSUME NEW i \in 1..n, NEW j \in 1..n, place[i] = place[j] PROVE i = j
    <3>1. i # j => i \in Ahead(ms, j) \/ j \in Ahead(ms, i)
      BY <1>0 DEF Ahead
    <3>2. Place(ms, i) = Place(ms, j) /\ Place(ms, i) \in Int
      BY <2>1, <2>2
    <3> QED BY <3>1, <3>2, <1>0, PlaceOrder
  <2> QED BY <2>1, <2>2 DEF Injection, IsInjective
<1>2. place \in Surjection(1..n, 1..n)
  BY <1>0, <1>1, FS_Injection, FS_Interval
<1>3. \A p \in 1..n : at(p) \in 1..n /\ Place(ms, at(p)) = p
  <2>1. \A p \in 1..n : \E i \in DOMAIN ms : Place(ms, i) = p
    BY <1>0, <1>2 DEF Surjection
  <2> QED BY <2>1, <1>0
<1>4. \A i \in 1..n : Place(ms, i) \in 1..n /\ at(Place(ms, i)) = i
  BY <1>0, <1>1, <1>3 DEF Injection, IsInjective
<1>5. sorted = [p \in 1..n |-> ms[at(p)]]
  BY <1>0 DEF SortStable
<1> HIDE DEF at, sorted
<1>6. sorted \in Seq(Candidate) /\ Len(sorted) = n /\ DOMAIN sorted = 1..n
  BY <1>0, <1>3, <1>5
<1>7. ASSUME NEW p \in 1..n, NEW q \in 1..n, p < q
      PROVE  CalculateConfidence(sorted[p]) >= CalculateConfidence(sorted[q])
  <2>0. at(p) \in DOMAIN ms /\ at(q) \in DOMAIN ms
    BY <1>0, <1>3
  <2>1. at(q) \notin Ahead(ms, at(p))
    <3> SUFFICES ASSUME at(q) \in Ahead(ms, at(p)) PROVE FALSE
      OBVIOUS
    <3>1. Place(ms, at(q)) < Place(ms, at(p))
      BY <2>0, PlaceOrder
    <3> QED BY <3>1, <1>3, <1>7
  <2> QED BY <2>1, <1>0, <1>3, <1>5, <1>7 DEF Ahead
<1>8. {sorted[p] : p \in 1..n} = {ms[i] : i \in 1..n}
  BY <1>3, <1>4, <1>5
<1>9. ASSUME \A i, j \in DOMAIN ms : ms[i] = ms[j] => i = j,
             NEW p \in 1..n, NEW q \in 1..n, sorted[p] = sorted[q]
      PROVE  p = q
  BY <1>0, <1>3, <1>5, <1>9
<1> QED BY <1>0, <1>6, <1>7, <1>8, <1>9 DEF sorted

(* A sequence without repetitions has as many elements as its range. *)
LEMMA RangeCardinality ==
    ASSUME NEW ms \in Seq(Candidate), \A i, j \in DOMAIN ms : ms[i] = ms[j] => i = j
    PROVE  LET range == {ms[i] : i \in DOMAIN ms}
           IN  IsFiniteSet(range) /\ Cardinality(range) = Len(ms)
<1> DEFINE range == {ms[i] : i \in DOMAIN ms}
<1>1. DOMAIN ms = 1..Len(ms) /\ Len(ms) \in Nat /\ ms = [i \in 1..Len(ms) |-> ms[i]]
  OBVIOUS
<1>2. ms \in Surjection(1..Len(ms), range) /\ ms \in Injection(1..Len(ms), range)
  <2>1. ms \in [1..Len(ms) -> range]
    BY <1>1
  <2>2. \A x \in range : \E i \in 1..Len(ms) : ms[i] = x
    BY <1>1
  <2>3. IsInjective(ms)
    BY DEF IsInjective
  <2> QED BY <2>1, <2>2, <2>3 DEF Surjection, Injection
<1>3. IsFiniteSet(1..Len(ms)) /\ Cardinality(1..Len(ms)) = Len(ms)
  <2>1. Len(ms) \in Nat
    OBVIOUS
  <2>2. IsFiniteSet(1..Len(ms)) /\ Cardinality(1..Len(ms)) = IF 1 > Len(ms) THEN 0 ELSE Len(ms) - 1 + 1
    BY <2>1, FS_Interval
  <2> QED BY <2>1, <2>2
<1> QED BY <1>2, <1>3, FS_Surjection

(* Sort and cut leave the best of the matches. *)
LEMMA CutIsTop ==
    ASSUME NEW ms \in Seq(Candidate), \A i, j \in DOMAIN ms : ms[i] = ms[j] => i = j
    PROVE  /\ Cut(SortStable(ms)) \in Seq(Candidate)
           /\ IsTop(Cut(SortStable(ms)), {ms[i] : i \in DOMAIN ms})
<1> DEFINE sorted == SortStable(ms)
           res == Cut(sorted)
           found == {ms[i] : i \in DOMAIN ms}
           best == {res[p] : p \in DOMAIN res}
<1>1. /\ sorted \in Seq(Candidate) /\ Len(sorted) = Len(ms)
      /\ \A p, q \in DOMAIN sorted : p < q =>
             CalculateConfidence(sorted[p]) >= CalculateConfidence(sorted[q])
      /\ {sorted[p] : p \in DOMAIN sorted} = found
      /\ \A p, q \in DOMAIN sorted : sorted[p] = sorted[q] => p = q
  BY SortPermutes
<1>2. Cardinality(found) = Len(ms)
  BY RangeCardinality
<1> HIDE DEF sorted
<1>3. /\ res \in Seq(Candidate) /\ Len(res) <= Len(sorted)
      /\ Len(res) = IF Len(ms) > MaxResults THEN MaxResults ELSE Len(ms)
      /\ \A p \in 1..Len(res) : res[p] = sorted[p]
  <2>1. CASE Len(sorted) > MaxResults
    BY <1>1, <2>1, BoundAssumption DEF Cut
  <2>2. CASE ~(Len(sorted) > MaxResults)
    BY <1>1, <2>2, BoundAssumption DEF Cut
  <2> QED BY <2>1, <2>2
<1> HIDE DEF res
<1>4. DOMAIN res = 1..Len(res) /\ DOMAIN sorted = 1..Len(sorted)
  BY <1>1, <1>3
<1>5. Cardinality(best) = Len(res)
  <2>1. \A p, q \in DOMAIN res : res[p] = res[q] => p = q
    BY <1>1, <1>3, <1>4
  <2> QED BY <1>3, <2>1, RangeCardinality
<1>6. best \subseteq found
  <2> SUFFICES ASSUME NEW p \in DOMAIN res
               PROVE  res[p] \in {sorted[q] : q \in DOMAIN sorted}
    BY <1>1
  <2>1. p \in DOMAIN sorted /\ res[p] = sorted[p]
    BY <1>1, <1>3, <1>4
  <2> QED BY <2>1
<1>7. \A i, j \in DOMAIN res : i < j =>
          CalculateConfidence(res[i]) >= CalculateConfidence(res[j])
  BY <1>1, <1>3, <1>4
<1>8. ASSUME NEW m \in found \ best, NEW b \in best
      PROVE  CalculateConfidence(m) <= CalculateConfidence(b)
  <2>1. PICK q \in DOMAIN sorted : m = sorted[q]
    BY <1>1, <1>8
  <2>2. PICK p \in DOMAIN res : b = res[p]
    BY <1>8
  <2>3. ~(q \in 1..Len(res))
    BY <1>3, <1>4, <1>8, <2>1
  <2>4. p < q /\ p \in DOMAIN sorted /\ b = sorted[p]
    BY <1>3, <1>4, <2>1, <2>2, <2>3
  <2>5. m \in Candidate /\ b \in Candidate
    BY <1>1, <2>1, <2>4
  <2> QED BY <1>1, <2>1, <2>4, <2>5, ScoreRange
<1> QED BY <1>2, <1>3, <1>5, <1>6, <1>7, <1>8 DEF IsTop, res, sorted

(* What a search returns are candidates. *)
LEMMA CutType ==
    ASSUME NEW ms \in Seq(Candidate)
    PROVE  Cut(SortStable(ms)) \in Seq(Candidate)
<1>1. SortStable(ms) \in Seq(Candidate)
  BY SortPermutes
<1> QED BY <1>1, BoundAssumption DEF Cut

-----------------------------------------------------------------------------
(* Types *)

(* An answer of a source is an answer. *)
LEMMA AnswersSubset == \A s \in Source : Answers[s] \subseteq Answer
  BY DEF Answer

(* A row of an answer is a row, and no row is NoRow. *)
LEMMA FreshRow ==
    ASSUME NEW a \in Answer
    PROVE  [answer |-> a, age |-> 0] \in Row /\ [answer |-> a, age |-> 0] # NoRow
  BY TTLAssumption, BoundAssumption, NoneAssumption DEF Row

(* A function of two arguments changed in one place. *)
LEMMA Changed ==
    ASSUME NEW V, NEW f \in [Client -> [Source -> V]],
           NEW c \in Client, NEW s \in Source, NEW v \in V
    PROVE  LET g == [f EXCEPT ![c][s] = v]
           IN  /\ g \in [Client -> [Source -> V]]
               /\ g[c][s] = v
               /\ \A d \in Client, t \in Source :
                      d # c \/ t # s => g[d][t] = f[d][t]
  OBVIOUS

(* The state is well typed at the start. *)
LEMMA TypeInit == Init => TypeOK
<1> SUFFICES ASSUME Init PROVE TypeOK
  OBVIOUS
<1>1. MaxHeard \in Nat /\ MaxLag \in Nat
  BY TTLAssumption, BoundAssumption DEF MaxHeard
<1>2. /\ lag \in [Client -> [Source -> 0..MaxLag]]
      /\ aged \in [Client -> [Source -> 0..MaxHeard]]
      /\ heard \in [Source -> [Answer -> 0..MaxHeard]]
  BY <1>1 DEF Init, Each
<1>3. /\ gor \in [Client -> [Source -> Running \cup {"off", "over"}]]
      /\ got \in [Client -> [Source -> Answer \cup {<<>>}]]
  BY DEF Init, Each
<1>4. out \in [Client -> Seq(Candidate)] /\ results \in [Client -> Seq(Candidate)]
  BY DEF Init
<1>5. Shapes
  BY <1>2, <1>3, <1>4 DEF Init, Shapes
<1>6. \A c \in Client, s \in Source : got[c][s] = <<>> /\ gor[c][s] = "off"
  BY DEF Init, Each
<1>7. \A s \in Source : upstream[s] \in Answers[s] /\ cache[s] = NoRow
  BY DEF Init
<1>8. Linked
  BY <1>6, <1>7 DEF Linked
<1> QED BY <1>5, <1>8 DEF TypeOK

(* A step of a goroutine leaves the others alone. *)
LEMMA GoroutineLocal ==
    ASSUME TypeOK, NEW c \in Client, NEW s \in Source, Goroutine(c, s)
    PROVE  /\ gor' \in [Client -> [Source -> Running \cup {"off", "over"}]]
           /\ got' \in [Client -> [Source -> Answer \cup {<<>>}]]
           /\ aged' \in [Client -> [Source -> 0..MaxHeard]]
           /\ lag' \in [Client -> [Source -> 0..MaxLag]]
           /\ \A d \in Client, t \in Source : d # c \/ t # s =>
                  /\ gor'[d][t] = gor[d][t] /\ got'[d][t] = got[d][t]
                  /\ aged'[d][t] = aged[d][t] /\ lag'[d][t] = lag[d][t]
<1> DEFINE States == Running \cup {"off", "over"}
<1>0. /\ gor \in [Client -> [Source -> States]]
      /\ got \in [Client -> [Source -> Answer \cup {<<>>}]]
      /\ aged \in [Client -> [Source -> 0..MaxHeard]]
      /\ lag \in [Client -> [Source -> 0..MaxLag]]
      /\ heard \in [Source -> [Answer -> 0..MaxHeard]]
      /\ cache[s] # NoRow => cache[s].answer \in Answer
      /\ upstream[s] \in Answer
  BY AnswersSubset DEF TypeOK, Shapes, Linked
<1>1. \E v \in States : gor' = [gor EXCEPT ![c][s] = v]
  <2>1. \A b : (IF b THEN "over" ELSE "append") \in States
    BY DEF Running
  <2>2. "wait" \in States /\ "put" \in States /\ "over" \in States
    BY DEF Running
  <2> HIDE DEF States
  <2> QED BY <2>1, <2>2 DEF Goroutine, CacheHit, CacheMiss, CacheError, Fetch, SourceFails,
                             Put, PutError, AfterPut, AppendMatches
<1>2. got' = got \/ \E v \in Answer \cup {<<>>} : got' = [got EXCEPT ![c][s] = v]
  BY <1>0 DEF Goroutine, CacheHit, CacheMiss, CacheError, Fetch, SourceFails, Put, PutError,
              AppendMatches, MayHit
<1>3. aged' = aged \/ \E v \in 0..MaxHeard : aged' = [aged EXCEPT ![c][s] = v]
  <2>1. 0 \in 0..MaxHeard
    BY TTLAssumption, BoundAssumption DEF MaxHeard
  <2>2. cache[s] # NoRow => heard[s][cache[s].answer] \in 0..MaxHeard
    BY <1>0
  <2> QED BY <2>1, <2>2 DEF Goroutine, CacheHit, CacheMiss, CacheError, Fetch, SourceFails,
              Put, PutError, AppendMatches, MayHit, histVars
<1>4. lag' = lag \/ lag' = [lag EXCEPT ![c][s] = 0]
  BY DEF Goroutine, CacheHit, CacheMiss, CacheError, Fetch, SourceFails, Put, PutError,
         AfterPut, AppendMatches, histVars
<1>5. 0 \in 0..MaxLag
  BY BoundAssumption
<1> DEFINE Got == Answer \cup {<<>>}
           Ages == 0..MaxHeard
           Lags == 0..MaxLag
<1>b. /\ got \in [Client -> [Source -> Got]] /\ aged \in [Client -> [Source -> Ages]]
      /\ lag \in [Client -> [Source -> Lags]] /\ 0 \in Lags
      /\ got' = got \/ \E v \in Got : got' = [got EXCEPT ![c][s] = v]
      /\ aged' = aged \/ \E v \in Ages : aged' = [aged EXCEPT ![c][s] = v]
  BY <1>0, <1>2, <1>3, <1>5
<1> HIDE DEF States, Got, Ages, Lags
<1>6. /\ gor' \in [Client -> [Source -> States]]
      /\ \A d \in Client, t \in Source : d # c \/ t # s => gor'[d][t] = gor[d][t]
  BY <1>0, <1>1, Changed
<1>7. /\ got' \in [Client -> [Source -> Got]]
      /\ \A d \in Client, t \in Source : d # c \/ t # s => got'[d][t] = got[d][t]
  <2>1. CASE got' = got
    BY <1>b, <2>1
  <2>2. ASSUME NEW v \in Got, got' = [got EXCEPT ![c][s] = v]
        PROVE  /\ got' \in [Client -> [Source -> Got]]
               /\ \A d \in Client, t \in Source : d # c \/ t # s => got'[d][t] = got[d][t]
    BY <1>b, <2>2, Changed
  <2> QED BY <1>b, <2>1, <2>2
<1>8. /\ aged' \in [Client -> [Source -> Ages]]
      /\ \A d \in Client, t \in Source : d # c \/ t # s => aged'[d][t] = aged[d][t]
  <2>1. CASE aged' = aged
    BY <1>b, <2>1
  <2>2. ASSUME NEW v \in Ages, aged' = [aged EXCEPT ![c][s] = v]
        PROVE  /\ aged' \in [Client -> [Source -> Ages]]
               /\ \A d \in Client, t \in Source : d # c \/ t # s => aged'[d][t] = aged[d][t]
    BY <1>b, <2>2, Changed
  <2> QED BY <1>b, <2>1, <2>2
<1>9. /\ lag' \in [Client -> [Source -> Lags]]
      /\ \A d \in Client, t \in Source : d # c \/ t # s => lag'[d][t] = lag[d][t]
  <2>1. CASE lag' = lag
    BY <1>b, <2>1
  <2>2. CASE lag' = [lag EXCEPT ![c][s] = 0]
    BY <1>b, <2>2, Changed
  <2> QED BY <1>4, <2>1, <2>2
<1> QED BY <1>6, <1>7, <1>8, <1>9 DEF States, Got, Ages, Lags

(* What it does to its own state. *)
LEMMA GoroutineOwn ==
    ASSUME TypeOK, NEW c \in Client, NEW s \in Source
    PROVE  /\ CacheHit(c, s) =>
                  /\ got'[c][s] = cache[s].answer
                  /\ aged'[c][s] = heard[s][cache[s].answer]
                  /\ gor'[c][s] = IF cache[s].answer = <<>> THEN "over" ELSE "append"
           /\ CacheMiss(c, s) => gor'[c][s] = "wait"
           /\ CacheError(c, s) => gor'[c][s] = "wait"
           /\ Fetch(c, s) => /\ got'[c][s] = upstream[s] /\ aged'[c][s] = 0
                             /\ gor'[c][s] = "put"
           /\ SourceFails(c, s) => gor'[c][s] = "over"
           /\ AppendMatches(c, s) => gor'[c][s] = "over"
           /\ Put(c, s) => /\ gor'[c][s] = IF got[c][s] = <<>> THEN "over" ELSE "append"
                           /\ lag'[c][s] = 0
           /\ PutError(c, s) => /\ gor'[c][s] = IF got[c][s] = <<>> THEN "over" ELSE "append"
                                /\ lag'[c][s] = 0
<1>1. /\ gor \in [Client -> [Source -> Running \cup {"off", "over"}]]
      /\ got \in [Client -> [Source -> Answer \cup {<<>>}]]
      /\ aged \in [Client -> [Source -> 0..MaxHeard]]
      /\ lag \in [Client -> [Source -> 0..MaxLag]]
  BY DEF TypeOK, Shapes
<1>2. ASSUME NEW v, gor' = [gor EXCEPT ![c][s] = v] PROVE gor'[c][s] = v
  BY <1>1, <1>2
<1>3. ASSUME NEW v, got' = [got EXCEPT ![c][s] = v] PROVE got'[c][s] = v
  BY <1>1, <1>3
<1>4. ASSUME NEW v, aged' = [aged EXCEPT ![c][s] = v] PROVE aged'[c][s] = v
  BY <1>1, <1>4
<1>5. lag' = [lag EXCEPT ![c][s] = 0] => lag'[c][s] = 0
  BY <1>1
<1>6. CacheHit(c, s) => /\ got'[c][s] = cache[s].answer
                        /\ aged'[c][s] = heard[s][cache[s].answer]
                        /\ gor'[c][s] = IF cache[s].answer = <<>> THEN "over" ELSE "append"
  BY <1>2, <1>3, <1>4 DEF CacheHit
<1>7. Fetch(c, s) => got'[c][s] = upstream[s] /\ aged'[c][s] = 0 /\ gor'[c][s] = "put"
  BY <1>2, <1>3, <1>4 DEF Fetch
<1>8. /\ Put(c, s) => /\ gor'[c][s] = IF got[c][s] = <<>> THEN "over" ELSE "append"
                      /\ lag'[c][s] = 0
      /\ PutError(c, s) => /\ gor'[c][s] = IF got[c][s] = <<>> THEN "over" ELSE "append"
                           /\ lag'[c][s] = 0
  BY <1>2, <1>5 DEF Put, PutError, AfterPut
<1>9. /\ CacheMiss(c, s) => gor'[c][s] = "wait"
      /\ CacheError(c, s) => gor'[c][s] = "wait"
      /\ SourceFails(c, s) => gor'[c][s] = "over"
      /\ AppendMatches(c, s) => gor'[c][s] = "over"
  BY <1>2 DEF CacheMiss, CacheError, SourceFails, AppendMatches
<1> QED BY <1>6, <1>7, <1>8, <1>9

(* Every step keeps the state well typed. *)
LEMMA TypeStep == TypeOK /\ [Next]_vars => TypeOK'
<1> SUFFICES ASSUME TypeOK, [Next]_vars PROVE TypeOK'
  OBVIOUS
<1> DEFINE States == Running \cup {"off", "over"}
<1>0. MaxHeard \in Nat /\ MaxLag \in Nat
  BY TTLAssumption, BoundAssumption DEF MaxHeard
<1>a. /\ gor \in [Client -> [Source -> States]]
      /\ got \in [Client -> [Source -> Answer \cup {<<>>}]]
      /\ aged \in [Client -> [Source -> 0..MaxHeard]]
      /\ lag \in [Client -> [Source -> 0..MaxLag]]
      /\ heard \in [Source -> [Answer -> 0..MaxHeard]]
  BY DEF TypeOK, Shapes
<1>1. ASSUME NEW c \in Client, NEW enabled \in EnabledFor[c], Search(c, enabled)
      PROVE  TypeOK'
  <2>1. /\ gor' \in [Client -> [Source -> States]]
        /\ got' \in [Client -> [Source -> Answer \cup {<<>>}]]
        /\ aged' \in [Client -> [Source -> 0..MaxHeard]]
        /\ results' \in [Client -> Seq(Candidate)]
    BY <1>0, <1>1, <1>a DEF Search, Running, TypeOK, Shapes
  <2>2. Shapes'
    BY <1>1, <2>1 DEF Search, TypeOK, Shapes
  <2>3. /\ \A s \in Source : got'[c][s] = <<>> /\ gor'[c][s] \in {"get", "over"}
        /\ \A d \in Client \ {c} : got'[d] = got[d] /\ gor'[d] = gor[d]
    BY <1>1, <1>a DEF Search
  <2>4. Linked'
    BY <1>1, <2>3 DEF Search, TypeOK, Linked
  <2> QED BY <2>2, <2>4 DEF TypeOK
<1>2. ASSUME NEW c \in Client, NEW s \in Source, Goroutine(c, s) PROVE TypeOK'
  <2>1. /\ gor' \in [Client -> [Source -> States]]
        /\ got' \in [Client -> [Source -> Answer \cup {<<>>}]]
        /\ aged' \in [Client -> [Source -> 0..MaxHeard]]
        /\ lag' \in [Client -> [Source -> 0..MaxLag]]
        /\ \A d \in Client, t \in Source : d # c \/ t # s =>
               gor'[d][t] = gor[d][t] /\ got'[d][t] = got[d][t]
    BY <1>2, GoroutineLocal
  <2>b. \A d \in Client, t \in Source : d # c \/ t # s =>
            gor'[d][t] = gor[d][t] /\ got'[d][t] = got[d][t]
    BY <2>1
  <2>2. CASE CacheHit(c, s)
    <3>1. cache[s].answer \in Answers[s]
      BY <2>2 DEF CacheHit, MayHit, TypeOK, Linked
    <3>2. Shapes'
      BY <2>1, <2>2 DEF CacheHit, TypeOK, Shapes
    <3>3. Linked'
      BY <2>1, <2>2, <3>1, GoroutineOwn DEF CacheHit, TypeOK, Linked
    <3> QED BY <3>2, <3>3 DEF TypeOK
  <2>3. CASE CacheMiss(c, s) \/ CacheError(c, s) \/ SourceFails(c, s)
    <3>1. /\ UNCHANGED <<upstream, cache, got, out, results, searches, edits, heard, kept>>
          /\ faults' \in Nat /\ gor[c][s] \in {"get", "wait"}
      BY <2>3 DEF CacheMiss, CacheError, SourceFails, histVars, TypeOK, Shapes
    <3>2. Shapes'
      BY <2>1, <3>1 DEF TypeOK, Shapes
    <3>3. gor'[c][s] \in {"wait", "over"} /\ got[c][s] = <<>>
      <4>1. got[c][s] = <<>>
        BY <3>1 DEF TypeOK, Linked
      <4> QED BY <2>3, <4>1, GoroutineOwn
    <3>4. Linked'
      BY <2>b, <3>1, <3>3 DEF TypeOK, Linked
    <3> QED BY <3>2, <3>4 DEF TypeOK
  <2>4. CASE Fetch(c, s)
    <3>1. Shapes'
      BY <2>1, <2>4 DEF Fetch, TypeOK, Shapes
    <3>2. Linked'
      BY <2>1, <2>4, GoroutineOwn DEF Fetch, TypeOK, Linked
    <3> QED BY <3>1, <3>2 DEF TypeOK
  <2>5. CASE Put(c, s)
    <3>1. got[c][s] \in Answers[s] /\ got[c][s] \in Answer
      BY <2>5, AnswersSubset DEF Put, TypeOK, Linked
    <3>2. [answer |-> got[c][s], age |-> 0] \in Row
      BY <3>1, FreshRow
    <3>3. Shapes'
      BY <2>1, <2>5, <3>2 DEF Put, TypeOK, Shapes
    <3>4. /\ cache'[s] = [answer |-> got[c][s], age |-> 0]
          /\ \A t \in Source \ {s} : cache'[t] = cache[t]
      BY <2>5 DEF Put, TypeOK, Shapes
    <3>5. /\ gor'[c][s] = IF got[c][s] = <<>> THEN "over" ELSE "append"
          /\ got' = got /\ upstream' = upstream
      <4>1. got' = got /\ upstream' = upstream
        BY <2>5 DEF Put
      <4> QED BY <2>5, <4>1, GoroutineOwn
    <3>6. Linked'
      BY <2>b, <3>1, <3>4, <3>5 DEF TypeOK, Linked
    <3> QED BY <3>3, <3>6 DEF TypeOK
  <2>6. CASE PutError(c, s)
    <3>1. Shapes'
      BY <2>1, <2>6 DEF PutError, TypeOK, Shapes
    <3>2. /\ gor'[c][s] = IF got[c][s] = <<>> THEN "over" ELSE "append"
          /\ got' = got /\ upstream' = upstream /\ cache' = cache
      <4>1. got' = got /\ upstream' = upstream /\ cache' = cache
        BY <2>6 DEF PutError
      <4> QED BY <2>6, <4>1, GoroutineOwn
    <3>3. Linked'
      BY <2>b, <3>2 DEF TypeOK, Linked
    <3> QED BY <3>1, <3>3 DEF TypeOK
  <2>7. CASE AppendMatches(c, s)
    <3>1. got[c][s] \in Seq(Candidate) /\ out[c] \in Seq(Candidate)
      <4>1. got[c][s] \in Answer \cup {<<>>} /\ out[c] \in Seq(Candidate)
        BY <1>a DEF TypeOK, Shapes
      <4>2. <<>> \in Seq(Candidate)
        OBVIOUS
      <4> QED BY <4>1, <4>2, AnswerSeq
    <3>2. out[c] \o got[c][s] \in Seq(Candidate)
      BY <3>1
    <3>3. out' \in [Client -> Seq(Candidate)]
      BY <2>7, <3>2 DEF AppendMatches, TypeOK, Shapes
    <3>4. Shapes'
      BY <2>1, <2>7, <3>3 DEF AppendMatches, TypeOK, Shapes, histVars
    <3>5. Linked'
      BY <2>1, <2>7, GoroutineOwn DEF AppendMatches, TypeOK, Linked
    <3> QED BY <3>4, <3>5 DEF TypeOK
  <2> QED BY <1>2, <2>2, <2>3, <2>4, <2>5, <2>6, <2>7 DEF Goroutine
<1>3. ASSUME NEW c \in Client, Return(c) PROVE TypeOK'
  <2>1. Cut(SortStable(out[c])) \in Seq(Candidate)
    BY CutType DEF TypeOK, Shapes
  <2>2. /\ gor' \in [Client -> [Source -> States]]
        /\ results' \in [Client -> Seq(Candidate)] /\ out' \in [Client -> Seq(Candidate)]
    BY <1>3, <1>a, <2>1 DEF Return, TypeOK, Shapes
  <2>3. Shapes'
    BY <1>3, <2>2 DEF Return, TypeOK, Shapes, histVars
  <2>4. /\ \A s \in Source : gor'[c][s] = "off"
        /\ \A d \in Client \ {c} : gor'[d] = gor[d]
    BY <1>3, <1>a DEF Return
  <2>5. Linked'
    BY <1>3, <2>4 DEF Return, TypeOK, Linked
  <2> QED BY <2>3, <2>5 DEF TypeOK
<1>4. ASSUME EvictExpired PROVE TypeOK'
  <2>1. \A s \in Source : cache'[s] \in {cache[s], NoRow}
    BY <1>4 DEF EvictExpired
  <2>2. Shapes'
    BY <1>4 DEF EvictExpired, searchVars, histVars, TypeOK, Shapes
  <2>3. Linked'
    BY <1>4, <2>1 DEF EvictExpired, searchVars, TypeOK, Linked
  <2> QED BY <2>2, <2>3 DEF TypeOK
<1>5. ASSUME NEW s \in Source, NEW a \in Answer, Edit(s, a) PROVE TypeOK'
  <2>1. upstream' \in [Source -> Answer] /\ heard' \in [Source -> [Answer -> 0..MaxHeard]]
    BY <1>0, <1>5, <1>a DEF Edit, TypeOK, Shapes
  <2>2. Shapes'
    BY <1>5, <2>1 DEF Edit, searchVars, TypeOK, Shapes
  <2>3. upstream'[s] = a /\ \A t \in Source \ {s} : upstream'[t] = upstream[t]
    BY <1>5 DEF Edit, TypeOK, Shapes
  <2>4. Linked'
    BY <1>5, <2>3 DEF Edit, searchVars, TypeOK, Linked
  <2> QED BY <2>2, <2>4 DEF TypeOK
<1>6. ASSUME Tick PROVE TypeOK'
  <2>1. \A row \in Row \cup {NoRow} :
            /\ Older(row) \in Row \cup {NoRow} /\ (Older(row) = NoRow <=> row = NoRow)
            /\ row # NoRow => Older(row).answer = row.answer
    BY TTLAssumption, BoundAssumption, NoneAssumption DEF Older, Row
  <2>2. cache' \in [Source -> Row \cup {NoRow}] /\ kept' \in [Source -> Row \cup {NoRow}]
    BY <1>6, <2>1 DEF Tick, TypeOK, Shapes
  <2>3. lag' \in [Client -> [Source -> 0..MaxLag]]
    BY <1>0, <1>6, <1>a DEF Tick
  <2>4. heard' \in [Source -> [Answer -> 0..MaxHeard]]
    BY <1>0, <1>6, <1>a DEF Tick
  <2>5. Shapes'
    BY <1>6, <2>2, <2>3, <2>4 DEF Tick, searchVars, TypeOK, Shapes
  <2>6. Linked'
    BY <1>6, <2>1 DEF Tick, searchVars, TypeOK, Shapes, Linked
  <2> QED BY <2>5, <2>6 DEF TypeOK
<1>7. CASE UNCHANGED vars
  <2>1. Shapes'
    BY <1>7 DEF vars, searchVars, histVars, TypeOK, Shapes
  <2>2. Linked'
    BY <1>7 DEF vars, searchVars, histVars, TypeOK, Linked
  <2> QED BY <2>1, <2>2 DEF TypeOK
<1> QED BY <1>1, <1>2, <1>3, <1>4, <1>5, <1>6, <1>7 DEF Next

(* Types are kept, through every order of the goroutines, evictions, edits   *)
(* and days: in particular a goroutine only ever appends or stores what its  *)
(* own source answered.                                                      *)
THEOREM SearchTypeCorrect == Spec => []TypeOK
  BY TypeInit, TypeStep, PTL DEF Spec

-----------------------------------------------------------------------------
(* Freshness *)

(* The facts of TypeOK that the arithmetic of ages needs. *)
LEMMA Ages ==
    ASSUME TypeOK
    PROVE  /\ TTL \in Int /\ NotFoundTTL \in Int /\ 0 <= NotFoundTTL /\ NotFoundTTL <= TTL
           /\ MaxLag \in Int /\ 0 <= MaxLag /\ MaxSkew \in Int /\ 0 <= MaxSkew
           /\ MaxHeard = TTL + MaxLag + MaxSkew + 1
           /\ \A s \in Source, a \in Answer :
                  heard[s][a] \in Int /\ 0 <= heard[s][a] /\ heard[s][a] <= MaxHeard
           /\ \A c \in Client, s \in Source :
                  /\ lag[c][s] \in Int /\ 0 <= lag[c][s] /\ lag[c][s] <= MaxLag
                  /\ aged[c][s] \in Int
           /\ \A s \in Source : cache[s] # NoRow =>
                  /\ cache[s].age \in Int /\ 0 <= cache[s].age
                  /\ cache[s].age <= TTL + MaxSkew + 1 /\ cache[s].answer \in Answer
           /\ \A s \in Source : kept[s] # NoRow =>
                  kept[s].age \in Int /\ 0 <= kept[s].age
<1>1. /\ heard \in [Source -> [Answer -> 0..MaxHeard]]
      /\ lag \in [Client -> [Source -> 0..MaxLag]]
      /\ aged \in [Client -> [Source -> 0..MaxHeard]]
      /\ cache \in [Source -> Row \cup {NoRow}] /\ kept \in [Source -> Row \cup {NoRow}]
  BY DEF TypeOK, Shapes
<1>2. /\ TTL \in Nat /\ NotFoundTTL \in 0..TTL /\ MaxLag \in Nat /\ MaxSkew \in Nat
      /\ MaxHeard = TTL + MaxLag + MaxSkew + 1
  BY TTLAssumption, BoundAssumption DEF MaxHeard
<1>3. \A s \in Source, a \in Answer : heard[s][a] \in 0..MaxHeard
  BY <1>1
<1>4. \A c \in Client, s \in Source : lag[c][s] \in 0..MaxLag /\ aged[c][s] \in 0..MaxHeard
  BY <1>1
<1>5. \A s \in Source : /\ cache[s] # NoRow => cache[s] \in Row
                        /\ kept[s] # NoRow => kept[s] \in Row
  BY <1>1
<1>6. \A row \in Row : /\ row.age \in Int /\ 0 <= row.age /\ row.age <= TTL + MaxSkew + 1
                       /\ row.answer \in Answer
  BY <1>2 DEF Row
<1> QED BY <1>2, <1>3, <1>4, <1>5, <1>6

(* A row that answers is young enough for what it holds. *)
LEMMA HitAge ==
    ASSUME TypeOK, NEW s \in Source, MayHit(cache[s])
    PROVE  /\ cache[s] # NoRow /\ cache[s].answer \in Answer
           /\ cache[s].age <= MaxSkew + IF cache[s].answer = <<>> THEN NotFoundTTL ELSE TTL
  BY Ages DEF MayHit, TtlOf

(* The bounds on what is stored hold at the start. *)
LEMMA HeardInit == Init => Heard /\ FreshAnswers
<1> SUFFICES ASSUME Init PROVE Heard /\ FreshAnswers
  OBVIOUS
<1>1. TypeOK
  BY TypeInit
<1>2. \A c \in Client, s \in Source :
          gor[c][s] = "off" /\ lag[c][s] = 0 /\ aged[c][s] = 0
  BY DEF Init, Each
<1>3. \A s \in Source : upstream[s] \in Answer /\ cache[s] = NoRow
  BY DEF Init
<1>4. \A s \in Source : heard[s][upstream[s]] = 0
  BY <1>3 DEF Init
<1>5. Heard
  BY <1>2, <1>3, <1>4 DEF Heard
<1>6. FreshAnswers
  BY <1>1, <1>2, Ages DEF FreshAnswers
<1> QED BY <1>5, <1>6

(* Every step keeps them: a day adds one to each side, and a put stores what *)
(* was heard at most MaxLag ago.                                             *)
LEMMA HeardStep ==
    TypeOK /\ Heard /\ FreshAnswers /\ [Next]_vars => Heard' /\ FreshAnswers'
<1> SUFFICES ASSUME TypeOK, Heard, FreshAnswers, [Next]_vars
             PROVE  Heard' /\ FreshAnswers'
  OBVIOUS
<1>0. TTL \in Int /\ NotFoundTTL \in Int /\ 0 <= NotFoundTTL /\ NotFoundTTL <= TTL
      /\ MaxLag \in Int /\ 0 <= MaxLag /\ MaxSkew \in Int /\ 0 <= MaxSkew
      /\ MaxHeard = TTL + MaxLag + MaxSkew + 1
  BY Ages
<1>a. /\ \A c \in Client, s \in Source :
             lag[c][s] \in Int /\ 0 <= lag[c][s] /\ lag[c][s] <= MaxLag
      /\ \A s \in Source : cache[s] # NoRow =>
             /\ cache[s].age \in Int /\ 0 <= cache[s].age
             /\ cache[s].age <= TTL + MaxSkew + 1 /\ cache[s].answer \in Answer
  BY Ages
<1>b. \A s \in Source, a \in Answer :
             heard[s][a] \in Int /\ 0 <= heard[s][a] /\ heard[s][a] <= MaxHeard
  BY Ages
<1>c. \A c \in Client, s \in Source : gor[c][s] = "put" => got[c][s] \in Answer
  BY AnswersSubset DEF TypeOK, Linked
<1>d. \A s \in Source : upstream[s] \in Answer
  BY AnswersSubset DEF TypeOK, Linked
<1>1. ASSUME NEW c \in Client, NEW enabled \in EnabledFor[c], Search(c, enabled)
      PROVE  Heard' /\ FreshAnswers'
  <2>1. /\ \A s \in Source : /\ gor[c][s] # "put" /\ gor'[c][s] # "put"
                             /\ aged'[c][s] = 0 /\ got'[c][s] = <<>>
        /\ \A d \in Client \ {c} : got'[d] = got[d] /\ gor'[d] = gor[d] /\ aged'[d] = aged[d]
        /\ UNCHANGED <<upstream, cache, heard, lag>>
    BY <1>1 DEF Search, Idle, TypeOK, Shapes
  <2>2. Heard'
    BY <2>1 DEF Heard
  <2>3. FreshAnswers'
    BY <1>0, <2>1 DEF FreshAnswers
  <2> QED BY <2>2, <2>3
<1>2. ASSUME NEW c \in Client, NEW s \in Source, Goroutine(c, s)
      PROVE  Heard' /\ FreshAnswers'
  <2>0. \A d \in Client, t \in Source : d # c \/ t # s =>
            /\ gor'[d][t] = gor[d][t] /\ got'[d][t] = got[d][t]
            /\ aged'[d][t] = aged[d][t] /\ lag'[d][t] = lag[d][t]
    BY <1>2, GoroutineLocal
  <2>a. upstream' = upstream /\ heard' = heard
    BY <1>2 DEF Goroutine, CacheHit, CacheMiss, CacheError, Fetch, SourceFails, Put, PutError,
                AppendMatches, histVars
  <2>1. CASE CacheHit(c, s)
    <3>1. /\ cache[s] # NoRow /\ cache[s].answer \in Answer
          /\ cache[s].age <= MaxSkew + IF cache[s].answer = <<>> THEN NotFoundTTL ELSE TTL
      <4>1. MayHit(cache[s])
        BY <2>1 DEF CacheHit
      <4> QED BY <4>1, HitAge
    <3>2. heard[s][cache[s].answer] <= cache[s].age + MaxLag
      BY <3>1 DEF Heard
    <3>3. /\ got'[c][s] = cache[s].answer /\ aged'[c][s] = heard[s][cache[s].answer]
          /\ gor'[c][s] # "put"
      BY <2>1, GoroutineOwn
    <3>4. cache' = cache /\ lag' = lag /\ gor[c][s] # "put"
      BY <2>1 DEF CacheHit
    <3>5. aged'[c][s] <= MaxLag + MaxSkew + IF got'[c][s] = <<>> THEN NotFoundTTL ELSE TTL
      <4>1. /\ cache[s].age \in Int /\ heard[s][cache[s].answer] \in Int
        BY <1>a, <1>b, <3>1
      <4>2. CASE cache[s].answer = <<>>
        BY <1>0, <3>1, <3>2, <3>3, <4>1, <4>2
      <4>3. CASE cache[s].answer # <<>>
        BY <1>0, <3>1, <3>2, <3>3, <4>1, <4>3
      <4> QED BY <4>2, <4>3
    <3>6. Heard'
      BY <2>0, <2>a, <3>3, <3>4 DEF Heard
    <3>7. FreshAnswers'
      BY <2>0, <3>5 DEF FreshAnswers
    <3> QED BY <3>6, <3>7
  <2>2. CASE CacheMiss(c, s) \/ CacheError(c, s) \/ SourceFails(c, s) \/ AppendMatches(c, s)
    <3>1. gor'[c][s] # "put"
      BY <2>2, GoroutineOwn
    <3>2. /\ cache' = cache /\ lag' = lag /\ got' = got /\ aged' = aged
          /\ gor[c][s] # "put"
      BY <2>2 DEF CacheMiss, CacheError, SourceFails, AppendMatches, histVars
    <3>3. Heard'
      BY <2>0, <2>a, <3>1, <3>2 DEF Heard
    <3>4. FreshAnswers'
      BY <3>2 DEF FreshAnswers
    <3> QED BY <3>3, <3>4
  <2>3. CASE Fetch(c, s)
    <3>1. gor'[c][s] = "put" /\ got'[c][s] = upstream[s] /\ aged'[c][s] = 0
      BY <2>3, GoroutineOwn
    <3>2. cache' = cache /\ lag' = lag /\ gor[c][s] # "put"
      BY <2>3 DEF Fetch
    <3>3. Heard'
      BY <1>a, <2>0, <2>a, <3>1, <3>2 DEF Heard
    <3>4. FreshAnswers'
      BY <1>0, <2>0, <3>1 DEF FreshAnswers
    <3> QED BY <3>3, <3>4
  <2>4. CASE Put(c, s)
    <3>1. gor'[c][s] # "put" /\ lag'[c][s] = 0
      BY <2>4, GoroutineOwn
    <3>2. got' = got /\ aged' = aged /\ gor[c][s] = "put"
      BY <2>4 DEF Put
    <3>3. /\ cache'[s] = [answer |-> got[c][s], age |-> 0]
          /\ \A t \in Source \ {s} : cache'[t] = cache[t]
      BY <2>4 DEF Put, TypeOK, Shapes
    <3>4. heard[s][got[c][s]] <= cache'[s].age + MaxLag
      <4>1. heard[s][got[c][s]] <= lag[c][s]
        BY <3>2 DEF Heard
      <4> QED BY <1>0, <1>a, <1>b, <1>c, <3>2, <3>3, <4>1
    <3>5. Heard'
      BY <2>0, <2>a, <3>1, <3>2, <3>3, <3>4 DEF Heard
    <3>6. FreshAnswers'
      BY <3>2 DEF FreshAnswers
    <3> QED BY <3>5, <3>6
  <2>5. CASE PutError(c, s)
    <3>1. gor'[c][s] # "put" /\ lag'[c][s] = 0
      BY <2>5, GoroutineOwn
    <3>2. got' = got /\ aged' = aged /\ cache' = cache
      BY <2>5 DEF PutError
    <3>3. Heard'
      BY <2>0, <2>a, <3>1, <3>2 DEF Heard
    <3>4. FreshAnswers'
      BY <3>2 DEF FreshAnswers
    <3> QED BY <3>3, <3>4
  <2> QED BY <1>2, <2>1, <2>2, <2>3, <2>4, <2>5 DEF Goroutine
<1>3. ASSUME NEW c \in Client, Return(c) PROVE Heard' /\ FreshAnswers'
  <2>1. /\ \A s \in Source : gor[c][s] # "put" /\ gor'[c][s] # "put"
        /\ \A d \in Client \ {c} : gor'[d] = gor[d]
        /\ UNCHANGED <<upstream, cache, heard, lag, got, aged>>
    BY <1>3 DEF Return, histVars, TypeOK, Shapes
  <2> QED BY <2>1 DEF Heard, FreshAnswers
<1>4. ASSUME EvictExpired PROVE Heard' /\ FreshAnswers'
  <2>1. /\ \A s \in Source : cache'[s] \in {cache[s], NoRow}
        /\ UNCHANGED <<upstream, heard, lag, got, gor, aged>>
    BY <1>4 DEF EvictExpired, searchVars, histVars
  <2> QED BY <2>1 DEF Heard, FreshAnswers
<1>5. ASSUME NEW s \in Source, NEW a \in Answer, Edit(s, a) PROVE Heard' /\ FreshAnswers'
  <2>1. UNCHANGED <<cache, gor, got, lag, aged>>
    BY <1>5 DEF Edit, searchVars
  <2>2. upstream'[s] = a /\ \A t \in Source \ {s} : upstream'[t] = upstream[t]
    BY <1>5 DEF Edit, TypeOK, Shapes
  <2>3. /\ heard'[s][a] = 0
        /\ \A t \in Source, b \in Answer : t # s \/ b # a => heard'[t][b] = heard[t][b]
    BY <1>5 DEF Edit, TypeOK, Shapes
  <2>4. \A t \in Source, b \in Answer : heard'[t][b] \in Int /\ heard'[t][b] <= heard[t][b]
    BY <1>b, <2>3
  <2>5. ASSUME NEW t \in Source, NEW d \in Client
        PROVE  IF gor[d][t] = "put" THEN heard'[t][got[d][t]] <= lag[d][t] ELSE lag[d][t] = 0
    <3>1. IF gor[d][t] = "put" THEN heard[t][got[d][t]] <= lag[d][t] ELSE lag[d][t] = 0
      BY DEF Heard
    <3> QED BY <1>a, <1>b, <1>c, <2>4, <3>1
  <2>6. ASSUME NEW t \in Source, cache[t] # NoRow
        PROVE  heard'[t][cache[t].answer] <= cache[t].age + MaxLag
    <3>1. heard[t][cache[t].answer] <= cache[t].age + MaxLag
      BY <2>6 DEF Heard
    <3> QED BY <1>0, <1>a, <1>b, <2>4, <2>6, <3>1
  <2>7. \A t \in Source : heard'[t][upstream'[t]] = 0
    BY <1>d, <2>2, <2>3 DEF Heard
  <2> QED BY <2>1, <2>5, <2>6, <2>7 DEF Heard, FreshAnswers
<1>6. ASSUME Tick PROVE Heard' /\ FreshAnswers'
  <2>1. UNCHANGED <<upstream, gor, got, aged>>
    BY <1>6 DEF Tick, searchVars
  <2>2. \A t \in Source, b \in Answer :
            /\ heard'[t][b] \in Int /\ heard'[t][b] <= heard[t][b] + 1
            /\ heard'[t][b] <= MaxHeard
            /\ b = upstream[t] => heard'[t][b] = 0
    BY <1>0, <1>6, <1>b DEF Tick
  <2>3. \A d \in Client, t \in Source :
            lag'[d][t] = IF gor[d][t] = "put" THEN lag[d][t] + 1 ELSE lag[d][t]
    BY <1>6 DEF Tick
  <2>4. \A t \in Source : /\ cache[t] = NoRow <=> cache'[t] = NoRow
                          /\ cache[t] # NoRow =>
                                 /\ cache'[t].answer = cache[t].answer
                                 /\ cache'[t].age = IF cache[t].age > TTL + MaxSkew
                                                    THEN cache[t].age ELSE cache[t].age + 1
    <3>1. \A row \in Row :
              /\ row # NoRow /\ Older(row) # NoRow /\ Older(row).answer = row.answer
              /\ Older(row).age = IF row.age > TTL + MaxSkew THEN row.age ELSE row.age + 1
      BY <1>0, TTLAssumption, NoneAssumption DEF Older, Row
    <3>2. \A t \in Source : cache[t] \in Row \cup {NoRow} /\ cache'[t] = Older(cache[t])
      BY <1>6 DEF Tick, TypeOK, Shapes
    <3>3. Older(NoRow) = NoRow
      BY DEF Older
    <3> QED BY <3>1, <3>2, <3>3
  <2>5. ASSUME NEW t \in Source, NEW d \in Client
        PROVE  IF gor[d][t] = "put" THEN heard'[t][got[d][t]] <= lag'[d][t] ELSE lag'[d][t] = 0
    <3>1. IF gor[d][t] = "put" THEN heard[t][got[d][t]] <= lag[d][t] ELSE lag[d][t] = 0
      BY DEF Heard
    <3> QED BY <1>a, <1>b, <1>c, <2>2, <2>3, <3>1
  <2>6. ASSUME NEW t \in Source, cache[t] # NoRow
        PROVE  heard'[t][cache[t].answer] <= cache'[t].age + MaxLag
    <3>1. heard[t][cache[t].answer] <= cache[t].age + MaxLag
      BY <2>6 DEF Heard
    <3> QED BY <1>0, <1>a, <1>b, <2>2, <2>4, <2>6, <3>1
  <2>7. \A t \in Source : heard'[t][upstream[t]] = 0
    BY <1>d, <2>2
  <2>8. Heard'
    BY <2>1, <2>4, <2>5, <2>6, <2>7 DEF Heard
  <2> QED BY <2>1, <2>8 DEF FreshAnswers
<1>7. CASE UNCHANGED vars
  BY <1>7 DEF vars, searchVars, histVars, Heard, FreshAnswers
<1> QED BY <1>1, <1>2, <1>3, <1>4, <1>5, <1>6, <1>7 DEF Next

(* No order in which searches fetch, overwrite each other's rows and read    *)
(* them back hands out an answer older than its TTL, a fetch's lag and the   *)
(* clocks' difference: for any number of searches, sources and any TTLs.     *)
THEOREM AnswersStayFresh == Spec => []FreshAnswers
<1>1. Init => TypeOK /\ Heard /\ FreshAnswers
  BY TypeInit, HeardInit
<1>2. TypeOK /\ Heard /\ FreshAnswers /\ [Next]_vars => (TypeOK /\ Heard /\ FreshAnswers)'
  BY TypeStep, HeardStep
<1> QED BY <1>1, <1>2, PTL DEF Spec

-----------------------------------------------------------------------------
(* Evictions *)

(* By the clock of the database. *)
Unexpired(row) == row # NoRow /\ row.age <= TtlOf(row)

(* A row does not come back to life. *)
LEMMA OlderUnexpired ==
    ASSUME NEW row \in Row \cup {NoRow}, Unexpired(Older(row))
    PROVE  Unexpired(row)
<1>1. row \in Row /\ row # NoRow /\ Older(row) # NoRow
  BY NoneAssumption DEF Unexpired, Older
<1>2. /\ Older(row).answer = row.answer /\ row.age \in Int /\ Older(row).age \in Int
      /\ row.age <= Older(row).age
  BY <1>1, TTLAssumption, BoundAssumption DEF Older, Row
<1>3. Older(row).age <= TtlOf(row)
  BY <1>2 DEF Unexpired, TtlOf
<1>4. TtlOf(row) \in Int
  BY TTLAssumption DEF TtlOf
<1> QED BY <1>1, <1>2, <1>3, <1>4 DEF Unexpired

(* Every step leaves the row stored last in the cache until it expires.      *)
LEMMA KeptStep == TypeOK /\ KeptInCache /\ [Next]_vars => KeptInCache'
<1> SUFFICES ASSUME TypeOK, KeptInCache, [Next]_vars PROVE KeptInCache'
  OBVIOUS
<1>0. ASSUME UNCHANGED <<cache, kept>> PROVE KeptInCache'
  BY <1>0 DEF KeptInCache, TtlOf
<1>1. ASSUME NEW c \in Client, NEW enabled \in EnabledFor[c], Search(c, enabled)
      PROVE  KeptInCache'
  BY <1>0, <1>1 DEF Search
<1>2. ASSUME NEW c \in Client, NEW s \in Source, Goroutine(c, s) PROVE KeptInCache'
  <2>1. CASE Put(c, s)
    <3>1. /\ cache'[s] = kept'[s]
          /\ \A t \in Source \ {s} : cache'[t] = cache[t] /\ kept'[t] = kept[t]
      BY <2>1 DEF Put, TypeOK, Shapes
    <3> QED BY <3>1 DEF KeptInCache, TtlOf
  <2>2. CASE ~Put(c, s)
    <3>1. UNCHANGED <<cache, kept>>
      BY <1>2, <2>2 DEF Goroutine, CacheHit, CacheMiss, CacheError, Fetch, SourceFails, PutError,
                        AppendMatches, histVars
    <3> QED BY <1>0, <3>1
  <2> QED BY <2>1, <2>2
<1>3. ASSUME NEW c \in Client, Return(c) PROVE KeptInCache'
  BY <1>0, <1>3 DEF Return, histVars
<1>4. ASSUME EvictExpired PROVE KeptInCache'
  <2>1. \A s \in Source : Unexpired(cache[s]) => cache'[s] = cache[s]
    <3> SUFFICES ASSUME NEW s \in Source, Unexpired(cache[s]) PROVE cache'[s] = cache[s]
      OBVIOUS
    <3>1. ~(/\ cache[s] # NoRow
            /\ \/ cache[s].answer # <<>> /\ cache[s].age > TTL
               \/ cache[s].answer = <<>> /\ cache[s].age > NotFoundTTL)
      BY Ages DEF Unexpired, TtlOf
    <3> QED BY <1>4, <3>1 DEF EvictExpired
  <2>2. kept' = kept
    BY <1>4 DEF EvictExpired, histVars
  <2> QED BY <2>1, <2>2 DEF KeptInCache, Unexpired, TtlOf
<1>5. ASSUME NEW s \in Source, NEW a \in Answer, Edit(s, a) PROVE KeptInCache'
  BY <1>0, <1>5 DEF Edit
<1>6. ASSUME Tick PROVE KeptInCache'
  <2>1. \A s \in Source : /\ cache'[s] = Older(cache[s]) /\ kept'[s] = Older(kept[s])
                          /\ kept[s] \in Row \cup {NoRow}
    BY <1>6 DEF Tick, TypeOK, Shapes
  <2> SUFFICES ASSUME NEW s \in Source, Unexpired(kept'[s]) PROVE cache'[s] = kept'[s]
    BY DEF KeptInCache, Unexpired, TtlOf
  <2>2. Unexpired(kept[s])
    BY <2>1, OlderUnexpired
  <2> QED BY <2>1, <2>2 DEF KeptInCache, Unexpired
<1>7. CASE UNCHANGED vars
  BY <1>0, <1>7 DEF vars, histVars
<1> QED BY <1>1, <1>2, <1>3, <1>4, <1>5, <1>6, <1>7 DEF Next

(* A step to the fetch without a failed read is a miss: of the row stored    *)
(* last, near the end of its TTL, or of one that was evicted past it.        *)
LEMMA SparedStep ==
    ASSUME TypeOK, KeptInCache, Next, NEW c \in Client, NEW s \in Source,
           gor[c][s] = "get", gor'[c][s] = "wait", faults' = faults
    PROVE  MayMiss(kept[s])
<1>0. gor' # gor
  OBVIOUS
<1>1. ASSUME NEW d \in Client, NEW enabled \in EnabledFor[d], Search(d, enabled)
      PROVE  FALSE
  <2>1. gor' = [gor EXCEPT ![d] = [t \in Source |-> IF t \in enabled THEN "get" ELSE "over"]]
    BY <1>1 DEF Search
  <2>2. gor \in [Client -> [Source -> Running \cup {"off", "over"}]]
    BY DEF TypeOK, Shapes
  <2>3. gor'[c][s] \in {gor[c][s], "get", "over"}
    BY <2>1, <2>2
  <2> QED BY <2>3
<1>2. ASSUME NEW d \in Client, NEW t \in Source, Goroutine(d, t) PROVE MayMiss(kept[s])
  <2>1. d = c /\ t = s
    <3>1. d # c \/ t # s => gor'[c][s] = gor[c][s]
      BY <1>2, GoroutineLocal
    <3> QED BY <3>1
  <2>2. CASE CacheMiss(c, s)
    <3>1. CASE Unexpired(kept[s])
      BY <2>2, <3>1 DEF CacheMiss, KeptInCache, Unexpired
    <3>2. CASE kept[s] # NoRow /\ ~Unexpired(kept[s])
      <4>1. /\ kept[s].age \in Int /\ TtlOf(kept[s]) \in Int
            /\ MaxSkew \in Int /\ 0 <= MaxSkew
        BY <3>2, Ages DEF TtlOf
      <4> QED BY <3>2, <4>1 DEF Unexpired, MayMiss
    <3> QED BY <3>1, <3>2 DEF MayMiss
  <2>3. CASE CacheHit(c, s)
    BY <2>3, GoroutineOwn
  <2>4. CASE CacheError(c, s)
    BY <2>4 DEF CacheError, TypeOK, Shapes
  <2>5. CASE Fetch(c, s) \/ SourceFails(c, s) \/ Put(c, s) \/ PutError(c, s) \/ AppendMatches(c, s)
    BY <2>5 DEF Fetch, SourceFails, Put, PutError, AppendMatches
  <2> QED BY <1>2, <2>1, <2>2, <2>3, <2>4, <2>5 DEF Goroutine
<1>3. ASSUME NEW d \in Client, Return(d) PROVE FALSE
  <2>1. gor' = [gor EXCEPT ![d] = [t \in Source |-> "off"]]
    BY <1>3 DEF Return
  <2>2. gor \in [Client -> [Source -> Running \cup {"off", "over"}]]
    BY DEF TypeOK, Shapes
  <2> QED BY <2>1, <2>2
<1>4. ~EvictExpired /\ ~Tick /\ \A t \in Source, a \in Answer : ~Edit(t, a)
  BY <1>0 DEF EvictExpired, Tick, Edit, searchVars
<1> QED BY <1>1, <1>2, <1>3, <1>4 DEF Next

(* A source is asked only when the row stored last is at the end of its TTL  *)
(* by the clock of the process or could not be read: no eviction, and no     *)
(* overwriting, costs an extra request, however far the clocks are apart.    *)
THEOREM SparesUpstream == Spec => UpstreamSpared
<1>1. Init => TypeOK /\ KeptInCache
  <2>1. Init => KeptInCache
    BY DEF Init, KeptInCache
  <2> QED BY <2>1, TypeInit
<1>2. TypeOK /\ KeptInCache /\ [Next]_vars => (TypeOK /\ KeptInCache)'
  BY TypeStep, KeptStep
<1>3. TypeOK /\ KeptInCache /\ [Next]_vars =>
          [\A c \in Client, s \in Source :
              gor[c][s] = "get" /\ gor'[c][s] = "wait" /\ faults' = faults =>
                  MayMiss(kept[s])]_vars
  BY SparedStep
<1> QED BY <1>1, <1>2, <1>3, PTL DEF Spec, UpstreamSpared

-----------------------------------------------------------------------------
(* Results *)

(* OutIsMerged and TopResults, of one search. *)
OutOf(c) ==
    /\ \A s \in Source : gor[c][s] = "off" => Idle(c)
    /\ {out[c][i] : i \in DOMAIN out[c]} = Merged(c)
    /\ \A i, j \in DOMAIN out[c] : out[c][i] = out[c][j] => i = j
TopOf(c) == Idle(c) => IsTop(results[c], Found(c))

(* A search that does not step keeps them. *)
LEMMA OutOther ==
    ASSUME NEW d \in Client, OutOf(d), TopOf(d),
           out'[d] = out[d], results'[d] = results[d],
           \A t \in Source : gor'[d][t] = gor[d][t] /\ got'[d][t] = got[d][t]
    PROVE  OutOf(d)' /\ TopOf(d)'
<1>1. Idle(d)' <=> Idle(d)
  BY DEF Idle
<1>2. Over(d)' = Over(d)
  BY DEF Over
<1>3. Merged(d)' = Merged(d)
  BY <1>2 DEF Merged, Over
<1>4. Found(d)' = Found(d)
  BY DEF Found
<1> QED BY <1>1, <1>3, <1>4 DEF OutOf, TopOf

(* So does a goroutine that appends nothing. *)
LEMMA OutQuiet ==
    ASSUME NEW c \in Client, NEW s \in Source, OutOf(c), out'[c] = out[c],
           gor[c][s] \in Running, gor'[c][s] # "off",
           gor'[c][s] = "over" => got'[c][s] = <<>>,
           \A t \in Source \ {s} : gor'[c][t] = gor[c][t] /\ got'[c][t] = got[c][t]
    PROVE  OutOf(c)' /\ TopOf(c)'
<1>1. gor[c][s] # "off" /\ gor[c][s] # "over"
  BY DEF Running
<1>2. \A t \in Source : gor'[c][t] # "off"
  BY <1>1 DEF OutOf, Idle
<1>3. Merged(c)' = Merged(c)
  <2>1. \A t \in Over(c) : t \in Over(c)' /\ got'[c][t] = got[c][t]
    BY <1>1 DEF Over
  <2>2. \A t \in Over(c)' : \/ t \in Over(c) /\ got'[c][t] = got[c][t]
                            \/ got'[c][t] = <<>>
    BY DEF Over
  <2>3. DOMAIN <<>> = {}
    OBVIOUS
  <2>4. Merged(c) \subseteq Merged(c)'
    BY <2>1 DEF Merged
  <2>5. Merged(c)' \subseteq Merged(c)
    BY <2>2, <2>3 DEF Merged
  <2> QED BY <2>4, <2>5
<1>4. ~Idle(c)'
  BY <1>2 DEF Idle
<1> QED BY <1>2, <1>3, <1>4 DEF OutOf, TopOf

(* So does a goroutine that appends: its matches are its source's, those in  *)
(* out are of other sources.                                                 *)
LEMMA OutAppend ==
    ASSUME TypeOK, NEW c \in Client, NEW s \in Source, OutOf(c), AppendMatches(c, s)
    PROVE  OutOf(c)' /\ TopOf(c)'
<1> DEFINE o == out[c]
           g == got[c][s]
<1>1. /\ gor[c][s] = "append" /\ gor'[c][s] = "over" /\ got' = got
      /\ \A t \in Source \ {s} : gor'[c][t] = gor[c][t]
  <2>1. gor[c][s] = "append" /\ got' = got
    BY DEF AppendMatches
  <2>2. Goroutine(c, s)
    BY DEF Goroutine
  <2> QED BY <2>1, <2>2, GoroutineOwn, GoroutineLocal
<1>2. out'[c] = o \o g
  BY DEF AppendMatches, TypeOK, Shapes
<1>3. g \in Answers[s]
  BY <1>1 DEF TypeOK, Linked
<1>4. o \in Seq(Candidate) /\ g \in Seq(Candidate)
  BY <1>3, AnswersSubset, AnswerSeq DEF TypeOK, Shapes
<1>5. \A i, j \in DOMAIN g : Info[g[i]].source = s /\ (g[i] = g[j] => i = j)
  BY <1>3, AnswersAssumption
<1>6. \A t \in Over(c) : t # s /\ t \in Source /\ \A i \in DOMAIN got[c][t] : Info[got[c][t][i]].source = t
  <2> SUFFICES ASSUME NEW t \in Over(c), NEW i \in DOMAIN got[c][t]
               PROVE  Info[got[c][t][i]].source = t
    BY <1>1 DEF Over
  <2>1. got[c][t] # <<>>
    OBVIOUS
  <2>2. got[c][t] \in Answers[t]
    BY <2>1 DEF TypeOK, Linked, Over
  <2> QED BY <2>2, AnswersAssumption DEF Over
<1>7. \A i \in DOMAIN o : Info[o[i]].source # s
  <2> SUFFICES ASSUME NEW i \in DOMAIN o PROVE Info[o[i]].source # s
    OBVIOUS
  <2>1. o[i] \in Merged(c)
    BY DEF OutOf
  <2>2. PICK t \in Over(c) : \E j \in DOMAIN got[c][t] : o[i] = got[c][t][j]
    BY <2>1 DEF Merged
  <2> QED BY <1>6, <2>2
<1> HIDE DEF o, g
<1> DEFINE og == o \o g
<1>8. /\ DOMAIN o = 1..Len(o) /\ DOMAIN g = 1..Len(g) /\ Len(o) \in Nat /\ Len(g) \in Nat
      /\ DOMAIN og = 1..(Len(o) + Len(g))
      /\ \A i \in DOMAIN og : og[i] = IF i <= Len(o) THEN o[i] ELSE g[i - Len(o)]
  BY <1>4
<1> HIDE DEF og
<1>9. \A i \in DOMAIN og : \/ i \in DOMAIN o /\ og[i] = o[i]
                           \/ /\ i - Len(o) \in DOMAIN g /\ og[i] = g[i - Len(o)]
                              /\ i \in Int
  BY <1>8
<1>10. \A i, j \in DOMAIN og : og[i] = og[j] => i = j
  <2> SUFFICES ASSUME NEW i \in DOMAIN og, NEW j \in DOMAIN og, og[i] = og[j]
               PROVE  i = j
    OBVIOUS
  <2>1. CASE i \in DOMAIN o /\ og[i] = o[i] /\ j \in DOMAIN o /\ og[j] = o[j]
    BY <2>1 DEF OutOf, o
  <2>2. CASE i \in DOMAIN o /\ og[i] = o[i] /\ j - Len(o) \in DOMAIN g /\ og[j] = g[j - Len(o)]
    BY <1>5, <1>7, <2>2
  <2>3. CASE j \in DOMAIN o /\ og[j] = o[j] /\ i - Len(o) \in DOMAIN g /\ og[i] = g[i - Len(o)]
    BY <1>5, <1>7, <2>3
  <2>4. CASE /\ i - Len(o) \in DOMAIN g /\ og[i] = g[i - Len(o)] /\ i \in Int
             /\ j - Len(o) \in DOMAIN g /\ og[j] = g[j - Len(o)] /\ j \in Int
    <3>1. i - Len(o) = j - Len(o)
      BY <1>5, <2>4
    <3> QED BY <1>8, <2>4, <3>1
  <2> QED BY <1>9, <2>1, <2>2, <2>3, <2>4
<1>11. {og[i] : i \in DOMAIN og} = {o[i] : i \in DOMAIN o} \cup {g[i] : i \in DOMAIN g}
  <2>1. {og[i] : i \in DOMAIN og} \subseteq {o[i] : i \in DOMAIN o} \cup {g[i] : i \in DOMAIN g}
    BY <1>9
  <2>2. \A i \in DOMAIN o : i \in DOMAIN og /\ og[i] = o[i]
    BY <1>8
  <2>3. \A i \in DOMAIN g : i + Len(o) \in DOMAIN og /\ og[i + Len(o)] = g[i]
    BY <1>8
  <2> QED BY <2>1, <2>2, <2>3
<1>12. Merged(c)' = Merged(c) \cup {g[i] : i \in DOMAIN g}
  <2>1. Over(c)' = Over(c) \cup {s}
    BY <1>1 DEF Over
  <2> QED BY <1>1, <2>1 DEF Merged, g
<1>13. {og[i] : i \in DOMAIN og} = Merged(c)'
  BY <1>11, <1>12 DEF OutOf, o
<1>14. \A t \in Source : gor'[c][t] # "off"
  BY <1>1 DEF OutOf, Idle
<1>15. ~Idle(c)'
  BY <1>14 DEF Idle
<1>16. out'[c] = og
  BY <1>2 DEF og
<1> QED BY <1>10, <1>13, <1>14, <1>15, <1>16 DEF OutOf, TopOf

(* Nothing is out, and nothing was found, at the start. *)
LEMMA OutInit == Init => \A c \in Client : OutOf(c) /\ TopOf(c)
<1> SUFFICES ASSUME Init, NEW c \in Client PROVE OutOf(c) /\ TopOf(c)
  OBVIOUS
<1>1. /\ \A s \in Source : gor[c][s] = "off" /\ got[c][s] = <<>>
      /\ out[c] = <<>> /\ results[c] = <<>>
  BY DEF Init, Each
<1>2. Over(c) = {}
  BY <1>1 DEF Over
<1>3. Merged(c) = {} /\ Found(c) = {}
  BY <1>1, <1>2 DEF Merged, Found
<1>4. OutOf(c)
  BY <1>1, <1>3 DEF OutOf, Idle
<1>5. IsTop(<<>>, {})
  <2>1. Cardinality({}) = 0 /\ {<<>>[i] : i \in DOMAIN <<>>} = {}
    BY FS_EmptySet
  <2> QED BY <2>1, BoundAssumption DEF IsTop
<1> QED BY <1>1, <1>3, <1>4, <1>5 DEF TopOf

(* When the last goroutine is over, out is everything found, and its sort    *)
(* and cut are the best of it.                                               *)
LEMMA OutReturn ==
    ASSUME TypeOK, NEW c \in Client, OutOf(c), Return(c)
    PROVE  OutOf(c)' /\ TopOf(c)'
<1>1. /\ results'[c] = Cut(SortStable(out[c])) /\ out'[c] = <<>> /\ got' = got
      /\ \A s \in Source : gor[c][s] = "over" /\ gor'[c][s] = "off"
  BY DEF Return, TypeOK, Shapes
<1>2. Over(c) = Source /\ Over(c)' = {}
  BY <1>1 DEF Over
<1>3. Merged(c) = Found(c) /\ Merged(c)' = {} /\ Found(c)' = Found(c)
  BY <1>1, <1>2 DEF Merged, Found
<1>4. OutOf(c)'
  BY <1>1, <1>3 DEF OutOf, Idle
<1>5. out[c] \in Seq(Candidate)
  BY DEF TypeOK, Shapes
<1>6. IsTop(Cut(SortStable(out[c])), {out[c][i] : i \in DOMAIN out[c]})
  BY <1>5, CutIsTop DEF OutOf
<1>7. IsTop(Cut(SortStable(out[c])), Found(c))
  BY <1>3, <1>6 DEF OutOf
<1>8. IsTop(results[c], Found(c))'
  BY <1>1, <1>3, <1>7 DEF IsTop
<1> QED BY <1>4, <1>8 DEF TopOf

(* Every step keeps OutIsMerged and TopResults. *)
LEMMA OutStep ==
    ASSUME TypeOK, \A c \in Client : OutOf(c) /\ TopOf(c), [Next]_vars
    PROVE  \A c \in Client : OutOf(c)' /\ TopOf(c)'
<1> SUFFICES ASSUME NEW d \in Client PROVE OutOf(d)' /\ TopOf(d)'
  OBVIOUS
<1>0. ASSUME UNCHANGED <<gor, got, out, results>> PROVE OutOf(d)' /\ TopOf(d)'
  BY <1>0, OutOther
<1>1. ASSUME NEW c \in Client, NEW enabled \in EnabledFor[c], Search(c, enabled)
      PROVE  OutOf(d)' /\ TopOf(d)'
  <2>1. /\ \A s \in Source : /\ gor[c][s] = "off" /\ got'[c][s] = <<>>
                             /\ gor'[c][s] \in {"get", "over"}
        /\ out' = out
        /\ d # c => results'[d] = results[d] /\ gor'[d] = gor[d] /\ got'[d] = got[d]
    BY <1>1 DEF Search, Idle, TypeOK, Shapes
  <2>2. CASE d # c
    BY <2>1, <2>2, OutOther
  <2>3. CASE d = c
    <3>1. Over(c) = {}
      BY <2>1 DEF Over
    <3>2. Merged(c) = {} /\ Merged(c)' = {}
      BY <2>1, <3>1 DEF Merged, Over
    <3>3. ~Idle(c)' /\ \A s \in Source : gor'[c][s] # "off"
      BY <2>1, IdAssumption DEF Idle
    <3> QED BY <2>1, <2>3, <3>2, <3>3 DEF OutOf, TopOf
  <2> QED BY <2>2, <2>3
<1>2. ASSUME NEW c \in Client, NEW s \in Source, Goroutine(c, s)
      PROVE  OutOf(d)' /\ TopOf(d)'
  <2>1. \A e \in Client, t \in Source : e # c \/ t # s =>
            gor'[e][t] = gor[e][t] /\ got'[e][t] = got[e][t]
    BY <1>2, GoroutineLocal
  <2>2. results' = results /\ (d # c \/ ~AppendMatches(c, s) => out'[d] = out[d])
    BY <1>2 DEF Goroutine, CacheHit, CacheMiss, CacheError, Fetch, SourceFails, Put, PutError,
                AppendMatches, TypeOK, Shapes
  <2>3. CASE d # c
    BY <2>1, <2>2, <2>3, OutOther
  <2>4. CASE d = c /\ AppendMatches(c, s)
    BY <2>4, OutAppend
  <2>5. CASE d = c /\ ~AppendMatches(c, s)
    <3>1. gor[c][s] \in Running
      BY <1>2 DEF Goroutine, CacheHit, CacheMiss, CacheError, Fetch, SourceFails, Put, PutError,
                  AppendMatches, Running
    <3>2. gor'[c][s] # "off" /\ (gor'[c][s] = "over" => got'[c][s] = <<>>)
      <4>1. CASE CacheHit(c, s)
        BY <4>1, GoroutineOwn
      <4>2. CASE CacheMiss(c, s) \/ CacheError(c, s) \/ Fetch(c, s)
        BY <4>2, GoroutineOwn
      <4>3. CASE SourceFails(c, s)
        <5>1. got[c][s] = <<>> /\ got' = got
          BY <4>3 DEF SourceFails, TypeOK, Linked
        <5> QED BY <4>3, <5>1, GoroutineOwn
      <4>4. CASE Put(c, s) \/ PutError(c, s)
        <5>1. got' = got
          BY <4>4 DEF Put, PutError
        <5> QED BY <4>4, <5>1, GoroutineOwn
      <4> QED BY <1>2, <2>5, <4>1, <4>2, <4>3, <4>4 DEF Goroutine
    <3>3. out'[c] = out[c] /\ OutOf(c)
      BY <2>2, <2>5
    <3>4. \A t \in Source \ {s} : gor'[c][t] = gor[c][t] /\ got'[c][t] = got[c][t]
      BY <2>1
    <3> QED BY <2>5, <3>1, <3>2, <3>3, <3>4, OutQuiet
  <2> QED BY <2>3, <2>4, <2>5
<1>3. ASSUME NEW c \in Client, Return(c) PROVE OutOf(d)' /\ TopOf(d)'
  <2>1. CASE d = c
    BY <1>3, <2>1, OutReturn
  <2>2. CASE d # c
    <3>1. /\ gor'[d] = gor[d] /\ got'[d] = got[d] /\ out'[d] = out[d]
          /\ results'[d] = results[d]
      BY <1>3, <2>2 DEF Return, TypeOK, Shapes
    <3> QED BY <3>1, OutOther
  <2> QED BY <2>1, <2>2
<1>4. ASSUME EvictExpired \/ Tick \/ \E s \in Source, a \in Answer : Edit(s, a)
      PROVE  OutOf(d)' /\ TopOf(d)'
  BY <1>0, <1>4 DEF EvictExpired, Tick, Edit, searchVars
<1>5. CASE UNCHANGED vars
  BY <1>0, <1>5 DEF vars, searchVars
<1> QED BY <1>1, <1>2, <1>3, <1>4, <1>5 DEF Next

(* A search returns the best MaxResults of what its sources found, once each *)
(* and best first, whatever the order in which goroutines fetch, fail, store *)
(* and append: for any number of sources, answers and searches.              *)
THEOREM ReturnsTheBest == Spec => []TopResults
<1> DEFINE Inv == TypeOK /\ \A c \in Client : OutOf(c) /\ TopOf(c)
<1>1. Init => Inv
  BY TypeInit, OutInit
<1>2. Inv /\ [Next]_vars => Inv'
  BY TypeStep, OutStep
<1>3. Inv => TopResults
  BY DEF TopResults, TopOf
<1> QED BY <1>1, <1>2, <1>3, PTL DEF Spec

(* An ASIN outweighs any title, if the rest is equal.                        *)
LEMMA AsinOutweighs ==
    ASSUME NEW m \in Candidate, NEW n \in Candidate,
           Info[m].asin, Info[m].fields > 1, ~Info[n].asin,
           <<Info[m].author, Info[m].isbn, Info[m].narrator>> =
               <<Info[n].author, Info[n].isbn, Info[n].narrator>>
    PROVE  CalculateConfidence(m) > CalculateConfidence(n)
<1> DEFINE x == Points(Info[m].author, 15)
           y == Points(Info[m].isbn, 15)
           z == Points(Info[m].narrator, 10)
           sm == TitleScore(Info[m]) + 35 + x + y + z + CompletenessScore(Info[m])
           sn == TitleScore(Info[n]) + 0 + x + y + z + CompletenessScore(Info[n])
<1>1. /\ TitleScore(Info[m]) \in 0..30 /\ CompletenessScore(Info[m]) \in 0..5
      /\ TitleScore(Info[n]) \in 0..30 /\ CompletenessScore(Info[n]) \in 0..5
  BY ScoreRange
<1>2. CompletenessScore(Info[m]) >= 1
  <2>1. Info[m].fields \in 0..9
    BY InfoAssumption
  <2> QED BY <2>1 DEF CompletenessScore
<1>3. /\ Points(Info[m].author, 15) = Points(Info[n].author, 15)
      /\ Points(Info[m].isbn, 15) = Points(Info[n].isbn, 15)
      /\ Points(Info[m].narrator, 10) = Points(Info[n].narrator, 10)
  OBVIOUS
<1>4. /\ Points(Info[m].asin, 35) = 35 /\ Points(Info[n].asin, 35) = 0
      /\ Points(Info[m].author, 15) \in 0..15 /\ Points(Info[m].isbn, 15) \in 0..15
      /\ Points(Info[m].narrator, 10) \in 0..10
  BY DEF Points
<1>5. /\ CalculateConfidence(m) = IF sm > 100 THEN 100 ELSE sm
      /\ CalculateConfidence(n) = IF sn > 100 THEN 100 ELSE sn
  BY <1>3, <1>4 DEF CalculateConfidence
<1>6. sm \in Int /\ sn \in Int /\ sn < 100 /\ sn < sm
  <2>1. ASSUME NEW tm \in 0..30, NEW cm \in 1..5, NEW tn \in 0..30, NEW cn \in 0..5,
               NEW px \in 0..15, NEW py \in 0..15, NEW pz \in 0..10
        PROVE  LET um == tm + 35 + px + py + pz + cm
                   un == tn + 0 + px + py + pz + cn
               IN  um \in Int /\ un \in Int /\ un < 100 /\ un < um
    OBVIOUS
  <2>2. x \in 0..15 /\ y \in 0..15 /\ z \in 0..10 /\ CompletenessScore(Info[m]) \in 1..5
    BY <1>1, <1>2, <1>4
  <2> HIDE DEF x, y, z
  <2> QED BY <1>1, <2>1, <2>2
<1> QED BY <1>5, <1>6

(* What a search returns is in descending order. *)
LEMMA CutOrder ==
    ASSUME NEW ms \in Seq(Candidate)
    PROVE  LET res == Cut(SortStable(ms))
           IN  \A i, j \in DOMAIN res :
                   i < j => CalculateConfidence(res[i]) >= CalculateConfidence(res[j])
<1> DEFINE sorted == SortStable(ms)
           res == Cut(sorted)
<1>1. /\ sorted \in Seq(Candidate)
      /\ \A p, q \in DOMAIN sorted : p < q =>
             CalculateConfidence(sorted[p]) >= CalculateConfidence(sorted[q])
  BY SortPermutes
<1> HIDE DEF sorted
<1>2. \A i \in DOMAIN res : i \in DOMAIN sorted /\ res[i] = sorted[i]
  <2>1. CASE Len(sorted) > MaxResults
    BY <1>1, <2>1, BoundAssumption DEF Cut
  <2>2. CASE ~(Len(sorted) > MaxResults)
    BY <2>2 DEF Cut
  <2> QED BY <2>1, <2>2
<1> QED BY <1>1, <1>2 DEF sorted

(* A match by ASIN with anything else to it comes before every match by      *)
(* title, for any sources, answers and searches.                             *)
THEOREM AsinComesFirst == Spec => []AsinFirst
<1>1. Init => AsinFirst
  BY DEF Init, AsinFirst
<1>2. TypeOK /\ AsinFirst /\ [Next]_vars => AsinFirst'
  <2> SUFFICES ASSUME TypeOK, AsinFirst, [Next]_vars, NEW d \in Client,
                      NEW i \in DOMAIN results'[d], NEW j \in DOMAIN results'[d],
                      Info[results'[d][i]].asin, Info[results'[d][i]].fields > 1,
                      ~Info[results'[d][j]].asin,
                      LET a == Info[results'[d][i]]  b == Info[results'[d][j]]
                      IN  <<a.author, a.isbn, a.narrator>> = <<b.author, b.isbn, b.narrator>>
               PROVE  i < j
    BY DEF AsinFirst
  <2>1. CASE results'[d] = results[d]
    BY <2>1 DEF AsinFirst
  <2>2. CASE results'[d] = <<>>
    BY <2>2
  <2>3. CASE results'[d] = Cut(SortStable(out[d]))
    <3>1. out[d] \in Seq(Candidate)
      BY DEF TypeOK, Shapes
    <3>2. results'[d] \in Seq(Candidate)
      BY <2>3, <3>1, CutType
    <3>3. i \in Int /\ j \in Int /\ results'[d][i] \in Candidate /\ results'[d][j] \in Candidate
      BY <3>2
    <3>4. CalculateConfidence(results'[d][i]) > CalculateConfidence(results'[d][j])
      BY <3>3, AsinOutweighs
    <3>5. j < i => CalculateConfidence(results'[d][j]) >= CalculateConfidence(results'[d][i])
      BY <2>3, <3>1, CutOrder
    <3>6. /\ CalculateConfidence(results'[d][i]) \in Int
          /\ CalculateConfidence(results'[d][j]) \in Int
      BY <3>3, ScoreRange
    <3>7. i # j
      BY <3>4, <3>6
    <3> QED BY <3>3, <3>4, <3>5, <3>6, <3>7
  <2>4. results'[d] \in {results[d], <<>>, Cut(SortStable(out[d]))}
    <3>1. ASSUME NEW c \in Client, NEW enabled \in EnabledFor[c], Search(c, enabled)
          PROVE  results'[d] \in {results[d], <<>>}
      BY <3>1 DEF Search, TypeOK, Shapes
    <3>2. ASSUME NEW c \in Client, Return(c)
          PROVE  results'[d] \in {results[d], Cut(SortStable(out[d]))}
      BY <3>2 DEF Return, TypeOK, Shapes
    <3>3. ASSUME NEW c \in Client, NEW s \in Source, Goroutine(c, s) PROVE results' = results
      BY <3>3 DEF Goroutine, CacheHit, CacheMiss, CacheError, Fetch, SourceFails, Put,
                  PutError, AppendMatches
    <3>4. ASSUME EvictExpired \/ Tick \/ \E s \in Source, a \in Answer : Edit(s, a)
          PROVE  results' = results
      BY <3>4 DEF EvictExpired, Tick, Edit, searchVars
    <3>5. CASE UNCHANGED vars
      BY <3>5 DEF vars, searchVars
    <3> QED BY <3>1, <3>2, <3>3, <3>4, <3>5 DEF Next
  <2> QED BY <2>1, <2>2, <2>3, <2>4
<1> QED BY <1>1, <1>2, TypeInit, TypeStep, PTL DEF Spec

-----------------------------------------------------------------------------
(* Ids *)

(* The first colon of an id is the one after the source, which has none.     *)
LEMMA IdRoundTrip ==
    ASSUME NEW s \in Source, NEW n \in Seq(Symbol),
           BadId # [source |-> <<s>>, native |-> n]
    PROVE  ParseAndLookup(FormatExternalID(s, n)) =
               IF n = <<>> THEN BadId ELSE [source |-> <<s>>, native |-> n]
<1> DEFINE id == FormatExternalID(s, n)
           colons == {i \in DOMAIN id : id[i] = ":"}
           first == CHOOSE i \in colons : \A j \in colons : i <= j
<1>1. /\ DOMAIN id = 1..(Len(n) + 2) /\ Len(id) = Len(n) + 2 /\ Len(n) \in Nat
      /\ id[1] = s /\ id[2] = ":"
      /\ \A i \in 1..Len(n) : id[i + 2] = n[i]
  BY DEF FormatExternalID
<1>2. s # ":"
  BY IdAssumption
<1> HIDE DEF id
<1>3. /\ colons # {} /\ 2 \in colons
      /\ \A j \in colons : j \in Int /\ 2 <= j
  BY <1>1, <1>2
<1>4. first = 2
  <2>1. first \in colons /\ \A j \in colons : first <= j
    BY <1>3
  <2> HIDE DEF first
  <2> QED BY <1>3, <2>1
<1>5. ParseExternalID(id) = IF colons = {} \/ first = 1 \/ first = Len(id) THEN BadId
                            ELSE [source |-> SubSeq(id, 1, first - 1),
                                  native |-> SubSeq(id, first + 1, Len(id))]
  BY DEF ParseExternalID
<1> HIDE DEF first, colons
<1>6. ParseExternalID(id) = IF Len(n) = 0 THEN BadId
                            ELSE [source |-> SubSeq(id, 1, 1),
                                  native |-> SubSeq(id, 3, Len(id))]
  BY <1>1, <1>3, <1>4, <1>5
<1>7. Len(n) = 0 <=> n = <<>>
  OBVIOUS
<1>8. CASE n = <<>>
  BY <1>6, <1>7, <1>8 DEF ParseAndLookup, id
<1>9. CASE n # <<>>
  <2>0. id \in Seq(Symbol \cup {":"})
    <3>1. <<s, ":">> \in Seq(Symbol \cup {":"}) /\ n \in Seq(Symbol \cup {":"})
      BY IdAssumption
    <3> QED BY <3>1 DEF FormatExternalID, id
  <2>1. SubSeq(id, 1, 1) = <<s>>
    <3>1. /\ SubSeq(id, 1, 1) \in Seq(Symbol \cup {":"})
          /\ Len(SubSeq(id, 1, 1)) = 1 /\ SubSeq(id, 1, 1)[1] = s
      BY <1>1, <2>0
    <3>2. <<s>> \in Seq(Symbol \cup {":"}) /\ Len(<<s>>) = 1 /\ <<s>>[1] = s
      BY IdAssumption
    <3> HIDE DEF id
    <3>3. ASSUME NEW p \in Seq(Symbol \cup {":"}), NEW q \in Seq(Symbol \cup {":"}),
                 Len(p) = 1, Len(q) = 1, p[1] = q[1]
          PROVE  p = q
      BY <3>3
    <3> QED BY <3>1, <3>2, <3>3
  <2>2. SubSeq(id, 3, Len(id)) = n
    <3>1. Len(SubSeq(id, 3, Len(id))) = Len(n)
      BY <1>1, <2>0
    <3>2. \A i \in 1..Len(n) : SubSeq(id, 3, Len(id))[i] = n[i]
      BY <1>1, <2>0
    <3> QED BY <2>0, <1>1, <3>1, <3>2
  <2>3. ParseExternalID(id) = [source |-> <<s>>, native |-> n]
    BY <1>6, <1>7, <1>9, <2>1, <2>2
  <2> QED BY <1>9, <2>3 DEF ParseAndLookup, id
<1> QED BY <1>8, <1>9

(* The provider id of every result reaches the source that found it with its *)
(* native id, whatever symbols that id holds, or is refused.                 *)
THEOREM IdsAlwaysResolve == Spec => []IdsResolve
<1>1. TypeOK => IdsResolve
  <2> SUFFICES ASSUME TypeOK, NEW c \in Client, NEW i \in DOMAIN results[c]
               PROVE  LET m == Info[results[c][i]]
                      IN  ParseAndLookup(FormatExternalID(m.source, m.native)) =
                              IF m.native = <<>> THEN BadId
                              ELSE [source |-> <<m.source>>, native |-> m.native]
    BY DEF IdsResolve
  <2>1. results[c] \in Seq(Candidate)
    BY DEF TypeOK, Shapes
  <2>2. results[c][i] \in Candidate
    BY <2>1
  <2>3. /\ Info[results[c][i]].source \in Source
        /\ Info[results[c][i]].native \in Seq(Symbol)
    BY <2>2, InfoAssumption
  <2>4. BadId # [source |-> <<Info[results[c][i]].source>>, native |-> Info[results[c][i]].native]
    BY <2>2, NoneAssumption
  <2> QED BY <2>3, <2>4, IdRoundTrip
<1> QED BY <1>1, SearchTypeCorrect, PTL
=============================================================================
