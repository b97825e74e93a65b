-------------------------- MODULE StreamAccessProofs --------------------------
(***************************************************************************)
(* Proofs, for any books, secrets, sizes and times, of the safety          *)
(* properties of StreamAccess.                                             *)
(***************************************************************************)
EXTENDS StreamAccess, TLAPS

Code == {"none", "200", "206", "400", "401", "404", "500", "503"}

(* The request handlers either answer at once or let a verified request in:  *)
(* one for file 0, with a token for this book, signed with the secret of the *)
(* handler it came in by, that has not expired.                              *)
LetIn(r, b, tok) ==
    /\ handler[r] \notin {NoHandler, Empty}
    /\ tok.secret = handler[r] /\ tok.media /\ now < tok.exp
    /\ tok.book = b /\ tok.idx = 0
    /\ at' = "verified" /\ status' = "none"
    /\ req' = [book |-> b, tok |-> tok, arrived |-> now]
    /\ UNCHANGED <<book, fd, sent, client, outAt, goneAt>>

(* handleStream has these two outcomes.                                      *)
LEMMA StreamCases ==
    ASSUME NEW r \in Route, NEW b \in Book, NEW idx \in {-1, 0, 1},
           NEW tok \in Token, HandleStream(r, b, idx, tok)
    PROVE  /\ at = "idle" /\ UNCHANGED world
           /\ (\E code \in Code : Answer(code)) \/ LetIn(r, b, tok)
<1>1. at = "idle" /\ UNCHANGED world
  BY DEF HandleStream
<1>2. CASE handler[r] = NoHandler
  <2>1. Answer("503")
    BY <1>2 DEF HandleStream
  <2> QED
    BY <1>1, <2>1 DEF Code
<1>3. CASE handler[r] # NoHandler /\ idx < 0
  <2>1. Answer("400")
    BY <1>3 DEF HandleStream
  <2> QED
    BY <1>1, <2>1 DEF Code
<1>4. CASE handler[r] # NoHandler /\ idx >= 0 /\ ~VerifyStreamToken(handler[r], tok, b, idx)
  <2>1. Answer("401")
    BY <1>4 DEF HandleStream
  <2> QED
    BY <1>1, <2>1 DEF Code
<1>5. CASE handler[r] # NoHandler /\ idx > 0 /\ VerifyStreamToken(handler[r], tok, b, idx)
  <2>1. Answer("404")
    BY <1>5 DEF HandleStream
  <2> QED
    BY <1>1, <2>1 DEF Code
<1>6. CASE handler[r] # NoHandler /\ idx = 0 /\ VerifyStreamToken(handler[r], tok, b, idx)
  <2>1. /\ at' = "verified" /\ status' = "none"
        /\ req' = [book |-> b, tok |-> tok, arrived |-> now]
        /\ UNCHANGED <<book, fd, sent, client, outAt, goneAt>>
    BY <1>6 DEF HandleStream
  <2> QED
    BY <1>1, <1>6, <2>1 DEF LetIn, VerifyStreamToken
<1> QED
  BY <1>2, <1>3, <1>4, <1>5, <1>6

(* handleCover answers at once.                                              *)
LEMMA CoverCases ==
    ASSUME NEW r \in Route, NEW b \in Book, NEW tok \in Token, HandleCover(r, b, tok)
    PROVE  /\ at = "idle" /\ UNCHANGED world
           /\ \E code \in Code : Answer(code)
<1>1. at = "idle" /\ UNCHANGED world
  BY DEF HandleCover
<1>2. ~VerifyStreamToken(handler[r], tok, b, -1)
  BY DEF VerifyStreamToken
<1>3. Answer("503") \/ Answer("401")
  BY <1>2 DEF HandleCover
<1> QED
  BY <1>1, <1>3 DEF Code

-----------------------------------------------------------------------------

(* What an answer leaves behind is typed.                                    *)
LEMMA AnswerType ==
    ASSUME TypeOK, NEW code \in Code, Answer(code), UNCHANGED world
    PROVE  TypeOK'
<1>1. First \in Content
  BY NumberAssumption DEF First, Content, Sec
<1> QED
  BY <1>1 DEF TypeOK, Answer, world, client, Code

(* Type correctness: a request under way carries a verified token for file   *)
(* 0, a copy has at most the blocks of a file, and a copy that has blocks    *)
(* has a Last-Modified.                                                      *)
THEOREM StreamTypeCorrect == Spec => []TypeOK
<1>1. Init => TypeOK
  <2> SUFFICES ASSUME Init PROVE TypeOK
    OBVIOUS
  <2>1. First \in Content /\ 0 \in Time /\ 0 \in 0..MaxEdits
    BY NumberAssumption DEF First, Content, Sec, Time
  <2>2. have \in Seq(Content) /\ Len(have) <= Blocks
    BY NumberAssumption DEF Init
  <2> QED
    BY <2>1, <2>2 DEF Init, TypeOK
<1>2. TypeOK /\ [Next]_vars => TypeOK'
  <2> SUFFICES ASSUME TypeOK, [Next]_vars PROVE TypeOK'
    OBVIOUS
  <2> USE DEF world, client, request
  <2>1. CASE Tick
    BY <2>1, NumberAssumption DEF Tick, TypeOK, Time
  <2>2. ASSUME NEW H \in Secret \cup {NoHandler}, Configure(H) PROVE TypeOK'
    <3>1. handler' \in [Route -> Secret \cup {Empty, NoHandler}]
      BY <2>2 DEF Configure, TypeOK, Route
    <3>2. outAt' \in Time \cup {Never}
      BY <2>2 DEF Configure, TypeOK
    <3> QED
      BY <2>2, <3>1, <3>2 DEF Configure, TypeOK
  <2>3. ASSUME NEW b \in Book, NEW sec \in Sec, NEW p \in BOOLEAN,
               Write(b, [ver |-> edits + 1, sec |-> sec], p)
        PROVE  TypeOK'
    <3> DEFINE c == [ver |-> edits + 1, sec |-> sec]
    <3>1. edits' \in 0..MaxEdits /\ c \in Content
      BY <2>3, NumberAssumption DEF Write, TypeOK, Content
    <3> HIDE DEF c
    <3>2. file' \in [Book -> [there : BOOLEAN, of : Content]]
      BY <2>3, <3>1 DEF Write, TypeOK, c
    <3>3. fd' \in [of : Content, linked : BOOLEAN]
      <4>1. fd' \in {fd, [fd EXCEPT !.of = c], [fd EXCEPT !.linked = FALSE]}
        BY <2>3 DEF Write, c
      <4> QED
        BY <3>1, <4>1 DEF TypeOK
    <3>4. clean' \in BOOLEAN
      BY <2>3, Zenon DEF Write
    <3>5. UNCHANGED <<now, handler, row, at, req, book, status, sent, mine, have,
                      tag, outAt, goneAt>>
      BY <2>3 DEF Write
    <3> QED
      BY <3>1, <3>2, <3>3, <3>4, <3>5 DEF TypeOK
  <2>4. ASSUME NEW b \in Book, Remove(b) PROVE TypeOK'
    <3>1. edits' \in 0..MaxEdits
      BY <2>4, NumberAssumption DEF Remove, TypeOK
    <3>2. file' \in [Book -> [there : BOOLEAN, of : Content]]
          /\ fd' \in [of : Content, linked : BOOLEAN]
      BY <2>4 DEF Remove, TypeOK
    <3> QED
      BY <2>4, <3>1, <3>2 DEF Remove, TypeOK
  <2>5. ASSUME NEW b \in Book, Ingest(b) PROVE TypeOK'
    BY <2>5 DEF Ingest, UpsertAudiobook, TypeOK
  <2>6. ASSUME NEW b \in Book, Delete(b) PROVE TypeOK'
    BY <2>6 DEF Delete, TypeOK
  <2>7. ASSUME NEW r \in Route, NEW b \in Book, NEW idx \in {-1, 0, 1},
               NEW tok \in Token, HandleStream(r, b, idx, tok)
        PROVE  TypeOK'
    <3>1. CASE \E code \in Code : Answer(code)
      BY <2>7, <3>1, StreamCases, AnswerType
    <3>2. CASE LetIn(r, b, tok)
      <4>1. req' \in [book : Book, tok : Token, arrived : Time]
            /\ req'.tok.media /\ req'.tok.idx = 0
        BY <3>2 DEF LetIn, TypeOK
      <4> QED
        BY <2>7, <3>2, <4>1, StreamCases DEF LetIn, TypeOK
    <3> QED
      BY <2>7, <3>1, <3>2, StreamCases
  <2>8. ASSUME NEW r \in Route, NEW b \in Book, NEW tok \in Token, HandleCover(r, b, tok)
        PROVE  TypeOK'
    BY <2>8, CoverCases, AnswerType
  <2>9. CASE GetAudiobook
    <3>1. CASE Answer("404")
      BY <2>9, <3>1, AnswerType DEF GetAudiobook, Code
    <3>2. CASE ~Answer("404")
      BY <2>9, <3>2 DEF GetAudiobook, TypeOK
    <3> QED
      BY <3>1, <3>2
  <2>10. CASE ServeBookFile
    <3>1. CASE Answer("500")
      BY <2>10, <3>1, AnswerType DEF ServeBookFile, Code
    <3>2. CASE ~Answer("500")
      <4>1. /\ req.book \in Book /\ file[req.book].of \in Content
            /\ book.sec \in Sec /\ book.sec # NoTag
        <5>1. req.book \in Book /\ file[req.book].of \in Content /\ book \in Content
          BY <2>10 DEF ServeBookFile, TypeOK
        <5>2. \A c \in Content : c.sec \in Sec /\ c.sec # NoTag
          BY NumberAssumption DEF Content, Sec, NoTag
        <5> QED
          BY <5>1, <5>2
      <4>2. /\ at' = "sending" /\ fd' = [of |-> file[req.book].of, linked |-> TRUE]
            /\ status' \in {"206", "200"} /\ mine' = req.book /\ tag' = book.sec
            /\ have' = have \/ have' = <<>>
            /\ UNCHANGED <<req, book, sent, outAt, goneAt, world>>
        BY <2>10, <3>2 DEF ServeBookFile
      <4>3. clean' \in BOOLEAN
        BY <2>10, <3>2, Zenon DEF ServeBookFile
      <4>4. have' \in Seq(Content) /\ Len(have') <= Blocks
        <5>1. have \in Seq(Content) /\ Len(have) <= Blocks
          BY DEF TypeOK
        <5>2. <<>> \in Seq(Content) /\ Len(<<>>) <= Blocks
          BY NumberAssumption
        <5> QED
          BY <4>2, <5>1, <5>2
      <4>5. at # "idle"
        BY <2>10 DEF ServeBookFile
      <4> QED
        BY <4>1, <4>2, <4>3, <4>4, <4>5 DEF TypeOK
    <3> QED
      BY <3>1, <3>2
  <2>11. CASE Send
    <3>1. have' \in Seq(Content) /\ Len(have') <= Blocks
      BY <2>11, NumberAssumption DEF Send, MoreToSend, TypeOK
    <3>2. tag # NoTag /\ sent' \in Time
      BY <2>11 DEF Send, TypeOK
    <3> QED
      BY <2>11, <3>1, <3>2 DEF Send, TypeOK
  <2>12. CASE Close
    BY <2>12, AnswerType DEF Close, TypeOK, Code
  <2>13. CASE UNCHANGED vars
    BY <2>13 DEF vars, TypeOK
  <2> QED
    BY <2>1, <2>2, <2>3, <2>4, <2>5, <2>6, <2>7, <2>8, <2>9, <2>10, <2>11,
       <2>12, <2>13 DEF Next
<1> QED
  BY <1>1, <1>2, PTL DEF Spec

-----------------------------------------------------------------------------
(* Revocation *)

(* What Permitted speaks of beyond handler.                                  *)
permissions == <<at, req, sent, handler, outAt, goneAt>>

(* An answer ends the request and with it what was permitted.                *)
LEMMA PermittedAnswer ==
    ASSUME Permitted, NEW code, Answer(code), UNCHANGED handler
    PROVE  Permitted'
BY DEF Permitted, Answer

(* Time passes: what is past stays past.                                     *)
LEMMA PermittedFrame ==
    ASSUME TypeOK, Permitted, UNCHANGED <<permissions, row>>, now' \in Int, now' >= now
    PROVE  Permitted'
<1>1. at # "idle" => req.arrived \in Int /\ req.arrived <= now
  BY DEF TypeOK, Permitted, Time
<1>2. now \in Int
  BY DEF TypeOK, Time
<1> QED
  BY <1>1, <1>2 DEF Permitted, permissions

(* Every step keeps the request within what was permitted when it arrived.   *)
LEMMA PermittedStep ==
    ASSUME TypeOK, Permitted, [Next]_vars
    PROVE  Permitted'
<1> USE DEF world, client, request
<1>0. /\ now \in Int
      /\ at # "idle" => req.book \in Book /\ req.arrived \in Int /\ req.arrived <= now
  BY DEF TypeOK, Time, Permitted
<1>1. CASE Tick
  BY <1>0, <1>1, PermittedFrame DEF Tick, permissions
<1>2. ASSUME NEW H \in Secret \cup {NoHandler}, Configure(H) PROVE Permitted'
  <2>1. /\ handler' = [host |-> Empty, standalone |-> H]
        /\ UNCHANGED <<now, row, at, req, sent, goneAt>>
    BY <1>2 DEF Configure
  <2>2. at # "idle" => req.tok.secret = H \/ outAt' >= req.arrived
    BY <1>0, <1>2 DEF Configure, Permitted
  <2> QED
    BY <2>1, <2>2 DEF Permitted
<1>3. ASSUME NEW b \in Book, NEW sec, NEW p,
             Write(b, [ver |-> edits + 1, sec |-> sec], p) \/ Remove(b)
      PROVE  Permitted'
  BY <1>0, <1>3, PermittedFrame DEF Write, Remove, permissions
<1>4. ASSUME NEW b \in Book, Ingest(b) PROVE Permitted'
  <2>1. \A c \in Book : row[c].live => row'[c].live
    BY <1>4 DEF Ingest, UpsertAudiobook, TypeOK
  <2> QED
    BY <1>0, <1>4, <2>1 DEF Ingest, Permitted
<1>5. ASSUME NEW b \in Book, Delete(b) PROVE Permitted'
  <2>1. at # "idle" /\ req.book = b => goneAt' >= req.arrived
    BY <1>0, <1>5 DEF Delete
  <2>2. at # "idle" /\ req.book # b =>
            row'[req.book] = row[req.book] /\ goneAt' = goneAt
    BY <1>0, <1>5 DEF Delete, TypeOK
  <2>3. UNCHANGED <<now, handler, at, req, sent, outAt>>
    BY <1>5 DEF Delete
  <2> QED
    BY <2>1, <2>2, <2>3 DEF Permitted
<1>6. ASSUME NEW r \in Route, NEW b \in Book, NEW idx \in {-1, 0, 1},
             NEW tok \in Token, HandleStream(r, b, idx, tok)
      PROVE  Permitted'
  <2>1. at = "idle" /\ UNCHANGED world
    BY <1>6, StreamCases
  <2>2. CASE \E code \in Code : Answer(code)
    BY <2>1, <2>2, PermittedAnswer
  <2>3. CASE LetIn(r, b, tok)
    <3>1. r = "standalone"
      BY <2>3 DEF LetIn, Route, Permitted
    <3>2. /\ at' = "verified" /\ sent' = Never /\ handler' = handler /\ now' = now
          /\ req' = [book |-> b, tok |-> tok, arrived |-> now]
          /\ tok.secret = handler.standalone /\ now < tok.exp /\ tok.book = b
      BY <2>1, <2>3, <3>1 DEF LetIn, Permitted
    <3>3. tok.exp \in Int
      BY DEF Token, Time
    <3> QED
      BY <1>0, <3>2, <3>3 DEF Permitted
  <2> QED
    BY <1>6, <2>2, <2>3, StreamCases
<1>7. ASSUME NEW r \in Route, NEW b \in Book, NEW tok \in Token, HandleCover(r, b, tok)
      PROVE  Permitted'
  BY <1>7, CoverCases, PermittedAnswer
<1>8. CASE GetAudiobook
  <2>1. CASE Answer("404")
    BY <1>8, <2>1, PermittedAnswer DEF GetAudiobook
  <2>2. CASE ~Answer("404")
    BY <1>8, <2>2 DEF GetAudiobook, Readable, Permitted
  <2> QED
    BY <2>1, <2>2
<1>9. CASE ServeBookFile
  <2>1. CASE Answer("500")
    BY <1>9, <2>1, PermittedAnswer DEF ServeBookFile
  <2>2. CASE ~Answer("500")
    <3>1. /\ at = "found" /\ at' = "sending"
          /\ UNCHANGED <<req, sent, outAt, goneAt, now, handler, row>>
      BY <1>9, <2>2 DEF ServeBookFile
    <3> QED
      BY <3>1 DEF Permitted
  <2> QED
    BY <2>1, <2>2
<1>10. CASE Send
  BY <1>0, <1>10 DEF Send, Permitted
<1>11. CASE Close
  BY <1>11, PermittedAnswer DEF Close
<1>12. CASE UNCHANGED vars
  BY <1>0, <1>12, PermittedFrame DEF vars, permissions
<1> QED
  BY <1>1, <1>2, <1>3, <1>4, <1>5, <1>6, <1>7, <1>8, <1>9, <1>10, <1>11, <1>12
     DEF Next

(* No byte is sent a WriteTimeout or more after its token expired, its       *)
(* secret was rotated out or its book was deleted.                           *)
THEOREM RevocationsBite == Spec => []RevocationBites
<1>1. Init => Permitted
  BY DEF Init, Permitted, Route
<1>2. TypeOK /\ Permitted /\ [Next]_vars => Permitted'
  BY PermittedStep
<1>3. TypeOK /\ Permitted => RevocationBites
  <2> SUFFICES ASSUME TypeOK, Permitted, sent # Never PROVE RevocationBites
    BY DEF RevocationBites
  <2>1. at = "sending" /\ sent - req.arrived < WriteTimeout
    BY DEF Permitted
  <2>2. /\ sent \in Int /\ req.arrived \in Int /\ req.tok.exp \in Int
        /\ outAt \in Int /\ goneAt \in Int /\ WriteTimeout \in Int
    BY <2>1, NumberAssumption DEF TypeOK, Time, Never, Token
  <2>3. req.arrived > sent - WriteTimeout
    BY <2>1, <2>2
  <2> QED
    BY <2>1, <2>2, <2>3 DEF Permitted, RevocationBites
<1> QED
  BY <1>1, <1>2, <1>3, StreamTypeCorrect, PTL DEF Spec

-----------------------------------------------------------------------------
(* Copies put together from several responses *)

(* An answer keeps the names of the contents.                                *)
LEMMA VersionsAnswer ==
    ASSUME TypeOK, VersionsName, NEW code, Answer(code), UNCHANGED world
    PROVE  VersionsName'
<1>1. First.ver <= edits
  BY DEF First, TypeOK
<1> QED
  BY <1>1 DEF VersionsName, Answer, world

(* Every step keeps one content per number: a new file has a new number.     *)
LEMMA VersionsStep ==
    ASSUME TypeOK, VersionsName, [Next]_vars
    PROVE  VersionsName'
<1> USE DEF world, client, request
<1>0. /\ edits \in Int
      /\ \A c \in Content : c.ver \in Int
      /\ book \in Content
      /\ \A b \in Book : file[b].of \in Content /\ row[b].of \in Content
      /\ at # "idle" => req.book \in Book
  BY DEF TypeOK, Content
<1>1. ASSUME UNCHANGED <<file, row, edits, book, at, req>> PROVE VersionsName'
  BY <1>1 DEF VersionsName, SameName
<1>2. CASE Tick
  BY <1>1, <1>2 DEF Tick
<1>3. ASSUME NEW H, Configure(H) PROVE VersionsName'
  BY <1>1, <1>3 DEF Configure
<1>4. ASSUME NEW b \in Book, NEW sec \in Sec, NEW p,
             Write(b, [ver |-> edits + 1, sec |-> sec], p)
      PROVE  VersionsName'
  <2>1. /\ edits' = edits + 1 /\ UNCHANGED <<row, book, at, req>>
        /\ file'[b].of.ver = edits + 1
        /\ \A c \in Book : c # b => file'[c] = file[c]
    BY <1>4 DEF Write, TypeOK
  <2>2. \A c \in Book : row[c].of.ver # edits + 1
    BY <1>0 DEF VersionsName
  <2>3. book.ver # edits + 1
    BY <1>0 DEF VersionsName
  <2>4. \A c \in Book : file'[c].of.ver <= edits' /\ row'[c].of.ver <= edits'
    BY <1>0, <2>1 DEF VersionsName
  <2>5. \A c \in Book : SameName(row'[c].of, file'[c].of)
    BY <2>1, <2>2 DEF VersionsName, SameName
  <2>6. book'.ver <= edits'
    BY <1>0, <2>1 DEF VersionsName
  <2>7. at' = "found" => SameName(book', file'[req'.book].of)
    BY <1>0, <2>1, <2>3 DEF VersionsName, SameName
  <2> QED
    BY <2>4, <2>5, <2>6, <2>7 DEF VersionsName, SameName
<1>5. ASSUME NEW b \in Book, Remove(b) PROVE VersionsName'
  <2>1. /\ edits' = edits + 1 /\ UNCHANGED <<row, book, at, req>>
        /\ \A c \in Book : file'[c].of = file[c].of
    BY <1>5 DEF Remove, TypeOK
  <2> QED
    BY <1>0, <2>1 DEF VersionsName, SameName
<1>6. ASSUME NEW b \in Book, Ingest(b) PROVE VersionsName'
  <2>1. /\ UNCHANGED <<edits, file, book, at, req>>
        /\ row'[b].of = file[b].of
        /\ \A c \in Book : c # b => row'[c] = row[c]
    BY <1>6 DEF Ingest, UpsertAudiobook, TypeOK
  <2> QED
    BY <2>1 DEF VersionsName, SameName
<1>7. ASSUME NEW b \in Book, Delete(b) PROVE VersionsName'
  <2>1. /\ UNCHANGED <<edits, file, book, at, req>>
        /\ \A c \in Book : row'[c].of = row[c].of
    BY <1>7 DEF Delete, TypeOK
  <2> QED
    BY <2>1 DEF VersionsName, SameName
<1>8. ASSUME NEW r \in Route, NEW b \in Book, NEW idx \in {-1, 0, 1},
             NEW tok \in Token, HandleStream(r, b, idx, tok)
      PROVE  VersionsName'
  <2>1. CASE \E code \in Code : Answer(code)
    BY <1>8, <2>1, StreamCases, VersionsAnswer
  <2>2. CASE LetIn(r, b, tok)
    BY <1>8, <2>2, StreamCases DEF LetIn, VersionsName, SameName
  <2> QED
    BY <1>8, <2>1, <2>2, StreamCases
<1>9. ASSUME NEW r \in Route, NEW b \in Book, NEW tok \in Token, HandleCover(r, b, tok)
      PROVE  VersionsName'
  BY <1>9, CoverCases, VersionsAnswer
<1>10. CASE GetAudiobook
  <2>1. CASE Answer("404")
    BY <1>10, <2>1, VersionsAnswer DEF GetAudiobook
  <2>2. CASE ~Answer("404")
    <3>1. /\ req.book \in Book /\ book' = row[req.book].of
          /\ UNCHANGED <<edits, file, row, req>>
      BY <1>0, <1>10, <2>2 DEF GetAudiobook
    <3> QED
      BY <3>1 DEF VersionsName, SameName
  <2> QED
    BY <2>1, <2>2
<1>11. CASE ServeBookFile
  <2>1. CASE Answer("500")
    BY <1>11, <2>1, VersionsAnswer DEF ServeBookFile
  <2>2. CASE ~Answer("500")
    <3>1. at' = "sending" /\ UNCHANGED <<edits, file, row, book>>
      BY <1>11, <2>2 DEF ServeBookFile
    <3> QED
      BY <3>1 DEF VersionsName, SameName
  <2> QED
    BY <2>1, <2>2
<1>12. CASE Send
  BY <1>1, <1>12 DEF Send
<1>13. CASE Close
  BY <1>13, VersionsAnswer DEF Close
<1>14. CASE UNCHANGED vars
  BY <1>1, <1>14 DEF vars
<1> QED
  BY <1>2, <1>3, <1>4, <1>5, <1>6, <1>7, <1>8, <1>9, <1>10, <1>11, <1>12,
     <1>13, <1>14 DEF Next

(* A step that leaves the client's copy alone keeps it tagged, if the file   *)
(* being sent stays as it is or the copy is no longer clean.                 *)
LEMMA PartsFrame ==
    ASSUME PartsTagged, UNCHANGED <<have, tag>>, clean' => clean,
           clean' /\ at' = "sending" => at = "sending" /\ fd'.of = fd.of
    PROVE  PartsTagged'
BY DEF PartsTagged

(* So does an answer.                                                        *)
LEMMA PartsAnswer ==
    ASSUME PartsTagged, NEW code, Answer(code)
    PROVE  PartsTagged'
BY PartsFrame DEF Answer, client

(* Every step keeps the blocks of a clean copy at the time of its tag.       *)
LEMMA PartsStep ==
    ASSUME TypeOK, VersionsName, PartsTagged, [Next]_vars
    PROVE  PartsTagged'
<1> USE DEF world, client, request
<1>1. CASE Tick \/ \E H \in Secret \cup {NoHandler} : Configure(H)
  BY <1>1, PartsFrame DEF Tick, Configure
<1>2. ASSUME NEW b \in Book, NEW c, NEW p \in BOOLEAN, Write(b, c, p)
      PROVE  PartsTagged'
  <2>1. UNCHANGED <<have, tag, at>> /\ (clean' => clean)
    BY <1>2 DEF Write
  <2>2. clean' => fd'.of = fd.of
    <3> DEFINE open == at = "sending" /\ req.book = b /\ fd.linked
    <3>1. fd' = fd \/ fd' = [fd EXCEPT !.linked = FALSE] \/ (open /\ p)
      <4>1. CASE ~open
        BY <1>2, <4>1 DEF Write
      <4>2. CASE open /\ ~p
        <5>1. p = FALSE
          BY <4>2
        <5> QED
          BY <1>2, <4>2, <5>1 DEF Write
      <4> QED
        BY <4>1, <4>2
    <3>2. clean' => ~(open /\ p)
      BY <1>2 DEF Write
    <3> QED
      BY <3>1, <3>2 DEF TypeOK
  <2> QED
    BY <2>1, <2>2, PartsFrame
<1>3. ASSUME NEW b \in Book, Remove(b) PROVE PartsTagged'
  <2>1. UNCHANGED <<have, tag, clean, at>> /\ fd'.of = fd.of
    BY <1>3 DEF Remove, TypeOK
  <2> QED
    BY <2>1, PartsFrame
<1>4. ASSUME NEW b \in Book, Ingest(b) \/ Delete(b) PROVE PartsTagged'
  BY <1>4, PartsFrame DEF Ingest, Delete
<1>5. ASSUME NEW r \in Route, NEW b \in Book, NEW idx \in {-1, 0, 1},
             NEW tok \in Token, HandleStream(r, b, idx, tok)
      PROVE  PartsTagged'
  <2>1. CASE \E code \in Code : Answer(code)
    BY <2>1, PartsAnswer
  <2>2. CASE LetIn(r, b, tok)
    BY <2>2, PartsFrame DEF LetIn
  <2> QED
    BY <1>5, <2>1, <2>2, StreamCases
<1>6. ASSUME NEW r \in Route, NEW b \in Book, NEW tok \in Token, HandleCover(r, b, tok)
      PROVE  PartsTagged'
  BY <1>6, CoverCases, PartsAnswer
<1>7. CASE GetAudiobook
  <2>1. CASE Answer("404")
    BY <2>1, PartsAnswer
  <2>2. CASE ~Answer("404")
    BY <1>7, <2>2, PartsFrame DEF GetAudiobook
  <2> QED
    BY <2>1, <2>2
<1>8. CASE ServeBookFile
  <2>1. CASE Answer("500")
    BY <2>1, PartsAnswer
  <2>2. CASE ~Answer("500")
    <3>1. /\ at = "found" /\ at' = "sending"
          /\ fd' = [of |-> file[req.book].of, linked |-> TRUE]
          /\ tag' = book.sec
          /\ have' = IF Resumes THEN have ELSE <<>>
          /\ clean' = ((Resumes => clean) /\ book.ver = file[req.book].of.ver)
      BY <1>8, <2>2 DEF ServeBookFile
    <3>2. clean' => book = file[req.book].of
      BY <3>1 DEF VersionsName, SameName
    <3>3. clean' => fd'.of.sec = tag'
      BY <3>1, <3>2
    <3>4. CASE Resumes
      <4>1. tag = book.sec /\ have' = have
        BY <3>1, <3>4 DEF Resumes, TypeOK
      <4> QED
        BY <3>1, <3>3, <3>4, <4>1 DEF PartsTagged
    <3>5. CASE ~Resumes
      <4>1. have' = <<>>
        BY <3>1, <3>5
      <4> QED
        BY <3>3, <4>1 DEF PartsTagged
    <3> QED
      BY <3>4, <3>5
  <2> QED
    BY <2>1, <2>2
<1>9. CASE Send
  <2>1. have \in Seq(Content) /\ fd.of \in Content
    BY DEF TypeOK
  <2>2. have' = Append(have, fd.of) /\ UNCHANGED <<tag, clean, at, fd>> /\ at = "sending"
    BY <1>9 DEF Send
  <2>3. \A i \in DOMAIN have' : have'[i] = fd.of \/ (i \in DOMAIN have /\ have'[i] = have[i])
    BY <2>1, <2>2
  <2> QED
    BY <2>2, <2>3 DEF PartsTagged
<1>10. CASE Close
  BY <1>10, PartsAnswer DEF Close
<1>11. CASE UNCHANGED vars
  BY <1>11, PartsFrame DEF vars
<1> QED
  BY <1>1, <1>2, <1>3, <1>4, <1>5, <1>6, <1>7, <1>8, <1>9, <1>10, <1>11 DEF Next

(* Contents written in different seconds do not meet in one copy.            *)
THEOREM PartsAlwaysAgree == Spec => []PartsAgree
<1>1. Init => VersionsName /\ PartsTagged
  BY DEF Init, VersionsName, SameName, PartsTagged, First
<1>2. TypeOK /\ VersionsName /\ PartsTagged /\ [Next]_vars => VersionsName' /\ PartsTagged'
  BY VersionsStep, PartsStep
<1>3. PartsTagged => PartsAgree
  BY DEF PartsTagged, PartsAgree
<1> QED
  BY <1>1, <1>2, <1>3, StreamTypeCorrect, PTL DEF Spec
=============================================================================
