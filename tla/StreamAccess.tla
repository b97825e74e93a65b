---------------------------- MODULE StreamAccess ----------------------------
(***************************************************************************)
(* A client fetches audiobooks with the tokens the portal gives it, in as  *)
(* many range requests as it takes, while the operator reconfigures the    *)
(* plugin, files are replaced and removed, scans run and tokens expire.    *)
(* Requests write nothing that other requests read: one client, with one   *)
(* request at a time, is enough.  It resumes with If-Range; one that does  *)
(* not splices whatever the server has by then.                            *)
(*                                                                         *)
(* A content of a file is named by its number; all contents of a book have *)
(* the same number of blocks.  The modification time of a content is a     *)
(* second, which is all of it that Last-Modified and If-Range can say: it  *)
(* is up to who writes the file, and two contents may share one.           *)
(***************************************************************************)
EXTENDS Integers, Sequences

CONSTANTS
    Book,           \* ids of audiobooks
    Secret,         \* signing secrets, never empty: Configure has seen to it
    Empty,          \* the secret of a handler that was given none
    NoBook,         \* a book of another backend
    NoHandler,      \* a route server before the first SetHandler
    Blocks,         \* blocks of a file
    WriteTimeout,   \* of the standalone listener
    MaxNow,         \* bound: time
    MaxEdits,       \* bound: files replaced or removed
    MaxSec          \* bound: modification times

ASSUME SecretAssumption == Empty \notin Secret /\ NoHandler \notin Secret \cup {Empty}
ASSUME BookAssumption == NoBook \notin Book
ASSUME NumberAssumption ==
    /\ {Blocks, WriteTimeout} \subseteq Nat \ {0}
    /\ {MaxNow, MaxEdits, MaxSec} \subseteq Nat

Time == 0..MaxNow
Sec == 0..MaxSec
Never == -1
NoTag == -1     \* no Last-Modified

(* A token says by whom it was signed, for what, and until when; "media"     *)
(* unless its algorithm, audience or subject is not the one expected, or it  *)
(* has no expiry.                                                            *)
Token == [secret : Secret, book : Book \cup {NoBook}, idx : {0, 1}, exp : Time, media : BOOLEAN]
Content == [ver : 0..MaxEdits, sec : Sec]
NoRequest == [arrived |-> Never]
Route == {"host", "standalone"}

VARIABLES
    now,
    handler,    \* handler[r]: the secret of the handler that route r has
    row,        \* row[b]: the catalog's row, live or not, and what was ingested
    file,       \* file[b]: what is at the row's path
    edits,
    at,         \* the request under way: idle, verified, found or sending
    req,        \* its book, its token and when it arrived
    book,       \* the row as GetAudiobook returned it
    fd,         \* the open file: its content; linked: the path leads to it
    status,     \* the answer, none so far while the request is under way
    mine,       \* the book the client has blocks of,
    have,       \* the blocks, each by its content,
    tag,        \* and the Last-Modified that came with them
    \* history, read by the properties only
    sent,       \* when the last block of this request was sent
    outAt,      \* when its token's secret was last taken out of force
    goneAt,     \* when its book was last deleted from the catalog
    clean       \* have is of files that were what their rows said

client == <<mine, have, tag, clean>>
request == <<at, req, book, fd, status, sent>>
world == <<now, handler, row, file, edits>>
vars == <<world, client, request, outAt, goneAt>>

TypeOK ==
    /\ now \in Time /\ edits \in 0..MaxEdits
    /\ handler \in [Route -> Secret \cup {Empty, NoHandler}]
    /\ row \in [Book -> [live : BOOLEAN, of : Content]]
    /\ file \in [Book -> [there : BOOLEAN, of : Content]]
    /\ at \in {"idle", "verified", "found", "sending"}
    /\ IF at = "idle" THEN req = NoRequest
       ELSE /\ req \in [book : Book, tok : Token, arrived : Time]
            /\ req.tok.media /\ req.tok.idx = 0
    /\ book \in Content
    /\ fd \in [of : Content, linked : BOOLEAN]
    /\ status \in {"none", "200", "206", "400", "401", "404", "500", "503"}
    /\ mine \in Book \cup {NoBook}
    /\ have \in Seq(Content) /\ Len(have) <= Blocks
    /\ tag \in Sec \cup {NoTag} /\ (at = "sending" \/ have # <<>> => tag # NoTag)
    /\ {sent, outAt, goneAt} \subseteq Time \cup {Never} /\ clean \in BOOLEAN

First == [ver |-> 0, sec |-> 0]

Init ==
    /\ now = 0 /\ edits = 0
    /\ handler = [r \in Route |-> NoHandler]
    /\ row = [b \in Book |-> [live |-> FALSE, of |-> First]]
    /\ file = [b \in Book |-> [there |-> TRUE, of |-> First]]
    /\ at = "idle" /\ req = NoRequest /\ book = First
    /\ fd = [of |-> First, linked |-> FALSE]
    /\ status = "none" /\ sent = Never /\ outAt = Never /\ goneAt = Never
    /\ mine = NoBook /\ have = <<>> /\ tag = NoTag /\ clean = TRUE

-----------------------------------------------------------------------------
(* The world around a request *)

Tick == now < MaxNow /\ now' = now + 1
        /\ UNCHANGED <<handler, row, file, edits, client, request, outAt, goneAt>>

(* Every Configure builds the host's handler, without a secret, and with     *)
(* standalone_http_listen set that of the listener.                          *)
Configure(H) ==
    /\ H \in {handler.standalone} \cup Secret
    /\ handler' = [host |-> Empty, standalone |-> H]
    /\ outAt' = IF at # "idle" /\ req.tok.secret = handler.standalone /\ handler.standalone # H
                THEN now ELSE outAt
    /\ UNCHANGED <<now, row, file, edits, client, request, goneAt>>

(* The file is written anew, in place or by a rename over it. *)
Write(b, c, inPlace) ==
    /\ edits < MaxEdits /\ edits' = edits + 1
    /\ file' = [file EXCEPT ![b] = [there |-> TRUE, of |-> c]]
    /\ LET open == at = "sending" /\ req.book = b /\ fd.linked
       IN  /\ fd' = CASE ~open           -> fd
                      [] open /\ inPlace -> [fd EXCEPT !.of = c]
                      [] OTHER           -> [fd EXCEPT !.linked = FALSE]
           /\ clean' = (clean /\ ~(open /\ inPlace))
    /\ inPlace => file[b].there
    /\ UNCHANGED <<now, handler, row, at, req, book, status, sent, mine, have, tag>>
    /\ UNCHANGED <<outAt, goneAt>>

Remove(b) ==
    /\ file[b].there /\ edits < MaxEdits /\ edits' = edits + 1
    /\ file' = [file EXCEPT ![b].there = FALSE]
    /\ fd' = IF at = "sending" /\ req.book = b THEN [fd EXCEPT !.linked = FALSE] ELSE fd
    /\ UNCHANGED <<now, handler, row, at, req, book, status, sent, client, outAt, goneAt>>

(* Mutant: the upsert leaves mtime as it was. *)
UpsertAudiobook_OldTime(b) ==
    [live |-> TRUE, of |-> [file[b].of EXCEPT !.sec = row[b].of.sec]]

UpsertAudiobook(b) == [live |-> TRUE, of |-> file[b].of]

(* A scan comes by. *)
Ingest(b) ==
    /\ file[b].there
    /\ row' = [row EXCEPT ![b] = UpsertAudiobook(b)]
    /\ UNCHANGED <<now, handler, file, edits, client, request, outAt, goneAt>>

(* The sweep of a scan, or the operator removes the book's root. *)
Delete(b) ==
    /\ row[b].live
    /\ row' = [row EXCEPT ![b].live = FALSE]
    /\ goneAt' = IF at # "idle" /\ req.book = b THEN now ELSE goneAt
    /\ UNCHANGED <<now, handler, file, edits, client, request, outAt>>

-----------------------------------------------------------------------------
(* A request *)

Answer(code) ==
    /\ at' = "idle" /\ req' = NoRequest /\ book' = First /\ sent' = Never
    /\ fd' = [of |-> First, linked |-> FALSE]
    /\ status' = code /\ outAt' = Never /\ goneAt' = Never
    /\ UNCHANGED client

VerifyStreamToken(secret, tok, b, idx) ==
    /\ secret # Empty
    /\ idx >= 0
    /\ tok.secret = secret /\ tok.media /\ now < tok.exp
    /\ tok.book = b /\ tok.idx = idx

(* ServeHTTP and Handle load the handler; handleStream and its standalone    *)
(* twin run to the end of the checks, which read nothing shared.             *)
HandleStream(r, b, idx, tok) ==
    /\ at = "idle"
    /\ CASE handler[r] = NoHandler                                -> Answer("503")
         [] handler[r] # NoHandler /\ idx < 0                     -> Answer("400")
         [] handler[r] # NoHandler /\ idx >= 0
            /\ ~VerifyStreamToken(handler[r], tok, b, idx)        -> Answer("401")
         [] handler[r] # NoHandler /\ idx > 0
            /\ VerifyStreamToken(handler[r], tok, b, idx)         -> Answer("404")
         [] OTHER ->
              /\ at' = "verified" /\ status' = "none"
              /\ req' = [book |-> b, tok |-> tok, arrived |-> now]
              /\ UNCHANGED <<book, fd, sent, client, outAt, goneAt>>
    /\ UNCHANGED world

(* A cover has file_idx -1, which VerifyStreamToken refuses. *)
HandleCover(r, b, tok) ==
    /\ at = "idle"
    /\ \E code \in CASE handler[r] = NoHandler                     -> {"503"}
                     [] VerifyStreamToken(handler[r], tok, b, -1)  -> {"200", "404", "500"}
                     [] OTHER                                      -> {"401"} :
           Answer(code)
    /\ UNCHANGED world

(* Mutant: deleted rows are rows. *)
Readable_Deleted(r) == TRUE

Readable(r) == r.live

(* Any error of the statement is a 404. *)
GetAudiobook ==
    /\ at = "verified"
    /\ \/ Answer("404")
       \/ /\ Readable(row[req.book])
          /\ at' = "found" /\ book' = row[req.book].of
          /\ UNCHANGED <<req, fd, status, sent, client, outAt, goneAt>>
    /\ UNCHANGED world

(* ServeContent goes on where the client stopped if the If-Range it sends is *)
(* the row's time.  This client always sends the Last-Modified it was given. *)
Resumes ==
    /\ mine = req.book /\ have # <<>> /\ Len(have) < Blocks
    /\ tag = book.sec

ServeBookFile ==
    LET b == req.book IN
    /\ at = "found"
    /\ \/ Answer("500")
       \/ /\ file[b].there
          /\ at' = "sending"
          /\ fd' = [of |-> file[b].of, linked |-> TRUE]
          /\ status' = IF Resumes THEN "206" ELSE "200"
          /\ mine' = b /\ tag' = book.sec
          /\ have' = IF Resumes THEN have ELSE <<>>
          /\ clean' = ((Resumes => clean) /\ book.ver = file[b].of.ver)
          /\ UNCHANGED <<req, book, sent, outAt, goneAt>>
    /\ UNCHANGED world

(* Mutant: one block more. *)
MoreToSend_One == Len(have) <= Blocks

MoreToSend == Len(have) < Blocks

(* The deadline of writes was set when the request arrived. *)
Send ==
    /\ at = "sending" /\ MoreToSend
    /\ now - req.arrived < WriteTimeout
    /\ have' = Append(have, fd.of) /\ sent' = now
    /\ UNCHANGED <<world, at, req, book, fd, status, mine, tag, clean, outAt, goneAt>>

(* All is sent, or the connection breaks, or the deadline has passed. *)
Close ==
    /\ at = "sending"
    /\ Answer(status)
    /\ UNCHANGED world

Next ==
    \/ Tick
    \/ \E s \in Secret \cup {NoHandler} : Configure(s)
    \/ \E b \in Book :
           \/ \E sec \in Sec, p \in BOOLEAN : Write(b, [ver |-> edits + 1, sec |-> sec], p)
           \/ Remove(b) \/ Ingest(b) \/ Delete(b)
           \/ \E r \in Route, tok \in Token :
                  \/ \E idx \in {-1, 0, 1} : HandleStream(r, b, idx, tok)
                  \/ HandleCover(r, b, tok)
    \/ GetAudiobook \/ ServeBookFile \/ Send \/ Close

Spec == Init /\ [][Next]_vars

-----------------------------------------------------------------------------
(* Properties *)

(* Nothing outlives its permission by more than the listener's WriteTimeout: *)
(* a block that is sent now is sent by the standalone listener for a token   *)
(* of this book that had not expired, was signed with the secret then in     *)
(* force, and while the book was in the catalog, each of them at some moment *)
(* of the last WriteTimeout.  So an expired token, a rotated secret and a    *)
(* deleted book stop the bytes of responses under way too, although they are *)
(* looked at once, before the first byte.                                    *)
RevocationBites ==
    sent # Never =>
        LET from == sent - WriteTimeout IN
        /\ req.tok.exp > from /\ req.tok.book = req.book
        /\ \/ req.tok.secret = handler.standalone
           \/ outAt > from
        /\ row[req.book].live \/ goneAt > from

(* What a client puts together from several responses is one content: If the *)
(* file was what its row says whenever it was opened, and was not written in *)
(* place while it was sent, contents meet in one copy only if they were      *)
(* written in the same second, however often the file was replaced, scanned, *)
(* deleted and found again between the requests.                             *)
PartsAgree ==
    clean => \A i, j \in DOMAIN have : have[i].sec = have[j].sec

-----------------------------------------------------------------------------
(* Inductive strengthenings of the invariants above.                         *)

(* Every permission of the request under way was there when it arrived, or   *)
(* later; what was there and is no more went when or after it arrived.       *)
Permitted ==
    /\ handler.host \in {Empty, NoHandler}
    /\ at # "sending" => sent = Never
    /\ at # "idle" =>
          /\ req.arrived <= now /\ req.tok.exp > req.arrived
          /\ req.tok.book = req.book
          /\ req.tok.secret = handler.standalone \/ outAt >= req.arrived
    /\ at \in {"found", "sending"} => row[req.book].live \/ goneAt >= req.arrived
    /\ sent # Never => sent - req.arrived < WriteTimeout

(* A number names one content of a book, wherever it is kept.                *)
SameName(c, d) == c.ver = d.ver => c = d
VersionsName ==
    /\ \A b \in Book : /\ file[b].of.ver <= edits /\ row[b].of.ver <= edits
                        /\ SameName(row[b].of, file[b].of)
    /\ book.ver <= edits
    /\ at = "found" => SameName(book, file[req.book].of)

(* The blocks of a clean copy, and the next one, have the time of its tag.   *)
PartsTagged ==
    clean => /\ \A i \in DOMAIN have : have[i].sec = tag
             /\ at = "sending" => fd.of.sec = tag
=============================================================================
