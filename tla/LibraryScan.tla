----------------------------- MODULE LibraryScan -----------------------------
(***************************************************************************)
(* The library scanner: runScan's loop over the configured roots,          *)
(* scanner.Walk over one root, and the statements of the store it issues.  *)
(*                                                                         *)
(* Each filesystem access and each SQL statement or transaction is one     *)
(* step.  Between two steps files are edited, added and removed, and the   *)
(* operator adds and removes roots.  A content stands for one (size,       *)
(* mtime) of a file and for what is parsed from it; the content signature  *)
(* is then the content itself, and StableID(path, size, mtime) the pair    *)
(* <<path, content>>.  One directory per root: WalkDir reads all entries   *)
(* of a directory before it visits the first of them.                      *)
(***************************************************************************)
EXTENDS Naturals

CONSTANTS
    File,         \* absolute paths; numbers, in WalkDir's lexical order
    Lib,          \* library_path ids; numbers, ListLibraryPaths orders by id
    Under,        \* Under[l]: the paths beneath the root of l
    Content,      \* contents of a file; numbers from 1
    Irregular,    \* contents that are no regular file: a symlink
    Unreadable,   \* contents that cannot be opened; corrupt audio can
    HasChapters,  \* contents with at least one chapter
    HasCover,     \* contents with an embedded or a sidecar cover
    NoId,         \* no audiobook id
    MaxEdits,     \* bound: changes of files
    MaxAdmin,     \* bound: library_path rows added or removed
    MaxFaults     \* bound: failed statements, cancellations, I/O errors

ASSUME FileAssumption ==
    File \subseteq Nat /\ Lib \subseteq Nat /\ File # {} /\ Lib # {}
ASSUME UnderAssumption == Under \in [Lib -> SUBSET File]
ASSUME ContentAssumption ==
    /\ Content \subseteq Nat \ {0}
    /\ Irregular \subseteq Content /\ Unreadable \subseteq Content
    /\ HasChapters \subseteq Content /\ HasCover \subseteq Content

Good == Content \ (Irregular \cup Unreadable)
Absent == 0                  \* no file; no chapters, cover or job
Key == Lib \X File           \* UNIQUE (library_path_id, path)
Id == File \X Content        \* StableID
ASSUME NoIdAssumption == NoId \notin Id

VARIABLES
    disk,         \* disk[f]: the content of the file
    lib,          \* lib[l]: "new", "present", "gone"; ids are never reused
    \* audiobook rows, by (library_path_id, path)
    rowId,        \* primary key; NoId when there is no row
    sig,          \* content_sig
    tags,         \* the content the tag columns were parsed from
    deleted,
    \* rows of chapter, cover and metadata_enrichment_job, by audiobook_id:
    \* the content they stem from
    chap, cover, job,
    \* the scan holding scanMu
    pc,
    libs,         \* roots still to walk, the current one included
    cl,           \* the root being walked
    refs, refSig, \* ListRefs: id and content_sig by path
    listed,       \* directory entries not visited yet
    seen,         \* seenIDs
    cf, cid,      \* the file being ingested and the id used for it
    csig, cc,     \* its signature and what was parsed
    sweep,        \* ids still to soft-delete
    \* budgets
    edits, admin, faults,
    \* history, read by the properties only
    vanished,     \* files that were absent at some time since ReadDir
    touched,      \* files edited, or skipped by an I/O error, since ListRefs
    torn,         \* rows whose last ingest did not run to its end
    missed        \* <<file, content>>: statted, and replaced before the parse

fsVars == <<disk, edits>>
rowVars == <<rowId, sig, tags, deleted>>
subVars == <<chap, cover, job>>
walkVars == <<refs, refSig, listed, seen, sweep>>
fileVars == <<cf, cid, csig, cc>>
histVars == <<vanished, touched, torn, missed>>
vars == <<fsVars, lib, rowVars, subVars, pc, libs, cl, walkVars, fileVars,
          admin, faults, histVars>>

InFile == {"parse", "upsert", "chapters", "cover", "enqueue"}
Pc == InFile \cup {"idle", "next", "readdir", "visit", "sweep", "walked"}

TypeOK ==
    /\ disk \in [File -> Content \cup {Absent}]
    /\ lib \in [Lib -> {"new", "present", "gone"}]
    /\ rowId \in [Key -> Id \cup {NoId}]
    /\ sig \in [Key -> Content \cup {Absent}]
    /\ tags \in [Key -> Content \cup {Absent}]
    /\ deleted \in [Key -> BOOLEAN]
    /\ chap \in [Id -> Content \cup {Absent}]
    /\ cover \in [Id -> Content \cup {Absent}]
    /\ job \in [Id -> Content \cup {Absent}]
    /\ pc \in Pc /\ libs \subseteq Lib /\ cl \in Lib
    /\ refs \in [File -> Id \cup {NoId}]
    /\ refSig \in [File -> Content \cup {Absent}]
    /\ listed \subseteq File /\ seen \subseteq Id /\ sweep \subseteq Id
    /\ cf \in File /\ cid \in Id \cup {NoId} /\ (pc \in InFile => cid \in Id)
    /\ csig \in Content \cup {Absent} /\ cc \in Content \cup {Absent}
    /\ edits \in Nat /\ admin \in Nat /\ faults \in Nat
    /\ vanished \subseteq File /\ touched \subseteq File /\ torn \subseteq Key
    /\ missed \subseteq File \X (Content \cup {Absent})

Live(k) == rowId[k] # NoId /\ ~deleted[k]
HasRow(i) == \E k \in Key : rowId[k] = i
Least(S) == CHOOSE x \in S : \A y \in S : x <= y

Init ==
    /\ disk = [f \in File |-> Absent]
    /\ lib = [l \in Lib |-> "new"]
    /\ rowId = [k \in Key |-> NoId]
    /\ sig = [k \in Key |-> Absent] /\ tags = [k \in Key |-> Absent]
    /\ deleted = [k \in Key |-> FALSE]
    /\ chap = [i \in Id |-> Absent] /\ cover = [i \in Id |-> Absent]
    /\ job = [i \in Id |-> Absent]
    /\ pc = "idle" /\ libs = {} /\ cl = Least(Lib)
    /\ refs = [f \in File |-> NoId] /\ refSig = [f \in File |-> Absent]
    /\ listed = {} /\ seen = {} /\ sweep = {}
    /\ cf = Least(File) /\ cid = NoId /\ csig = Absent /\ cc = Absent
    /\ edits = 0 /\ admin = 0 /\ faults = 0
    /\ vanished = {} /\ touched = {} /\ torn = {} /\ missed = {}

-----------------------------------------------------------------------------
(* The world around the scanner *)

(* A file is written, replaced or removed. *)
Edit(f, c) ==
    /\ edits < MaxEdits /\ disk[f] # c
    /\ disk' = [disk EXCEPT ![f] = c]
    /\ edits' = edits + 1
    /\ touched' = touched \cup {f}
    /\ vanished' = IF c = Absent THEN vanished \cup {f} ELSE vanished
    /\ missed' = IF pc = "parse" /\ cf = f THEN missed \cup {<<f, csig>>} ELSE missed
    /\ UNCHANGED <<lib, rowVars, subVars, pc, libs, cl, walkVars, fileVars,
                   admin, faults, torn>>

(* POST /admin/library-paths, or a root in the plugin's configuration. *)
UpsertLibraryPath(l) ==
    /\ admin < MaxAdmin /\ lib[l] = "new"
    /\ admin' = admin + 1
    /\ lib' = [lib EXCEPT ![l] = "present"]
    /\ UNCHANGED <<fsVars, rowVars, subVars, pc, libs, cl, walkVars, fileVars,
                   faults, histVars>>

(* DELETE /admin/library-paths/{id}, with its ON DELETE CASCADEs. *)
DeleteLibraryPath(l) ==
    LET dropped == {rowId[<<l, f>>] : f \in File}
        without(sub) == [i \in Id |-> IF i \in dropped THEN Absent ELSE sub[i]]
    IN  /\ admin < MaxAdmin /\ lib[l] = "present"
        /\ admin' = admin + 1
        /\ lib' = [lib EXCEPT ![l] = "gone"]
        /\ rowId' = [k \in Key |-> IF k[1] = l THEN NoId ELSE rowId[k]]
        /\ sig' = [k \in Key |-> IF k[1] = l THEN Absent ELSE sig[k]]
        /\ tags' = [k \in Key |-> IF k[1] = l THEN Absent ELSE tags[k]]
        /\ deleted' = [k \in Key |-> IF k[1] = l THEN FALSE ELSE deleted[k]]
        /\ chap' = without(chap) /\ cover' = without(cover) /\ job' = without(job)
        /\ UNCHANGED <<fsVars, pc, libs, cl, walkVars, fileVars, faults, histVars>>

-----------------------------------------------------------------------------
(* runScan *)

(* The callback's variables are gone, and those of the walk. *)
FileOver == cf' = Least(File) /\ cid' = NoId /\ csig' = Absent /\ cc' = Absent
WalkOver ==
    /\ refs' = [f \in File |-> NoId] /\ refSig' = [f \in File |-> Absent]
    /\ listed' = {} /\ seen' = {} /\ sweep' = {}
    /\ FileOver

(* The walk returns an error: runScan gives up, the other roots included. *)
Abort == pc' = "idle" /\ libs' = {} /\ WalkOver

(* ListLibraryPaths, with scanMu held.  The loop skips a root that is not    *)
(* enabled; no code clears the flag, so every present root is walked.        *)
StartScan ==
    /\ pc = "idle"
    /\ pc' = "next"
    /\ libs' = {l \in Lib : lib[l] = "present"}
    /\ UNCHANGED <<fsVars, lib, rowVars, subVars, cl, walkVars, fileVars,
                   admin, faults, histVars>>

(* Mutant: soft-deleted rows are listed too. *)
ListRefs_All ==
    /\ pc = "next" /\ libs # {}
    /\ cl' = Least(libs)
    /\ refs' = [f \in File |-> rowId[<<cl', f>>]]
    /\ refSig' = [f \in File |-> sig[<<cl', f>>]]
    /\ pc' = "readdir"
    /\ seen' = {}
    /\ touched' = {}
    /\ UNCHANGED <<fsVars, lib, rowVars, subVars, libs, listed, sweep, fileVars,
                   admin, faults, vanished, torn, missed>>

(* Walk of the next root: ListRefs returns its rows that are not deleted. *)
ListRefs ==
    /\ pc = "next" /\ libs # {}
    /\ cl' = Least(libs)
    /\ refs' = [f \in File |-> IF Live(<<cl', f>>) THEN rowId[<<cl', f>>] ELSE NoId]
    /\ refSig' = [f \in File |-> IF Live(<<cl', f>>) THEN sig[<<cl', f>>] ELSE Absent]
    /\ pc' = "readdir"
    /\ seen' = {}
    /\ touched' = {}
    /\ UNCHANGED <<fsVars, lib, rowVars, subVars, libs, listed, sweep, fileVars,
                   admin, faults, vanished, torn, missed>>

EndScan ==
    /\ pc = "next" /\ libs = {}
    /\ pc' = "idle"
    /\ UNCHANGED <<fsVars, lib, rowVars, subVars, libs, cl, walkVars, fileVars,
                   admin, faults, histVars>>

(* MarkLibraryScanned, and on to the next root. *)
NextLibrary ==
    /\ pc = "walked"
    /\ pc' = "next"
    /\ libs' = libs \ {cl}
    /\ WalkOver
    /\ UNCHANGED <<fsVars, lib, rowVars, subVars, cl, admin, faults, histVars>>

-----------------------------------------------------------------------------
(* Walk *)

ReadDir ==
    /\ pc = "readdir"
    /\ pc' = "visit"
    /\ listed' = {f \in Under[cl] : disk[f] # Absent}
    /\ vanished' = {f \in File : disk[f] = Absent}
    /\ UNCHANGED <<fsVars, lib, rowVars, subVars, libs, cl, refs, refSig, seen,
                   sweep, fileVars, admin, faults, touched, torn, missed>>

Known(f) == refs[f] # NoId
MarkSeen(f) == seen' = IF Known(f) THEN seen \cup {refs[f]} ELSE seen

(* The callback up to the stat: a known path is seen whatever comes of it;   *)
(* one that cannot be statted, is no regular file or is unchanged is left    *)
(* alone.                                                                    *)
Visit ==
    LET f == Least(listed)
        skip == \/ disk[f] \in Irregular \cup {Absent}
                \/ Known(f) /\ refSig[f] = disk[f]
    IN  /\ pc = "visit" /\ listed # {}
        /\ listed' = listed \ {f}
        /\ MarkSeen(f)
        /\ pc' = IF skip THEN "visit" ELSE "parse"
        /\ IF skip
           THEN UNCHANGED fileVars
           ELSE /\ cf' = f /\ csig' = disk[f] /\ cc' = Absent
                /\ cid' = IF Known(f) THEN refs[f] ELSE <<f, disk[f]>>
        /\ UNCHANGED <<fsVars, lib, rowVars, subVars, libs, cl, refs, refSig,
                       sweep, admin, faults, histVars>>

(* Mutant: a file is seen only once it was statted. *)
VisitError_LateMark ==
    LET f == Least(listed)
    IN  /\ pc = "visit" /\ listed # {} /\ faults < MaxFaults
        /\ faults' = faults + 1
        /\ listed' = listed \ {f}
        /\ touched' = touched \cup {f}
        /\ UNCHANGED <<fsVars, lib, rowVars, subVars, pc, libs, cl, refs, refSig,
                       seen, sweep, fileVars, admin, vanished, torn, missed>>

(* The stat fails although the file is there. *)
VisitError ==
    LET f == Least(listed)
    IN  /\ pc = "visit" /\ listed # {} /\ faults < MaxFaults
        /\ faults' = faults + 1
        /\ listed' = listed \ {f}
        /\ MarkSeen(f)
        /\ touched' = touched \cup {f}
        /\ UNCHANGED <<fsVars, lib, rowVars, subVars, pc, libs, cl, refs, refSig,
                       sweep, fileVars, admin, vanished, torn, missed>>

(* parseAudio opens the file anew, whatever is at the path by now: only a    *)
(* file that cannot be opened is skipped.  Audio without tags is ingested    *)
(* with empty ones.                                                          *)
Parse ==
    /\ pc = "parse"
    /\ \/ /\ disk[cf] \in Content \ Unreadable
          /\ pc' = "upsert"
          /\ cc' = disk[cf]
          /\ UNCHANGED <<cf, cid, csig>>
       \/ /\ disk[cf] \in Unreadable \cup {Absent}
          /\ pc' = "visit"
          /\ FileOver
    /\ UNCHANGED <<fsVars, lib, rowVars, subVars, libs, cl, walkVars,
                   admin, faults, histVars>>

(* Mutant: the signature is taken after the parse, not before it. *)
Upsert_LateStat ==
    LET k == <<cl, cf>>
        insert == rowId[k] = NoId
    IN  /\ pc = "upsert"
        /\ \/ /\ lib[cl] = "present" /\ (insert => ~HasRow(cid))
              /\ rowId' = [rowId EXCEPT ![k] = IF insert THEN cid ELSE rowId[k]]
              /\ sig' = [sig EXCEPT ![k] = disk[cf]]
              /\ tags' = [tags EXCEPT ![k] = cc]
              /\ deleted' = [deleted EXCEPT ![k] = FALSE]
              /\ torn' = torn \cup {k}
              /\ pc' = "chapters"
              /\ UNCHANGED <<libs, walkVars, fileVars>>
           \/ /\ lib[cl] # "present" \/ (insert /\ HasRow(cid))
              /\ Abort
              /\ UNCHANGED <<rowVars, torn>>
        /\ UNCHANGED <<fsVars, lib, subVars, cl, admin, faults, vanished, touched,
                       missed>>

(* INSERT ... ON CONFLICT (library_path_id, path) DO UPDATE: the row keeps   *)
(* its id.  The library may be gone (foreign key), the id may be taken by a  *)
(* row of another library (primary key).                                     *)
Upsert ==
    LET k == <<cl, cf>>
        insert == rowId[k] = NoId
    IN  /\ pc = "upsert"
        /\ \/ /\ lib[cl] = "present" /\ (insert => ~HasRow(cid))
              /\ rowId' = [rowId EXCEPT ![k] = IF insert THEN cid ELSE rowId[k]]
              /\ sig' = [sig EXCEPT ![k] = csig]
              /\ tags' = [tags EXCEPT ![k] = cc]
              /\ deleted' = [deleted EXCEPT ![k] = FALSE]
              /\ torn' = torn \cup {k}
              /\ pc' = "chapters"
              /\ UNCHANGED <<libs, walkVars, fileVars>>
           \/ /\ lib[cl] # "present" \/ (insert /\ HasRow(cid))
              /\ Abort
              /\ UNCHANGED <<rowVars, torn>>
        /\ UNCHANGED <<fsVars, lib, subVars, cl, admin, faults, vanished, touched,
                       missed>>

(* Mutant: a file without chapters does not delete the old ones. *)
ReplaceChapters_KeepOld ==
    /\ pc = "chapters"
    /\ chap' = IF HasRow(cid) /\ cc \in HasChapters
               THEN [chap EXCEPT ![cid] = cc] ELSE chap
    /\ IF HasRow(cid) \/ cc \notin HasChapters
       THEN pc' = "cover" /\ UNCHANGED <<libs, walkVars, fileVars>>
       ELSE Abort
    /\ UNCHANGED <<fsVars, lib, rowVars, cover, job, cl, admin, faults, histVars>>

(* Delete and insert in one transaction; without the audiobook the first     *)
(* inserted chapter fails.                                                   *)
ReplaceChapters ==
    /\ pc = "chapters"
    /\ chap' = IF HasRow(cid) THEN [chap EXCEPT ![cid] = cc] ELSE chap
    /\ IF HasRow(cid) \/ cc \notin HasChapters
       THEN pc' = "cover" /\ UNCHANGED <<libs, walkVars, fileVars>>
       ELSE Abort
    /\ UNCHANGED <<fsVars, lib, rowVars, cover, job, cl, admin, faults, histVars>>

(* Only when a cover was found: an older one is left in place. *)
UpsertCover ==
    /\ pc = "cover"
    /\ cover' = IF cc \in HasCover /\ HasRow(cid)
                THEN [cover EXCEPT ![cid] = cc] ELSE cover
    /\ IF HasRow(cid) \/ cc \notin HasCover
       THEN pc' = "enqueue" /\ UNCHANGED <<libs, walkVars, fileVars>>
       ELSE Abort
    /\ UNCHANGED <<fsVars, lib, rowVars, chap, job, cl, admin, faults, histVars>>

(* Best effort: an error is logged.  The callback ends by marking its id.    *)
Enqueue ==
    /\ pc = "enqueue"
    /\ pc' = "visit"
    /\ job' = IF HasRow(cid) THEN [job EXCEPT ![cid] = cc] ELSE job
    /\ torn' = IF rowId[<<cl, cf>>] = cid THEN torn \ {<<cl, cf>>} ELSE torn
    /\ seen' = seen \cup {cid}
    /\ FileOver
    /\ UNCHANGED <<fsVars, lib, rowVars, chap, cover, libs, cl, refs, refSig,
                   listed, sweep, admin, faults, vanished, touched, missed>>

EnqueueError ==
    /\ pc = "enqueue" /\ faults < MaxFaults
    /\ faults' = faults + 1
    /\ pc' = "visit"
    /\ seen' = seen \cup {cid}
    /\ FileOver
    /\ UNCHANGED <<fsVars, lib, rowVars, subVars, libs, cl, refs, refSig,
                   listed, sweep, admin, histVars>>

(* Mutant: sweeps over all paths instead of the listed refs. *)
StartSweep_AllPaths ==
    /\ pc = "visit" /\ listed = {}
    /\ pc' = "sweep"
    /\ sweep' = {refs[f] : f \in File} \ seen
    /\ UNCHANGED <<fsVars, lib, rowVars, subVars, libs, cl, refs, refSig, listed,
                   seen, fileVars, admin, faults, histVars>>

(* Every existing row whose id was not seen ... *)
StartSweep ==
    /\ pc = "visit" /\ listed = {}
    /\ pc' = "sweep"
    /\ sweep' = {refs[f] : f \in {g \in File : Known(g)}} \ seen
    /\ UNCHANGED <<fsVars, lib, rowVars, subVars, libs, cl, refs, refSig, listed,
                   seen, fileVars, admin, faults, histVars>>

(* ... is soft-deleted, in the order a Go map yields them. *)
SoftDelete(i) ==
    /\ pc = "sweep" /\ i \in sweep
    /\ sweep' = sweep \ {i}
    /\ deleted' = [k \in Key |-> deleted[k] \/ rowId[k] = i]
    /\ UNCHANGED <<fsVars, lib, rowId, sig, tags, subVars, pc, libs, cl, refs,
                   refSig, listed, seen, fileVars, admin, faults, histVars>>

EndSweep ==
    /\ pc = "sweep" /\ sweep = {}
    /\ pc' = "walked"
    /\ UNCHANGED <<fsVars, lib, rowVars, subVars, libs, cl, walkVars, fileVars,
                   admin, faults, histVars>>

(* A statement fails, the directory is unreadable, the context is cancelled  *)
(* or the process dies: the scan ends where it is.                           *)
Fail ==
    /\ pc # "idle" /\ faults < MaxFaults
    /\ faults' = faults + 1
    /\ Abort
    /\ UNCHANGED <<fsVars, lib, rowVars, subVars, cl, admin, histVars>>

-----------------------------------------------------------------------------

ScanStep ==
    \/ ListRefs \/ EndScan \/ NextLibrary
    \/ ReadDir \/ Visit \/ Parse
    \/ Upsert \/ ReplaceChapters \/ UpsertCover \/ Enqueue
    \/ StartSweep \/ (\E i \in Id : SoftDelete(i)) \/ EndSweep

Next ==
    \/ \E f \in File, c \in Content \cup {Absent} : Edit(f, c)
    \/ \E l \in Lib : UpsertLibraryPath(l) \/ DeleteLibraryPath(l)
    \/ StartScan
    \/ ScanStep
    \/ VisitError \/ EnqueueError \/ Fail

Spec == Init /\ [][Next]_vars

(* The library_scan task starts a scan every six hours, and a scan runs.     *)
FairSpec == Spec /\ WF_vars(StartScan) /\ WF_vars(ScanStep)

-----------------------------------------------------------------------------
(* Properties *)

(* A book is soft-deleted only when its file was missing at some time since  *)
(* the walk read the directory: neither an error on the file nor an aborted  *)
(* walk nor an ingest under another id can hide a book whose file is there.  *)
NoFalseDelete ==
    [][\A k \in Key : Live(k) /\ deleted'[k] => k[2] \in vanished]_vars

(* The row of file f under root l is that of the file as it is: its          *)
(* signature and, unless this very content was statted by some walk and      *)
(* replaced before the parse opened the file, its tags.                      *)
RowOf(l, f) ==
    LET k == <<l, f>>
    IN  /\ Live(k) /\ sig[k] = disk[f]
        /\ <<f, disk[f]>> \notin missed => tags[k] = disk[f]

(* A walk that runs to its end leaves the rows of the root in step with the  *)
(* files nobody touched meanwhile: a good file has a live row with its       *)
(* signature and its tags, a missing file has no live row.  A file edited    *)
(* between the stat and the parse of a walk leaves a row with the signature  *)
(* of one content and the tags of another: the next walk heals it, but for a *)
(* file that is back at the very size and mtime that were statted.           *)
Reconciled ==
    pc = "walked" /\ lib[cl] = "present" =>
        \A f \in Under[cl] \ touched :
            /\ disk[f] \in Good => RowOf(cl, f)
            /\ disk[f] = Absent => ~Live(<<cl, f>>)

(* A row whose ingest was not cut short has the chapters, the cover (if its  *)
(* file has one) and the enrichment job of the content its tags stem from.   *)
IngestWhole ==
    \A k \in Key : Live(k) /\ k \notin torn =>
        /\ chap[rowId[k]] = tags[k] /\ job[rowId[k]] = tags[k]
        /\ tags[k] \in HasCover => cover[rowId[k]] = tags[k]

(* Once files and roots are left alone, the scheduled scans bring the        *)
(* catalog in step with the disk, tags included, and keep it there.          *)
Converges ==
    <>[](\A l \in Lib : lib[l] = "present" =>
            \A f \in Under[l] :
                /\ disk[f] \in Good => RowOf(l, f)
                /\ disk[f] = Absent => ~Live(<<l, f>>))

-----------------------------------------------------------------------------
(* Inductive strengthenings of the invariants above.                         *)

InDir == InFile \cup {"visit"}

(* An id belongs to one row, and that row to a path of a root in force.      *)
RowsNamed ==
    \A k \in Key : rowId[k] # NoId =>
        /\ rowId[k][1] = k[2] /\ k[2] \in Under[k[1]] /\ lib[k[1]] = "present"
        /\ \A m \in Key : rowId[m] = rowId[k] => m = k

(* What ListRefs returned still names the rows of the root, or nothing.      *)
RefsNamed ==
    /\ \A l \in libs : lib[l] # "new"
    /\ pc \notin {"idle", "next"} => cl \in libs
    /\ pc \in {"idle", "next"} => \A f \in File : ~Known(f)
    /\ \A f \in File : Known(f) =>
          /\ refs[f][1] = f /\ f \in Under[cl]
          /\ \A k \in Key : rowId[k] = refs[f] => k = <<cl, f>>
          /\ lib[cl] = "present" => rowId[<<cl, f>>] = refs[f]
    /\ listed \subseteq Under[cl]
    /\ pc \in {"idle", "next", "readdir"} => listed = {}
    /\ pc \in InFile =>
          /\ cf \in Under[cl] /\ cf \notin listed /\ csig \in Content
          /\ cid = IF Known(cf) THEN refs[cf] ELSE <<cf, csig>>
          /\ pc # "parse" => cc \in Content

(* A listed row is still to be visited, was seen, or its file was missing;   *)
(* only the last are swept.                                                  *)
SweepSafe ==
    /\ pc \in InDir \cup {"sweep"} => \A f \in File :
          Known(f) => f \in listed \cup vanished \/ refs[f] \in seen
    /\ pc \in {"sweep", "walked"} => listed = {}
    /\ pc # "sweep" => sweep = {}
    /\ \A i \in sweep : i \notin seen /\ \E f \in File : Known(f) /\ i = refs[f]

(* How far the walk is with a file nobody touched since ListRefs: its row is *)
(* as it was listed, or as it shall be.                                      *)
AsListed(f) ==
    /\ Known(f) <=> Live(<<cl, f>>)
    /\ Known(f) => refSig[f] = sig[<<cl, f>>]
InStep(f) == Live(<<cl, f>>) /\ sig[<<cl, f>>] = disk[f]
FileSoFar(f) ==
    /\ pc = "readdir" \/ f \in listed => AsListed(f)
    /\ f \in listed => disk[f] # Absent
    /\ \A i \in seen : i[1] = f => disk[f] # Absent
    /\ pc \in InFile /\ cf = f => csig = disk[f]
    /\ pc \in InDir \cup {"sweep", "walked"} /\ f \notin listed =>
          /\ disk[f] # Absent /\ Known(f) => refs[f] \in seen
          /\ disk[f] \in Good =>
                 InStep(f) \/ (pc \in {"parse", "upsert"} /\ cf = f)
          /\ disk[f] = Absent =>
                 /\ pc \in InDir => AsListed(f)
                 /\ pc = "sweep" /\ Live(<<cl, f>>) => rowId[<<cl, f>>] \in sweep
                 /\ pc = "walked" => ~Live(<<cl, f>>)
WalkSoFar ==
    pc \notin {"idle", "next"} /\ lib[cl] = "present" =>
        \A f \in Under[cl] \ touched : FileSoFar(f)

(* Tags of another content than the signature's stem from a file that was    *)
(* replaced between the stat and the parse.                                  *)
TagsSigned ==
    /\ \A k \in Key : tags[k] # sig[k] => <<k[2], sig[k]>> \in missed
    /\ pc = "parse" /\ disk[cf] # csig => <<cf, csig>> \in missed
    /\ pc \in InFile \ {"parse"} /\ cc # csig => <<cf, csig>> \in missed

(* How far the ingest of the file is, if its row has the id it uses.         *)
IngestSoFar ==
    pc \in {"chapters", "cover", "enqueue"} /\ rowId[<<cl, cf>>] = cid =>
        /\ <<cl, cf>> \in torn /\ tags[<<cl, cf>>] = cc
        /\ pc # "chapters" => chap[cid] = cc
        /\ pc = "enqueue" /\ cc \in HasCover => cover[cid] = cc

-----------------------------------------------------------------------------
(* What the repository says of the scanner and the code does not do.         *)

(* 0003_content_sig.up.sql: "The id is now stable per (library_path_id,      *)
(* path)": chapters, cover and job are written under the id of the row.      *)
IngestUsesRowId ==
    pc \in {"chapters", "cover", "enqueue"} =>
        rowId[<<cl, cf>>] \in {cid, NoId}
=============================================================================
