--------------------------- MODULE LibraryScanProofs ---------------------------
(***************************************************************************)
(* Proofs, for any files, roots, contents and bounds, of the safety        *)
(* properties of LibraryScan.                                              *)
(***************************************************************************)
EXTENDS LibraryScan, TLAPS, WellFoundedInduction

(* The order of the numbers has no infinite descent.                         *)
LEMMA NatWellOrdered ==
    \E R : IsWellFoundedOn(R, Nat) /\ \A x, y \in Nat : y < x => <<y, x>> \in R
<1>1. IsWellFoundedOn(OpToRel(<, Nat), Nat)
  BY NatLessThanWellFounded
<1>2. \A x, y \in Nat : y < x => <<y, x>> \in OpToRel(<, Nat)
  BY DEF OpToRel
<1> QED
  BY <1>1, <1>2, Zenon

(* Least finds an element: WalkDir and the loop over the roots go on as long *)
(* as something is left.                                                     *)
LEMMA LeastIn ==
    ASSUME NEW S \in SUBSET Nat, S # {}
    PROVE  Least(S) \in S
<1>1. PICK R : IsWellFoundedOn(R, Nat) /\ \A x, y \in Nat : y < x => <<y, x>> \in R
  BY NatWellOrdered
<1>2. PICK x \in S : \A y \in S : ~(<<y, x>> \in R)
  BY <1>1, WFMin
<1>3. ASSUME NEW y \in S PROVE x <= y
  <2>1. x \in Nat /\ y \in Nat
    OBVIOUS
  <2>2. ~(y < x)
    BY <1>1, <1>2, <2>1, Zenon
  <2> QED
    BY <2>1, <2>2
<1> QED
  BY <1>3 DEF Least

(* The file WalkDir visits next, the root walked next and the values of a    *)
(* scan that has none.                                                       *)
LEMMA LeastType ==
    /\ Least(File) \in File /\ Least(Lib) \in Lib
    /\ \A S \in SUBSET File : S # {} => Least(S) \in S
    /\ \A S \in SUBSET Lib : S # {} => Least(S) \in S
BY LeastIn, FileAssumption

(* A sub-row without those of a deleted root is typed.                       *)
LEMMA WithoutType ==
    ASSUME NEW sub \in [Id -> Content \cup {Absent}], NEW dropped
    PROVE  [i \in Id |-> IF i \in dropped THEN Absent ELSE sub[i]]
               \in [Id -> Content \cup {Absent}]
OBVIOUS

-----------------------------------------------------------------------------

(* The values of a callback and of a walk that is over are typed.            *)
LEMMA OverType ==
    /\ FileOver => /\ cf' \in File /\ cid' \in Id \cup {NoId}
                   /\ csig' \in Content \cup {Absent} /\ cc' \in Content \cup {Absent}
    /\ WalkOver => /\ refs' \in [File -> Id \cup {NoId}]
                   /\ refSig' \in [File -> Content \cup {Absent}]
                   /\ listed' \subseteq File /\ seen' \subseteq Id /\ sweep' \subseteq Id
                   /\ FileOver
BY LeastType DEF FileOver, WalkOver

(* An aborted scan is typed.                                                 *)
LEMMA AbortType ==
    ASSUME TypeOK, Abort,
           UNCHANGED <<fsVars, lib, rowVars, subVars, cl, admin, histVars>>,
           faults' \in Nat
    PROVE  TypeOK'
BY OverType DEF TypeOK, Abort, fsVars, rowVars, subVars, histVars, Pc, InFile

(* Type correctness of rows, sub-rows and of the scan's variables.           *)
THEOREM ScanTypeCorrect == Spec => []TypeOK
<1>1. Init => TypeOK
  BY LeastType DEF Init, TypeOK, Pc, InFile
<1>2. TypeOK /\ [Next]_vars => TypeOK'
  <2> SUFFICES ASSUME TypeOK, [Next]_vars PROVE TypeOK'
    OBVIOUS
  <2> USE DEF TypeOK, Pc, InFile, fsVars, rowVars, subVars, walkVars, fileVars, histVars
  <2>1. ASSUME NEW f \in File, NEW c \in Content \cup {Absent}, Edit(f, c)
        PROVE  TypeOK'
    BY <2>1 DEF Edit
  <2>2. ASSUME NEW l \in Lib, UpsertLibraryPath(l) PROVE TypeOK'
    BY <2>2 DEF UpsertLibraryPath
  <2>3. ASSUME NEW l \in Lib, DeleteLibraryPath(l) PROVE TypeOK'
    <3>1. /\ chap' \in [Id -> Content \cup {Absent}]
          /\ cover' \in [Id -> Content \cup {Absent}]
          /\ job' \in [Id -> Content \cup {Absent}]
      BY <2>3, WithoutType DEF DeleteLibraryPath
    <3>2. /\ rowId' \in [Key -> Id \cup {NoId}]
          /\ sig' \in [Key -> Content \cup {Absent}]
          /\ tags' \in [Key -> Content \cup {Absent}]
      BY <2>3 DEF DeleteLibraryPath
    <3>3. deleted' \in [Key -> BOOLEAN]
      BY <2>3 DEF DeleteLibraryPath
    <3>4. /\ admin' \in Nat /\ lib' \in [Lib -> {"new", "present", "gone"}]
          /\ UNCHANGED <<fsVars, pc, libs, cl, walkVars, fileVars, faults, histVars>>
      BY <2>3 DEF DeleteLibraryPath
    <3> QED
      BY <3>1, <3>2, <3>3, <3>4
  <2>4. CASE StartScan
    BY <2>4 DEF StartScan
  <2>5. CASE ListRefs
    <3>1. cl' \in Lib
      BY <2>5, LeastType DEF ListRefs
    <3>2. \A f \in File : <<cl', f>> \in Key
      BY <3>1 DEF Key
    <3>3. /\ refs' \in [File -> Id \cup {NoId}]
          /\ refSig' \in [File -> Content \cup {Absent}]
      BY <2>5, <3>2 DEF ListRefs
    <3> QED
      BY <2>5, <3>1, <3>3 DEF ListRefs
  <2>6. CASE EndScan \/ EndSweep
    BY <2>6 DEF EndScan, EndSweep
  <2>7. CASE NextLibrary
    BY <2>7, OverType DEF NextLibrary
  <2>8. CASE ReadDir
    BY <2>8, UnderAssumption DEF ReadDir
  <2>9. CASE Visit
    <3> DEFINE f == Least(listed)
               skip == \/ disk[f] \in Irregular \cup {Absent}
                       \/ Known(f) /\ refSig[f] = disk[f]
    <3>1. f \in File
      BY <2>9, LeastType DEF Visit
    <3>2. seen' \subseteq Id
      BY <2>9, <3>1 DEF Visit, MarkSeen, Known
    <3>3. CASE skip
      BY <2>9, <3>2, <3>3 DEF Visit
    <3>4. CASE ~skip
      <4>1. /\ cf' = f /\ csig' = disk[f] /\ cc' = Absent
            /\ cid' = IF Known(f) THEN refs[f] ELSE <<f, disk[f]>>
            /\ disk[f] # Absent /\ pc' = "parse"
        BY <2>9, <3>4 DEF Visit
      <4>2. cid' \in Id
        BY <3>1, <4>1 DEF Id, Known
      <4> QED
        BY <2>9, <3>1, <3>2, <4>1, <4>2 DEF Visit
    <3> QED
      BY <3>3, <3>4
  <2>10. CASE Parse
    BY <2>10, OverType DEF Parse
  <2>11. CASE Upsert
    <3>1. CASE Abort
      BY <2>11, <3>1, AbortType DEF Upsert, Abort
    <3>2. CASE ~Abort
      <4>1. /\ rowId' = [rowId EXCEPT ![<<cl, cf>>] =
                           IF rowId[<<cl, cf>>] = NoId THEN cid ELSE rowId[<<cl, cf>>]]
            /\ sig' = [sig EXCEPT ![<<cl, cf>>] = csig]
            /\ tags' = [tags EXCEPT ![<<cl, cf>>] = cc]
            /\ deleted' = [deleted EXCEPT ![<<cl, cf>>] = FALSE]
            /\ torn' = torn \cup {<<cl, cf>>} /\ pc = "upsert" /\ pc' = "chapters"
            /\ UNCHANGED <<libs, walkVars, fileVars, fsVars, lib, subVars, cl,
                           admin, faults, vanished, touched, missed>>
        BY <2>11, <3>2 DEF Upsert
      <4>2. <<cl, cf>> \in Key
        BY DEF Key
      <4> QED
        BY <4>1, <4>2
    <3> QED
      BY <3>1, <3>2
  <2>12. CASE ReplaceChapters
    <3>1. chap' \in [Id -> Content \cup {Absent}]
      BY <2>12 DEF ReplaceChapters
    <3>2. CASE Abort
      BY <2>12, <3>1, <3>2, OverType DEF ReplaceChapters, Abort
    <3>3. CASE ~Abort
      BY <2>12, <3>1, <3>3 DEF ReplaceChapters
    <3> QED
      BY <3>2, <3>3
  <2>13. CASE UpsertCover
    <3>1. cover' \in [Id -> Content \cup {Absent}]
      BY <2>13 DEF UpsertCover
    <3>2. CASE Abort
      BY <2>13, <3>1, <3>2, OverType DEF UpsertCover, Abort
    <3>3. CASE ~Abort
      BY <2>13, <3>1, <3>3 DEF UpsertCover
    <3> QED
      BY <3>2, <3>3
  <2>14. CASE Enqueue
    BY <2>14, OverType DEF Enqueue
  <2>15. CASE StartSweep
    BY <2>15 DEF StartSweep, Known
  <2>16. ASSUME NEW i \in Id, SoftDelete(i) PROVE TypeOK'
    <3>1. deleted' \in [Key -> BOOLEAN]
      BY <2>16, Zenon DEF SoftDelete
    <3> QED
      BY <2>16, <3>1 DEF SoftDelete
  <2>17. CASE VisitError
    <3>1. Least(listed) \in File
      BY <2>17, LeastType DEF VisitError
    <3>2. seen' \subseteq Id
      BY <2>17, <3>1 DEF VisitError, MarkSeen, Known
    <3> QED
      BY <2>17, <3>1, <3>2 DEF VisitError
  <2>18. CASE EnqueueError
    BY <2>18, OverType DEF EnqueueError
  <2>19. CASE Fail
    BY <2>19, AbortType DEF Fail
  <2>20. CASE UNCHANGED vars
    BY <2>20 DEF vars
  <2> QED
    BY <2>1, <2>2, <2>3, <2>4, <2>5, <2>6, <2>7, <2>8, <2>9, <2>10, <2>11,
       <2>12, <2>13, <2>14, <2>15, <2>16, <2>17, <2>18, <2>19, <2>20
       DEF Next, ScanStep
<1> QED
  BY <1>1, <1>2, PTL DEF Spec

-----------------------------------------------------------------------------
(* Names *)

(* A key is a root and a path.                                               *)
LEMMA KeyPair ==
    /\ \A l \in Lib, f \in File : <<l, f>> \in Key
    /\ \A k \in Key : k[1] \in Lib /\ k[2] \in File /\ k = <<k[1], k[2]>>
BY DEF Key

(* An id is a path and a content.                                            *)
LEMMA IdPair ==
    /\ \A f \in File, c \in Content : <<f, c>> \in Id /\ <<f, c>>[1] = f
    /\ NoId \notin Id
BY NoIdAssumption DEF Id

(* The two outcomes of UpsertAudiobook: the walk is aborted, or the row is   *)
(* written under the id it has or gets.                                      *)
UpsertDone ==
    LET k == <<cl, cf>>
    IN  /\ pc = "upsert" /\ pc' = "chapters" /\ lib[cl] = "present"
        /\ \/ rowId[k] # NoId /\ rowId' = rowId
           \/ rowId[k] = NoId /\ ~HasRow(cid) /\ rowId' = [rowId EXCEPT ![k] = cid]
        /\ sig' = [sig EXCEPT ![k] = csig] /\ tags' = [tags EXCEPT ![k] = cc]
        /\ deleted' = [deleted EXCEPT ![k] = FALSE] /\ torn' = torn \cup {k}
        /\ UNCHANGED <<libs, walkVars, fileVars, fsVars, lib, subVars, cl,
                       admin, faults, vanished, touched, missed>>

LEMMA UpsertCases ==
    ASSUME TypeOK, Upsert
    PROVE  \/ Abort /\ UNCHANGED <<fsVars, lib, rowVars, subVars, cl, histVars>>
           \/ UpsertDone
<1> DEFINE k == <<cl, cf>>
<1>1. k \in Key
  BY KeyPair DEF TypeOK
<1>2. CASE Abort
  BY <1>2 DEF Upsert, Abort, histVars
<1>3. CASE ~Abort
  <2>1. /\ pc = "upsert" /\ pc' = "chapters" /\ lib[cl] = "present"
        /\ rowId[k] = NoId => ~HasRow(cid)
        /\ rowId' = [rowId EXCEPT ![k] = IF rowId[k] = NoId THEN cid ELSE rowId[k]]
        /\ sig' = [sig EXCEPT ![k] = csig] /\ tags' = [tags EXCEPT ![k] = cc]
        /\ deleted' = [deleted EXCEPT ![k] = FALSE] /\ torn' = torn \cup {k}
        /\ UNCHANGED <<libs, walkVars, fileVars, fsVars, lib, subVars, cl,
                       admin, faults, vanished, touched, missed>>
    BY <1>3 DEF Upsert
  <2>2. rowId[k] # NoId => rowId' = rowId
    BY <1>1, <2>1 DEF TypeOK
  <2>3. rowId[k] = NoId => rowId' = [rowId EXCEPT ![k] = cid]
    BY <2>1
  <2> QED
    BY <2>1, <2>2, <2>3 DEF UpsertDone
<1> QED
  BY <1>2, <1>3

(* Every step keeps one row per id: the primary key sees to new rows.        *)
LEMMA RowsStep ==
    ASSUME TypeOK, RowsNamed, RefsNamed, [Next]_vars
    PROVE  RowsNamed'
<1> USE DEF fsVars, rowVars, subVars, walkVars, fileVars, histVars
<1>1. ASSUME UNCHANGED <<rowId, lib>> PROVE RowsNamed'
  BY <1>1 DEF RowsNamed
<1>2. ASSUME NEW l \in Lib, UpsertLibraryPath(l) PROVE RowsNamed'
  <2>1. rowId' = rowId /\ \A m \in Lib : lib[m] = "present" => lib'[m] = "present"
    BY <1>2 DEF UpsertLibraryPath, TypeOK
  <2> QED
    BY <2>1, KeyPair DEF RowsNamed
<1>3. ASSUME NEW l \in Lib, DeleteLibraryPath(l) PROVE RowsNamed'
  <2>1. \A k \in Key : rowId'[k] # NoId => k[1] # l /\ rowId'[k] = rowId[k]
    BY <1>3 DEF DeleteLibraryPath
  <2>2. \A m \in Lib : m # l => lib'[m] = lib[m]
    BY <1>3 DEF DeleteLibraryPath, TypeOK
  <2> SUFFICES ASSUME NEW k \in Key, rowId'[k] # NoId
               PROVE  /\ rowId'[k][1] = k[2] /\ k[2] \in Under[k[1]]
                      /\ lib'[k[1]] = "present"
                      /\ \A m \in Key : rowId'[m] = rowId'[k] => m = k
    BY DEF RowsNamed
  <2> QED
    BY <2>1, <2>2, KeyPair DEF RowsNamed
<1>4. CASE Upsert
  <2>1. CASE Abort /\ UNCHANGED <<fsVars, lib, rowVars, subVars, cl, histVars>>
    BY <1>1, <2>1
  <2>2. CASE UpsertDone
    <3> DEFINE k == <<cl, cf>>
    <3>1. k \in Key /\ k[1] = cl /\ k[2] = cf
      BY KeyPair DEF TypeOK
    <3>2. CASE rowId' = rowId
      BY <1>1, <2>2, <3>2 DEF UpsertDone
    <3>3. CASE ~HasRow(cid) /\ rowId' = [rowId EXCEPT ![k] = cid]
      <4>1. /\ cid \in Id /\ cid[1] = cf /\ cf \in Under[cl]
            /\ lib' = lib /\ lib[cl] = "present"
        BY <2>2, IdPair DEF UpsertDone, RefsNamed, TypeOK, InFile
      <4>2. /\ rowId'[k] = cid
            /\ \A m \in Key : m # k => rowId'[m] = rowId[m] /\ rowId'[m] # cid
        BY <3>1, <3>3 DEF HasRow, TypeOK
      <4> SUFFICES ASSUME NEW m \in Key, rowId'[m] # NoId
                   PROVE  /\ rowId'[m][1] = m[2] /\ m[2] \in Under[m[1]]
                          /\ lib'[m[1]] = "present"
                          /\ \A n \in Key : rowId'[n] = rowId'[m] => n = m
        BY DEF RowsNamed
      <4>3. CASE m = k
        BY <3>1, <4>1, <4>2, <4>3
      <4>4. CASE m # k
        BY <4>1, <4>2, <4>4 DEF RowsNamed
      <4> QED
        BY <4>3, <4>4
    <3> QED
      BY <2>2, <3>2, <3>3 DEF UpsertDone
  <2> QED
    BY <1>4, <2>1, <2>2, UpsertCases
<1>5. CASE \/ \E f \in File, c \in Content \cup {Absent} : Edit(f, c)
           \/ StartScan \/ ListRefs \/ EndScan \/ NextLibrary \/ ReadDir
           \/ Visit \/ Parse \/ ReplaceChapters \/ UpsertCover \/ Enqueue
           \/ StartSweep \/ (\E i \in Id : SoftDelete(i)) \/ EndSweep
           \/ VisitError \/ EnqueueError \/ Fail \/ UNCHANGED vars
  <2>1. UNCHANGED <<rowId, lib>>
    BY <1>5 DEF Edit, StartScan, ListRefs, EndScan, NextLibrary, ReadDir, Visit,
       Parse, ReplaceChapters, UpsertCover, Enqueue, StartSweep, SoftDelete,
       EndSweep, VisitError, EnqueueError, Fail, vars
  <2> QED
    BY <1>1, <2>1
<1> QED
  BY <1>2, <1>3, <1>4, <1>5 DEF Next, ScanStep

-----------------------------------------------------------------------------
(* What ListRefs returned *)

(* What the refs say of the rows and the roots.                              *)
RefsRows ==
    \A f \in File : Known(f) =>
        /\ refs[f][1] = f /\ f \in Under[cl]
        /\ \A k \in Key : rowId[k] = refs[f] => k = <<cl, f>>
        /\ lib[cl] = "present" => rowId[<<cl, f>>] = refs[f]

(* What a callback knows of its file.                                        *)
FileNamed ==
    pc \in InFile =>
        /\ cf \in Under[cl] /\ cf \notin listed /\ csig \in Content
        /\ cid = IF Known(cf) THEN refs[cf] ELSE <<cf, csig>>
        /\ pc # "parse" => cc \in Content

LEMMA RefsParts ==
    RefsNamed <=>
        /\ \A l \in libs : lib[l] # "new"
        /\ pc \notin {"idle", "next"} => cl \in libs
        /\ pc \in {"idle", "next"} => \A f \in File : ~Known(f)
        /\ RefsRows
        /\ listed \subseteq Under[cl]
        /\ pc \in {"idle", "next", "readdir"} => listed = {}
        /\ FileNamed
BY DEF RefsNamed, RefsRows, FileNamed

(* Between two walks there are no refs.                                      *)
LEMMA RefsOver ==
    ASSUME WalkOver, pc' \in {"idle", "next"}, \A l \in libs' : lib'[l] # "new"
    PROVE  RefsNamed'
<1>1. \A f \in File : refs'[f] = NoId
  BY DEF WalkOver
<1>2. listed' = {} /\ pc' \notin InFile
  BY DEF WalkOver, InFile
<1> QED
  BY <1>1, <1>2 DEF RefsNamed, Known

LEMMA RefsStep ==
    ASSUME TypeOK, RowsNamed, RefsNamed, [Next]_vars
    PROVE  RefsNamed'
<1> USE DEF fsVars, rowVars, subVars, walkVars, fileVars, histVars
<1>a. /\ \A l \in libs : lib[l] # "new"
      /\ pc \notin {"idle", "next"} => cl \in libs
      /\ pc \in {"idle", "next"} => \A f \in File : ~Known(f)
      /\ RefsRows
      /\ listed \subseteq Under[cl]
      /\ pc \in {"idle", "next", "readdir"} => listed = {}
      /\ FileNamed
  BY RefsParts
<1>b. ASSUME Abort, UNCHANGED <<lib>> PROVE RefsNamed'
  BY <1>b, RefsOver DEF Abort
<1>c. ASSUME UNCHANGED <<rowId, lib, cl, refs>> PROVE RefsRows'
  BY <1>a, <1>c DEF RefsRows, Known
<1>d. ASSUME UNCHANGED <<rowId, lib, libs, cl, refs, listed>>, FileNamed',
             pc' \notin {"idle", "next", "readdir"}, pc \notin {"idle", "next"}
      PROVE  RefsNamed'
  <2>1. RefsRows'
    BY <1>c, <1>d
  <2> QED
    BY <1>a, <1>d, <2>1 DEF RefsNamed, RefsRows, FileNamed
<1>1. CASE UNCHANGED <<rowId, lib, libs, cl, refs, listed, pc, fileVars>>
  BY <1>1 DEF RefsNamed, Known
<1>2. ASSUME NEW l \in Lib, UpsertLibraryPath(l) PROVE RefsNamed'
  <2>1. /\ \A m \in libs : lib'[m] # "new"
        /\ \A m \in Lib : lib[m] # "new" => lib'[m] = lib[m]
        /\ UNCHANGED <<rowId, libs, cl, refs, listed, pc, fileVars>>
    BY <1>2, <1>a DEF UpsertLibraryPath, TypeOK
  <2>2. RefsRows'
    <3>1. \A f \in File : Known(f) => lib[cl] # "new"
      BY <1>a
    <3> QED
      BY <1>a, <2>1, <3>1 DEF RefsRows, Known, TypeOK
  <2> QED
    BY <1>a, <2>1, <2>2 DEF RefsNamed, RefsRows, FileNamed, Known
<1>3. ASSUME NEW l \in Lib, DeleteLibraryPath(l) PROVE RefsNamed'
  <2>1. /\ \A m \in libs : lib'[m] # "new"
        /\ \A m \in Lib : lib'[m] = "present" => m # l /\ lib[m] = "present"
        /\ \A k \in Key : rowId'[k] = IF k[1] = l THEN NoId ELSE rowId[k]
        /\ UNCHANGED <<libs, cl, refs, listed, pc, fileVars>>
    BY <1>3, <1>a DEF DeleteLibraryPath, TypeOK
  <2>2. RefsRows'
    BY <1>a, <2>1, KeyPair DEF RefsRows, Known, TypeOK
  <2> QED
    BY <1>a, <2>1, <2>2 DEF RefsNamed, RefsRows, FileNamed, Known
<1>4. CASE StartScan
  <2>1. /\ \A m \in libs' : lib'[m] # "new"
        /\ pc = "idle" /\ pc' = "next"
        /\ UNCHANGED <<rowId, cl, refs, lib, listed>>
    BY <1>4 DEF StartScan
  <2> QED
    BY <1>a, <2>1 DEF RefsNamed, Known, InFile
<1>5. CASE ListRefs
  <2>1. /\ pc = "next" /\ pc' = "readdir" /\ libs # {} /\ cl' = Least(libs)
        /\ refs' = [f \in File |-> IF Live(<<cl', f>>) THEN rowId[<<cl', f>>] ELSE NoId]
        /\ UNCHANGED <<rowId, lib, libs, listed>>
    BY <1>5 DEF ListRefs
  <2>2. cl' \in libs /\ cl' \in Lib
    BY <2>1, LeastType DEF TypeOK
  <2>3. listed' = {} /\ pc' \notin InFile
    BY <1>a, <2>1 DEF InFile
  <2>4. ASSUME NEW f \in File, refs'[f] # NoId
        PROVE  /\ refs'[f][1] = f /\ f \in Under[cl']
               /\ \A k \in Key : rowId'[k] = refs'[f] => k = <<cl', f>>
               /\ rowId'[<<cl', f>>] = refs'[f]
    <3>1. refs'[f] = rowId[<<cl', f>>] /\ rowId[<<cl', f>>] # NoId
      BY <2>1, <2>4 DEF Live
    <3>2. <<cl', f>> \in Key /\ <<cl', f>>[1] = cl' /\ <<cl', f>>[2] = f
      BY <2>2, KeyPair
    <3>3. rowId' = rowId
      BY <2>1
    <3> QED
      BY <3>1, <3>2, <3>3 DEF RowsNamed
  <2> QED
    BY <1>a, <2>1, <2>2, <2>3, <2>4 DEF RefsNamed, Known
<1>6. CASE EndScan
  <2>1. /\ pc = "next" /\ pc' = "idle"
        /\ UNCHANGED <<rowId, cl, refs, lib, libs, listed>>
    BY <1>6 DEF EndScan
  <2> QED
    BY <1>a, <2>1 DEF RefsNamed, Known, InFile
<1>7. CASE NextLibrary
  BY <1>7, <1>a, RefsOver DEF NextLibrary
<1>8. CASE ReadDir
  <2>1. /\ pc = "readdir" /\ pc' = "visit" /\ listed' \subseteq Under[cl]
        /\ UNCHANGED <<rowId, cl, refs, lib, libs>>
    BY <1>8 DEF ReadDir
  <2> QED
    BY <1>a, <2>1 DEF RefsNamed, RefsRows, Known, InFile
<1>9. CASE Visit
  <2> DEFINE f == Least(listed)
             skip == \/ disk[f] \in Irregular \cup {Absent}
                     \/ Known(f) /\ refSig[f] = disk[f]
  <2>1. f \in listed /\ f \in File /\ f \in Under[cl]
    BY <1>9, <1>a, LeastType DEF Visit, TypeOK
  <2>2. /\ pc = "visit" /\ listed' = listed \ {f}
        /\ UNCHANGED <<rowId, cl, refs, lib, libs>>
        /\ pc' = IF skip THEN "visit" ELSE "parse"
    BY <1>9 DEF Visit
  <2>3. FileNamed'
    <3>1. CASE skip
      BY <2>2, <3>1 DEF FileNamed, InFile
    <3>2. CASE ~skip
      <4>1. /\ cf' = f /\ csig' = disk[f] /\ pc' = "parse"
            /\ cid' = IF Known(f) THEN refs[f] ELSE <<f, disk[f]>>
        BY <1>9, <3>2 DEF Visit
      <4>2. disk[f] \in Content
        BY <2>1, <3>2 DEF TypeOK
      <4> QED
        BY <2>1, <2>2, <4>1, <4>2 DEF FileNamed, Known
    <3> QED
      BY <3>1, <3>2
  <2>4. RefsRows'
    BY <1>c, <2>2
  <2> QED
    BY <1>a, <2>2, <2>3, <2>4 DEF RefsNamed, RefsRows, FileNamed
<1>10. CASE Parse
  <2>1. /\ pc = "parse" /\ pc' \in {"visit", "upsert"}
        /\ UNCHANGED <<rowId, cl, refs, lib, libs, listed>>
    BY <1>10 DEF Parse
  <2>2. pc' = "upsert" => UNCHANGED <<cf, cid, csig>> /\ cc' \in Content
    BY <1>10 DEF Parse
  <2>3. FileNamed'
    BY <1>a, <2>1, <2>2 DEF FileNamed, InFile, Known
  <2> QED
    BY <1>d, <2>1, <2>3
<1>11. CASE Upsert
  <2>1. CASE Abort /\ UNCHANGED <<fsVars, lib, rowVars, subVars, cl, histVars>>
    BY <1>b, <2>1
  <2>2. CASE UpsertDone
    <3> DEFINE k == <<cl, cf>>
    <3>1. /\ pc = "upsert" /\ pc' = "chapters" /\ lib[cl] = "present"
          /\ \/ rowId[k] # NoId /\ rowId' = rowId
             \/ rowId[k] = NoId /\ rowId' = [rowId EXCEPT ![k] = cid]
          /\ UNCHANGED <<cl, refs, lib, libs, listed, cf, cid, csig, cc>>
      BY <2>2 DEF UpsertDone
    <3>2. FileNamed'
      BY <1>a, <3>1 DEF FileNamed, InFile, Known
    <3>3. RefsRows'
      <4>1. CASE rowId' = rowId
        BY <1>c, <3>1, <4>1
      <4>2. CASE rowId[k] = NoId /\ rowId' = [rowId EXCEPT ![k] = cid]
        <5>1. k \in Key /\ cid \in Id /\ cid[1] = cf /\ refs[cf] = NoId
          BY <1>a, <3>1, <4>2, IdPair, KeyPair
             DEF FileNamed, InFile, TypeOK, RefsRows, Known
        <5>2. \A m \in Key : rowId'[m] = IF m = k THEN cid ELSE rowId[m]
          BY <4>2, <5>1 DEF TypeOK
        <5>3. ASSUME NEW f \in File, refs[f] # NoId
              PROVE  /\ \A m \in Key : rowId'[m] = refs[f] => m = <<cl, f>>
                     /\ rowId'[<<cl, f>>] = refs[f]
          <6>1. /\ refs[f][1] = f /\ f # cf
                /\ \A m \in Key : rowId[m] = refs[f] => m = <<cl, f>>
                /\ rowId[<<cl, f>>] = refs[f]
            BY <1>a, <3>1, <5>1, <5>3 DEF RefsRows, Known
          <6>2. <<cl, f>> \in Key /\ <<cl, f>> # k
            BY <6>1, KeyPair DEF TypeOK
          <6> QED
            BY <5>1, <5>2, <6>1, <6>2
        <5> QED
          BY <1>a, <3>1, <5>3 DEF RefsRows, Known
      <4> QED
        BY <3>1, <4>1, <4>2
    <3> QED
      BY <1>a, <3>1, <3>2, <3>3 DEF RefsNamed, RefsRows, FileNamed
  <2> QED
    BY <1>11, <2>1, <2>2, UpsertCases
<1>12. CASE ReplaceChapters \/ UpsertCover
  <2>1. CASE Abort
    BY <1>b, <1>12, <2>1 DEF ReplaceChapters, UpsertCover
  <2>2. CASE ~Abort
    <3>1. /\ pc \in {"chapters", "cover"} /\ pc' \in {"cover", "enqueue"}
          /\ UNCHANGED <<rowId, cl, refs, lib, libs, listed, cf, cid, csig, cc>>
      BY <1>12, <2>2 DEF ReplaceChapters, UpsertCover
    <3>2. FileNamed'
      BY <1>a, <3>1 DEF FileNamed, InFile, Known
    <3> QED
      BY <1>d, <3>1, <3>2
  <2> QED
    BY <2>1, <2>2
<1>13. CASE Enqueue \/ EnqueueError
  <2>1. /\ pc = "enqueue" /\ pc' = "visit"
        /\ UNCHANGED <<rowId, cl, refs, lib, libs, listed>>
    BY <1>13 DEF Enqueue, EnqueueError
  <2>2. FileNamed'
    BY <2>1 DEF FileNamed, InFile
  <2> QED
    BY <1>d, <2>1, <2>2
<1>14. CASE StartSweep \/ EndSweep
  <2>1. /\ pc \in {"visit", "sweep"} /\ pc' \in {"sweep", "walked"}
        /\ UNCHANGED <<rowId, cl, refs, lib, libs, listed>>
    BY <1>14 DEF StartSweep, EndSweep
  <2>2. FileNamed'
    BY <2>1 DEF FileNamed, InFile
  <2> QED
    BY <1>d, <2>1, <2>2
<1>15. CASE VisitError
  <2>1. /\ pc = "visit" /\ pc' = "visit" /\ listed' \subseteq listed
        /\ UNCHANGED <<rowId, cl, refs, lib, libs>>
    BY <1>15 DEF VisitError
  <2>2. FileNamed' /\ RefsRows'
    BY <1>c, <2>1 DEF FileNamed, InFile
  <2> QED
    BY <1>a, <2>1, <2>2 DEF RefsNamed, RefsRows, FileNamed
<1>16. CASE Fail
  BY <1>b, <1>16 DEF Fail
<1>17. CASE \/ \E f \in File, c \in Content \cup {Absent} : Edit(f, c)
            \/ \E i \in Id : SoftDelete(i)
            \/ UNCHANGED vars
  <2>1. UNCHANGED <<rowId, lib, libs, cl, refs, listed, pc, fileVars>>
    BY <1>17 DEF Edit, SoftDelete, vars
  <2> QED
    BY <1>1, <2>1
<1> QED
  BY <1>2, <1>3, <1>4, <1>5, <1>6, <1>7, <1>8, <1>9, <1>10, <1>11, <1>12,
     <1>13, <1>14, <1>15, <1>16, <1>17 DEF Next, ScanStep

-----------------------------------------------------------------------------
(* The sweep *)

LEMMA SweepStep ==
    ASSUME TypeOK, RefsNamed, SweepSafe, [Next]_vars
    PROVE  SweepSafe'
<1> USE DEF fsVars, rowVars, subVars, walkVars, fileVars, histVars
<1>a. ASSUME sweep' = {}, pc' \notin InDir \cup {"sweep", "walked"} PROVE SweepSafe'
  BY <1>a DEF SweepSafe, InDir, InFile
<1>b. ASSUME UNCHANGED <<refs, listed>>, seen \subseteq seen', vanished \subseteq vanished',
             sweep' = {}, pc \in InDir, pc' \in InDir
      PROVE  SweepSafe'
  BY <1>b DEF SweepSafe, InDir, InFile, Known
<1>c. ASSUME Abort PROVE SweepSafe'
  BY <1>a, <1>c DEF Abort, WalkOver, InDir, InFile
<1>1. CASE \/ \E f \in File, c \in Content \cup {Absent} : Edit(f, c)
           \/ \E l \in Lib : UpsertLibraryPath(l) \/ DeleteLibraryPath(l)
           \/ UNCHANGED vars
  <2>1. UNCHANGED <<refs, listed, seen, sweep, pc>> /\ vanished \subseteq vanished'
    BY <1>1 DEF Edit, UpsertLibraryPath, DeleteLibraryPath, vars
  <2> QED
    BY <2>1 DEF SweepSafe, Known
<1>2. CASE StartScan \/ ListRefs \/ EndScan \/ NextLibrary
  <2>1. pc # "sweep" /\ pc' \in {"idle", "next", "readdir"} /\ (sweep' = sweep \/ sweep' = {})
    BY <1>2 DEF StartScan, ListRefs, EndScan, NextLibrary, WalkOver
  <2>2. sweep' = {} /\ pc' \notin InDir \cup {"sweep", "walked"}
    BY <2>1 DEF SweepSafe, InDir, InFile
  <2> QED
    BY <1>a, <2>2
<1>3. CASE ReadDir
  <2>1. /\ pc = "readdir" /\ pc' = "visit" /\ UNCHANGED <<refs, seen, sweep>>
        /\ listed' = {f \in Under[cl] : disk[f] # Absent}
        /\ vanished' = {f \in File : disk[f] = Absent}
    BY <1>3 DEF ReadDir
  <2>2. \A f \in File : Known(f) => f \in Under[cl]
    BY DEF RefsNamed
  <2> QED
    BY <2>1, <2>2 DEF SweepSafe, InDir, Known
<1>4. CASE Visit \/ VisitError
  <2> DEFINE f == Least(listed)
  <2>1. /\ pc = "visit" /\ pc' \in InDir /\ listed' = listed \ {f}
        /\ seen' = IF Known(f) THEN seen \cup {refs[f]} ELSE seen
        /\ UNCHANGED <<refs, sweep, vanished>>
    BY <1>4 DEF Visit, VisitError, MarkSeen, InDir, InFile
  <2>2. pc \in InDir /\ pc' \notin {"sweep", "walked"} /\ sweep' = {}
    BY <2>1 DEF InDir, InFile, SweepSafe
  <2>3. ASSUME NEW g \in File, Known(g)
        PROVE  g \in listed' \cup vanished' \/ refs[g] \in seen'
    <3>1. g \in listed \cup vanished \/ refs[g] \in seen
      BY <2>2, <2>3 DEF SweepSafe
    <3> QED
      BY <2>1, <2>3, <3>1
  <2> QED
    BY <2>1, <2>2, <2>3 DEF SweepSafe, Known
<1>5. CASE Parse \/ Enqueue \/ EnqueueError
  <2>1. /\ pc \in InDir /\ pc' \in InDir /\ pc # "sweep"
        /\ UNCHANGED <<refs, listed, vanished, sweep>> /\ seen \subseteq seen'
    BY <1>5 DEF Parse, Enqueue, EnqueueError, InDir, InFile
  <2> QED
    BY <1>b, <2>1 DEF SweepSafe
<1>6. CASE Upsert \/ ReplaceChapters \/ UpsertCover
  <2>1. CASE Abort
    BY <1>c, <2>1
  <2>2. CASE ~Abort
    <3>1. /\ pc \in InDir /\ pc' \in InDir /\ pc # "sweep"
          /\ UNCHANGED <<refs, listed, vanished, sweep, seen>>
      BY <1>6, <2>2 DEF Upsert, ReplaceChapters, UpsertCover, InDir, InFile
    <3> QED
      BY <1>b, <3>1 DEF SweepSafe
  <2> QED
    BY <2>1, <2>2
<1>7. CASE StartSweep
  <2>1. /\ pc = "visit" /\ listed = {} /\ pc' = "sweep"
        /\ sweep' = {refs[f] : f \in {g \in File : Known(g)}} \ seen
        /\ UNCHANGED <<refs, listed, seen, vanished>>
    BY <1>7 DEF StartSweep
  <2> QED
    BY <2>1 DEF SweepSafe, InDir, Known
<1>8. ASSUME NEW i \in Id, SoftDelete(i) PROVE SweepSafe'
  <2>1. UNCHANGED <<pc, refs, listed, seen, vanished>> /\ sweep' = sweep \ {i} /\ pc = "sweep"
    BY <1>8 DEF SoftDelete
  <2> QED
    BY <2>1 DEF SweepSafe, Known
<1>9. CASE EndSweep
  <2>1. /\ pc = "sweep" /\ pc' = "walked" /\ sweep = {}
        /\ UNCHANGED <<refs, listed, seen, vanished, sweep>>
    BY <1>9 DEF EndSweep
  <2> QED
    BY <2>1 DEF SweepSafe, Known, InDir, InFile
<1>10. CASE Fail
  BY <1>c, <1>10 DEF Fail
<1> QED
  BY <1>1, <1>2, <1>3, <1>4, <1>5, <1>6, <1>7, <1>8, <1>9, <1>10 DEF Next, ScanStep

(* The inductive invariant of the walk without its files.                    *)
WalkInv == TypeOK /\ RowsNamed /\ RefsNamed /\ SweepSafe

LEMMA WalkInvInit == Init => WalkInv
<1> SUFFICES ASSUME Init PROVE WalkInv
  OBVIOUS
<1>1. TypeOK
  BY LeastType DEF Init, TypeOK, Pc, InFile
<1>2. RowsNamed
  BY DEF Init, RowsNamed
<1>3. RefsNamed
  BY DEF Init, RefsNamed, Known, InFile
<1>4. SweepSafe
  BY DEF Init, SweepSafe, Known, InFile, InDir
<1> QED
  BY <1>1, <1>2, <1>3, <1>4 DEF WalkInv

LEMMA WalkInvHolds == Spec => []WalkInv
<1>1. TypeOK /\ TypeOK' /\ WalkInv /\ [Next]_vars => WalkInv'
  BY RowsStep, RefsStep, SweepStep DEF WalkInv
<1> QED
  BY <1>1, WalkInvInit, ScanTypeCorrect, PTL DEF Spec

(* NoFalseDelete: SoftDelete hides no book whose file was there all the time *)
(* since ReadDir, whatever roots overlap and whatever fails.                 *)
THEOREM NoFalseDeletes == Spec => NoFalseDelete
<1> DEFINE Kept == \A k \in Key : Live(k) /\ deleted'[k] => k[2] \in vanished
<1>1. WalkInv /\ [Next]_vars => [Kept]_vars
  <2> SUFFICES ASSUME WalkInv, [Next]_vars PROVE Kept \/ UNCHANGED vars
    OBVIOUS
  <2> USE DEF fsVars, rowVars, subVars, walkVars, fileVars, histVars, WalkInv
  <2>a. ASSUME deleted' = deleted PROVE Kept
    BY <2>a DEF Live
  <2>1. ASSUME NEW l \in Lib, DeleteLibraryPath(l) PROVE Kept
    <3>1. deleted' = [k \in Key |-> IF k[1] = l THEN FALSE ELSE deleted[k]]
      BY <2>1 DEF DeleteLibraryPath
    <3> QED
      BY <3>1, Zenon DEF Live
  <2>2. CASE Upsert
    <3>1. CASE Abort /\ UNCHANGED <<fsVars, lib, rowVars, subVars, cl, histVars>>
      BY <2>a, <3>1
    <3>2. CASE UpsertDone
      <4>1. deleted' = [deleted EXCEPT ![<<cl, cf>>] = FALSE]
        BY <3>2 DEF UpsertDone
      <4>2. \A k \in Key : deleted'[k] = deleted[k] \/ deleted'[k] = FALSE
        BY <4>1 DEF TypeOK
      <4> QED
        BY <4>2, Zenon DEF Live
    <3> QED
      BY <2>2, <3>1, <3>2, UpsertCases
  <2>3. ASSUME NEW i \in Id, SoftDelete(i) PROVE Kept
    <3>1. i \in sweep /\ pc = "sweep"
      BY <2>3 DEF SoftDelete
    <3>2. PICK f \in File : Known(f) /\ i = refs[f]
      BY <3>1 DEF SweepSafe
    <3>3. \A k \in Key : rowId[k] = i => k = <<cl, f>>
      BY <3>2 DEF RefsNamed
    <3>4. f \in vanished
      BY <3>1, <3>2 DEF SweepSafe
    <3>5. \A k \in Key : rowId[k] = i => k[2] \in vanished
      BY <3>3, <3>4
    <3>6. deleted' = [k \in Key |-> deleted[k] \/ rowId[k] = i]
      BY <2>3 DEF SoftDelete
    <3> QED
      BY <3>5, <3>6, Zenon DEF Live
  <2>4. CASE \/ \E f \in File, c \in Content \cup {Absent} : Edit(f, c)
             \/ \E l \in Lib : UpsertLibraryPath(l)
             \/ StartScan \/ ListRefs \/ EndScan \/ NextLibrary \/ ReadDir
             \/ Visit \/ Parse \/ ReplaceChapters \/ UpsertCover \/ Enqueue
             \/ StartSweep \/ EndSweep \/ VisitError \/ EnqueueError \/ Fail
    <3>1. deleted' = deleted
      BY <2>4 DEF Edit, UpsertLibraryPath, StartScan, ListRefs, EndScan, NextLibrary,
         ReadDir, Visit, Parse, ReplaceChapters, UpsertCover, Enqueue, StartSweep,
         EndSweep, VisitError, EnqueueError, Fail
    <3> QED
      BY <2>a, <3>1
  <2> QED
    BY <2>1, <2>2, <2>3, <2>4 DEF Next, ScanStep
<1> QED
  BY <1>1, WalkInvHolds, PTL DEF Spec, NoFalseDelete

-----------------------------------------------------------------------------
(* Files and rows *)

(* What the walk knows of a file it has in hand or has not come to yet is    *)
(* kept by steps that leave the file, its row and the refs alone.            *)
RowKept(f) ==
    /\ cl' = cl /\ disk'[f] = disk[f]
    /\ rowId'[<<cl, f>>] = rowId[<<cl, f>>] /\ sig'[<<cl, f>>] = sig[<<cl, f>>]
    /\ deleted'[<<cl, f>>] = deleted[<<cl, f>>]
    /\ UNCHANGED <<refs, refSig>>

LEMMA RowKeptFacts ==
    ASSUME NEW f \in File, RowKept(f)
    PROVE  /\ AsListed(f)' <=> AsListed(f)
           /\ InStep(f)' <=> InStep(f)
           /\ Live(<<cl, f>>)' <=> Live(<<cl, f>>)
           /\ Known(f)' <=> Known(f)
           /\ UNCHANGED <<cl, refs>> /\ disk'[f] = disk[f]
           /\ rowId'[<<cl, f>>] = rowId[<<cl, f>>]
<1>1. Live(<<cl, f>>)' <=> Live(<<cl, f>>)
  BY DEF RowKept, Live
<1>2. Known(f)' <=> Known(f)
  BY DEF RowKept, Known
<1> QED
  BY <1>1, <1>2 DEF RowKept, AsListed, InStep

LEMMA FileKept ==
    ASSUME NEW f \in File, RowKept(f), FileSoFar(f),
           UNCHANGED <<listed, seen, sweep, pc, cf, csig>>
    PROVE  FileSoFar(f)'
BY RowKeptFacts DEF FileSoFar

(* A callback that goes on without touching the row or the refs.             *)
LEMMA FileGoesOn ==
    ASSUME NEW f \in File, RowKept(f), FileSoFar(f),
           pc \in InDir, pc' \in InDir,
           UNCHANGED <<listed, seen, sweep, cf, csig>>,
           pc' \in InFile => pc \in InFile,
           disk[f] \in Good /\ pc \in {"parse", "upsert"} /\ cf = f =>
               pc' \in {"parse", "upsert"}
    PROVE  FileSoFar(f)'
<1>1. pc' \notin {"readdir", "sweep", "walked"}
  BY DEF InDir, InFile
<1> QED
  BY <1>1, RowKeptFacts DEF FileSoFar

(* WalkDir goes on to another file.                                          *)
LEMMA OtherVisited ==
    ASSUME NEW f \in File, NEW g \in File, f # g, RowKept(f), FileSoFar(f),
           pc = "visit", pc' \in {"visit", "parse"}, listed' = listed \ {g},
           pc' = "parse" => cf' = g,
           seen \subseteq seen', \A i \in seen' \ seen : i[1] = g
    PROVE  FileSoFar(f)'
<1>1. f \in listed' <=> f \in listed
  OBVIOUS
<1>2. \A i \in seen' : i[1] = f => i \in seen
  OBVIOUS
<1>3. pc \in InDir /\ pc' \in InDir /\ pc' \notin {"readdir", "sweep", "walked"}
      /\ (pc' \in InFile => pc' = "parse")
  BY DEF InDir, InFile
<1>4. /\ pc' = "readdir" \/ f \in listed' => AsListed(f)'
      /\ f \in listed' => disk'[f] # Absent
      /\ \A i \in seen' : i[1] = f => disk'[f] # Absent
      /\ pc' \in InFile /\ cf' = f => csig' = disk'[f]
  BY <1>1, <1>2, <1>3, RowKeptFacts DEF FileSoFar
<1>5. pc' \in InDir \cup {"sweep", "walked"} /\ f \notin listed' =>
          /\ disk'[f] # Absent /\ Known(f)' => refs'[f] \in seen'
          /\ disk'[f] \in Good => InStep(f)'
          /\ disk'[f] = Absent => AsListed(f)'
  BY <1>1, <1>3, RowKeptFacts DEF FileSoFar
<1> QED
  BY <1>3, <1>4, <1>5 DEF FileSoFar

(* Every step keeps a file nobody touches in the state the walk thinks it is *)
(* in.                                                                       *)
LEMMA WalkStep ==
    ASSUME WalkInv, TypeOK', WalkSoFar, [Next]_vars
    PROVE  WalkSoFar'
<1> USE DEF fsVars, rowVars, subVars, walkVars, fileVars, histVars, WalkInv
<1> SUFFICES ASSUME pc' \notin {"idle", "next"}, lib'[cl'] = "present",
                    NEW f \in File, f \in Under[cl'], f \notin touched'
             PROVE  FileSoFar(f)'
  BY UnderAssumption DEF WalkSoFar, TypeOK
<1>a. <<cl, f>> \in Key
  BY KeyPair DEF TypeOK
<1>b. ASSUME UNCHANGED <<cl, lib>>, touched \subseteq touched', pc \notin {"idle", "next"}
      PROVE  FileSoFar(f)
  BY <1>b DEF WalkSoFar
<1>c. ASSUME UNCHANGED <<cl, disk, rowId, sig, deleted, refs, refSig>> PROVE RowKept(f)
  BY <1>c DEF RowKept
<1>d. ASSUME Abort PROVE FALSE
  BY <1>d DEF Abort
<1>1. ASSUME NEW g \in File, NEW c \in Content \cup {Absent}, Edit(g, c)
      PROVE  FileSoFar(f)'
  <2>1. /\ UNCHANGED <<cl, lib, rowId, sig, deleted, refs, refSig, listed, seen, sweep,
                       pc, cf, csig>>
        /\ disk' = [disk EXCEPT ![g] = c] /\ touched' = touched \cup {g}
    BY <1>1 DEF Edit
  <2>2. disk'[f] = disk[f]
    BY <2>1 DEF TypeOK
  <2> QED
    BY <1>b, <2>1, <2>2, FileKept DEF RowKept
<1>2. ASSUME NEW l \in Lib, UpsertLibraryPath(l) PROVE FileSoFar(f)'
  <2>1. /\ UNCHANGED <<cl, rowId, sig, deleted, refs, refSig, listed, seen, sweep,
                       pc, cf, csig, disk, touched>>
        /\ lib' = [lib EXCEPT ![l] = "present"] /\ lib[l] = "new"
    BY <1>2 DEF UpsertLibraryPath
  <2>2. lib[cl] # "new"
    BY <2>1 DEF RefsNamed
  <2>3. lib[cl] = "present"
    BY <2>1, <2>2 DEF TypeOK
  <2>4. FileSoFar(f)
    BY <2>1, <2>3 DEF WalkSoFar
  <2> QED
    BY <1>c, <2>1, <2>4, FileKept
<1>3. ASSUME NEW l \in Lib, DeleteLibraryPath(l) PROVE FileSoFar(f)'
  <2>1. /\ UNCHANGED <<cl, refs, refSig, listed, seen, sweep, pc, cf, csig, disk, touched>>
        /\ lib' = [lib EXCEPT ![l] = "gone"]
        /\ rowId' = [k \in Key |-> IF k[1] = l THEN NoId ELSE rowId[k]]
        /\ sig' = [k \in Key |-> IF k[1] = l THEN Absent ELSE sig[k]]
        /\ deleted' = [k \in Key |-> IF k[1] = l THEN FALSE ELSE deleted[k]]
    BY <1>3 DEF DeleteLibraryPath
  <2>2. cl # l /\ lib[cl] = "present" /\ <<cl, f>>[1] # l
    BY <2>1 DEF TypeOK
  <2>3. RowKept(f)
    BY <1>a, <2>1, <2>2 DEF RowKept
  <2>4. FileSoFar(f)
    BY <2>1, <2>2 DEF WalkSoFar
  <2> QED
    BY <2>1, <2>3, <2>4, FileKept
<1>4. CASE ListRefs
  <2>1. /\ refs' = [g \in File |-> IF Live(<<cl', g>>) THEN rowId[<<cl', g>>] ELSE NoId]
        /\ refSig' = [g \in File |-> IF Live(<<cl', g>>) THEN sig[<<cl', g>>] ELSE Absent]
        /\ pc = "next" /\ pc' = "readdir" /\ seen' = {}
        /\ UNCHANGED <<rowId, sig, deleted, listed>>
    BY <1>4 DEF ListRefs
  <2>2. listed' = {} /\ pc' \notin InDir \cup {"sweep", "walked"}
    BY <2>1 DEF RefsNamed, InDir, InFile
  <2>3. AsListed(f)'
    BY <2>1 DEF AsListed, Known, Live
  <2> QED
    BY <2>1, <2>2, <2>3 DEF FileSoFar, InDir
<1>5. CASE ReadDir
  <2>1. /\ pc = "readdir" /\ pc' = "visit"
        /\ listed' = {g \in Under[cl] : disk[g] # Absent}
        /\ UNCHANGED <<lib, cl, disk, rowId, sig, deleted, refs, refSig, seen, touched>>
    BY <1>5 DEF ReadDir
  <2>2. FileSoFar(f) /\ RowKept(f)
    BY <1>b, <1>c, <2>1
  <2>3. /\ f \in listed' <=> disk[f] # Absent
        /\ Absent \notin Good /\ pc' \notin InFile
    BY <2>1, ContentAssumption DEF Absent, InFile, Good
  <2> QED
    BY <2>1, <2>2, <2>3, RowKeptFacts DEF FileSoFar
<1>6. CASE Visit
  <2> DEFINE g == Least(listed)
             skip == \/ disk[g] \in Irregular \cup {Absent}
                     \/ Known(g) /\ refSig[g] = disk[g]
  <2>1. g \in listed /\ g \in File
    BY <1>6, LeastType DEF Visit, TypeOK
  <2>2. /\ pc = "visit" /\ listed' = listed \ {g}
        /\ pc' = IF skip THEN "visit" ELSE "parse"
        /\ seen' = IF Known(g) THEN seen \cup {refs[g]} ELSE seen
        /\ UNCHANGED <<lib, cl, disk, rowId, sig, deleted, refs, refSig, touched>>
    BY <1>6 DEF Visit, MarkSeen
  <2>3. ~skip => cf' = g /\ csig' = disk[g]
    BY <1>6 DEF Visit
  <2>4. FileSoFar(f) /\ RowKept(f)
    BY <1>b, <1>c, <2>2
  <2>5. CASE f # g
    <3>1. Known(g) => refs[g][1] = g
      BY <2>1 DEF RefsNamed
    <3> QED
      BY <2>1, <2>2, <2>3, <2>4, <2>5, <3>1, OtherVisited
  <2>6. CASE f = g
    <3>1. AsListed(f) /\ disk[f] # Absent /\ f \notin listed'
      BY <2>1, <2>2, <2>4, <2>6 DEF FileSoFar
    <3>2. skip /\ disk[f] \in Good => InStep(f)
      BY <2>6, <3>1 DEF AsListed, InStep, Good
    <3>3. Known(f) => refs[f] \in seen'
      BY <2>2, <2>6
    <3>4. pc' \in InDir /\ pc' \notin {"readdir", "sweep", "walked"}
          /\ (pc' \in InFile => ~skip)
      BY <2>2 DEF InDir, InFile
    <3> QED
      BY <2>2, <2>3, <2>4, <2>6, <3>1, <3>2, <3>3, <3>4, RowKeptFacts DEF FileSoFar
  <2> QED
    BY <2>5, <2>6
<1>7. CASE VisitError
  <2> DEFINE g == Least(listed)
  <2>1. g \in File
    BY <1>7, LeastType DEF VisitError, TypeOK
  <2>2. /\ pc = "visit" /\ pc' = "visit" /\ listed' = listed \ {g}
        /\ seen' = IF Known(g) THEN seen \cup {refs[g]} ELSE seen
        /\ touched' = touched \cup {g}
        /\ UNCHANGED <<lib, cl, disk, rowId, sig, deleted, refs, refSig>>
    BY <1>7 DEF VisitError, MarkSeen
  <2>3. FileSoFar(f) /\ RowKept(f) /\ f # g
    BY <1>b, <1>c, <2>2
  <2>4. Known(g) => refs[g][1] = g
    BY <2>1 DEF RefsNamed
  <2> QED
    BY <2>1, <2>2, <2>3, <2>4, OtherVisited
<1>8. CASE Parse
  <2>1. /\ pc = "parse" /\ pc' \in {"upsert", "visit"}
        /\ pc' = "upsert" => UNCHANGED <<cf, csig>>
        /\ pc' = "visit" => disk[cf] \in Unreadable \cup {Absent}
        /\ UNCHANGED <<lib, cl, disk, rowId, sig, deleted, refs, refSig, touched,
                       listed, seen, sweep>>
    BY <1>8 DEF Parse
  <2>2. FileSoFar(f) /\ RowKept(f)
    BY <1>b, <1>c, <2>1
  <2>3. pc \in InDir /\ pc' \in InDir /\ (pc' \in InFile => pc' = "upsert")
        /\ pc \in InFile /\ (pc' = "visit" => disk[cf] \notin Good)
    BY <2>1, ContentAssumption DEF InDir, InFile, Absent, Good
  <2>4. CASE pc' = "upsert"
    BY <2>1, <2>2, <2>3, <2>4, FileGoesOn
  <2>5. CASE pc' = "visit"
    BY <2>1, <2>2, <2>3, <2>5, RowKeptFacts DEF FileSoFar
  <2> QED
    BY <2>1, <2>4, <2>5
<1>9. CASE Upsert
  <2>1. UpsertDone
    BY <1>9, <1>d, UpsertCases
  <2> DEFINE k == <<cl, cf>>
  <2>2. /\ pc = "upsert" /\ pc' = "chapters"
        /\ \/ rowId[k] # NoId /\ rowId' = rowId
           \/ rowId[k] = NoId /\ rowId' = [rowId EXCEPT ![k] = cid]
        /\ sig' = [sig EXCEPT ![k] = csig] /\ deleted' = [deleted EXCEPT ![k] = FALSE]
        /\ UNCHANGED <<lib, cl, disk, refs, refSig, touched, listed, seen, sweep, cf, csig>>
    BY <2>1 DEF UpsertDone
  <2>3. FileSoFar(f)
    BY <1>b, <2>2
  <2>4. pc \in InFile /\ pc' \in InFile /\ pc \in InDir /\ pc' \in InDir
    BY <2>2 DEF InDir, InFile
  <2>5. k \in Key /\ cid \in Id /\ cid # NoId
    BY <2>4, KeyPair, IdPair DEF TypeOK
  <2>6. CASE f # cf
    <3>1. <<cl, f>> # k
      BY <2>6
    <3>2. rowId'[<<cl, f>>] = rowId[<<cl, f>>] /\ sig'[<<cl, f>>] = sig[<<cl, f>>]
      BY <1>a, <2>2, <2>5, <3>1 DEF TypeOK
    <3>3. deleted'[<<cl, f>>] = deleted[<<cl, f>>]
      BY <1>a, <2>2, <2>5, <3>1 DEF TypeOK
    <3>4. RowKept(f)
      BY <2>2, <3>2, <3>3 DEF RowKept
    <3> QED
      BY <2>2, <2>3, <2>4, <2>6, <3>4, FileGoesOn
  <2>7. CASE f = cf
    <3>1. rowId'[k] # NoId /\ sig'[k] = csig
      BY <2>2, <2>5 DEF TypeOK
    <3>2. deleted'[k] = FALSE
      BY <2>2, <2>5 DEF TypeOK
    <3>3. csig = disk[f] /\ csig \in Content /\ f \notin listed
      BY <2>3, <2>4, <2>7 DEF FileSoFar, RefsNamed
    <3>4. InStep(f)'
      BY <2>2, <2>7, <3>1, <3>2, <3>3 DEF InStep, Live
    <3>5. disk[f] # Absent /\ pc' # "readdir" /\ Known(f)' = Known(f)
      BY <2>2, <3>3, ContentAssumption DEF Absent, Known
    <3> QED
      BY <2>2, <2>3, <2>4, <2>7, <3>3, <3>4, <3>5 DEF FileSoFar
  <2> QED
    BY <2>6, <2>7
<1>10. CASE ReplaceChapters \/ UpsertCover
  <2>1. /\ pc \in {"chapters", "cover"} /\ pc' \in {"cover", "enqueue"}
        /\ UNCHANGED <<lib, cl, disk, rowId, sig, deleted, refs, refSig, touched,
                       listed, seen, sweep, cf, csig>>
    BY <1>10, <1>d DEF ReplaceChapters, UpsertCover
  <2>2. FileSoFar(f) /\ RowKept(f)
    BY <1>b, <1>c, <2>1
  <2>3. pc \in InFile /\ pc \in InDir /\ pc' \in InDir /\ pc \notin {"parse", "upsert"}
    BY <2>1 DEF InDir, InFile
  <2> QED
    BY <2>1, <2>2, <2>3, FileGoesOn
<1>11. CASE Enqueue \/ EnqueueError
  <2>1. /\ pc = "enqueue" /\ pc' = "visit" /\ seen' = seen \cup {cid}
        /\ UNCHANGED <<lib, cl, disk, rowId, sig, deleted, refs, refSig, touched,
                       listed, sweep>>
    BY <1>11 DEF Enqueue, EnqueueError
  <2>2. FileSoFar(f) /\ RowKept(f)
    BY <1>b, <1>c, <2>1
  <2>3. /\ pc \in InFile /\ pc \in InDir /\ pc' \in InDir /\ pc' \notin InFile
        /\ Absent \notin Content
    BY <2>1, ContentAssumption DEF InDir, InFile, Absent
  <2>4. cid[1] = cf /\ csig \in Content
    <3>1. /\ cf \in File /\ csig \in Content
          /\ cid = IF Known(cf) THEN refs[cf] ELSE <<cf, csig>>
      BY <2>3 DEF RefsNamed, TypeOK
    <3>2. Known(cf) => refs[cf][1] = cf
      BY <3>1 DEF RefsNamed
    <3> QED
      BY <3>1, <3>2, IdPair
  <2>5. \A i \in seen' : i[1] = f => disk[f] # Absent
    BY <2>1, <2>2, <2>3, <2>4 DEF FileSoFar
  <2> QED
    BY <2>1, <2>2, <2>3, <2>5, RowKeptFacts DEF FileSoFar
<1>12. CASE StartSweep
  <2>1. /\ pc = "visit" /\ pc' = "sweep" /\ listed = {}
        /\ sweep' = {refs[g] : g \in {h \in File : Known(h)}} \ seen
        /\ UNCHANGED <<lib, cl, disk, rowId, sig, deleted, refs, refSig, touched,
                       listed, seen>>
    BY <1>12 DEF StartSweep
  <2>2. FileSoFar(f) /\ RowKept(f)
    BY <1>b, <1>c, <2>1
  <2>3. pc \in InDir /\ pc' \notin InDir /\ pc' \notin InFile
    BY <2>1 DEF InDir, InFile
  <2>4. disk[f] = Absent /\ Live(<<cl, f>>) => rowId[<<cl, f>>] \in sweep'
    <3>1. SUFFICES ASSUME disk[f] = Absent, Live(<<cl, f>>)
                   PROVE  rowId[<<cl, f>>] \in sweep'
      OBVIOUS
    <3>2. Known(f)
      BY <2>1, <2>2, <2>3, <3>1 DEF FileSoFar, AsListed
    <3>3. refs[f][1] = f /\ rowId[<<cl, f>>] = refs[f]
      BY <2>1, <3>2 DEF RefsNamed
    <3>4. refs[f] \notin seen
      BY <2>2, <3>1, <3>3 DEF FileSoFar
    <3> QED
      BY <2>1, <3>2, <3>3, <3>4
  <2> QED
    BY <2>1, <2>2, <2>3, <2>4, RowKeptFacts DEF FileSoFar
<1>13. ASSUME NEW i \in Id, SoftDelete(i) PROVE FileSoFar(f)'
  <2>1. /\ pc = "sweep" /\ pc' = "sweep" /\ i \in sweep /\ sweep' = sweep \ {i}
        /\ UNCHANGED <<lib, cl, disk, rowId, sig, refs, refSig, touched, listed, seen>>
    BY <1>13 DEF SoftDelete
  <2>2. deleted' = [k \in Key |-> deleted[k] \/ rowId[k] = i]
    BY <1>13 DEF SoftDelete
  <2>3. FileSoFar(f)
    BY <1>b, <2>1
  <2>4. pc' \notin InDir /\ pc' \notin InFile
    BY <2>1 DEF InDir, InFile
  <2>5. CASE rowId[<<cl, f>>] # i
    <3>1. deleted'[<<cl, f>>] = deleted[<<cl, f>>]
      BY <1>a, <2>2, <2>5 DEF TypeOK
    <3>2. RowKept(f)
      BY <2>1, <3>1 DEF RowKept
    <3> QED
      BY <2>1, <2>3, <2>4, <2>5, <3>2, RowKeptFacts DEF FileSoFar
  <2>6. CASE rowId[<<cl, f>>] = i
    <3>1. PICK g \in File : Known(g) /\ i = refs[g]
      BY <2>1 DEF SweepSafe
    <3>2. <<cl, f>> = <<cl, g>>
      <4>1. \A k \in Key : rowId[k] = refs[g] => k = <<cl, g>>
        BY <3>1 DEF RefsNamed
      <4> QED
        BY <1>a, <2>6, <3>1, <4>1, Zenon
    <3>3. Known(f) /\ refs[f] \notin seen /\ listed = {}
      BY <2>1, <3>1, <3>2 DEF SweepSafe
    <3>4. disk[f] = Absent
      BY <2>1, <2>3, <3>3 DEF FileSoFar
    <3>5. deleted'[<<cl, f>>] = TRUE
      BY <1>a, <2>2, <2>6
    <3>6. ~Live(<<cl, f>>)'
      BY <2>1, <3>5 DEF Live
    <3>7. Absent \notin Good
      BY ContentAssumption DEF Absent, Good
    <3> QED
      BY <2>1, <2>3, <2>4, <3>3, <3>4, <3>6, <3>7 DEF FileSoFar
  <2> QED
    BY <2>5, <2>6
<1>14. CASE EndSweep
  <2>1. /\ pc = "sweep" /\ pc' = "walked" /\ sweep = {}
        /\ UNCHANGED <<lib, cl, disk, rowId, sig, deleted, refs, refSig, touched,
                       listed, seen, sweep>>
    BY <1>14 DEF EndSweep
  <2>2. FileSoFar(f) /\ RowKept(f)
    BY <1>b, <1>c, <2>1
  <2>3. pc' \notin InDir /\ pc' \notin InFile
    BY <2>1 DEF InDir, InFile
  <2> QED
    BY <2>1, <2>2, <2>3, RowKeptFacts DEF FileSoFar
<1>15. CASE StartScan \/ EndScan \/ NextLibrary \/ Fail
  BY <1>15, <1>d DEF StartScan, EndScan, NextLibrary, Fail
<1>16. CASE UNCHANGED vars
  <2>1. UNCHANGED <<lib, cl, disk, rowId, sig, deleted, refs, refSig, touched,
                    listed, seen, sweep, pc, cf, csig>>
    BY <1>16 DEF vars
  <2> QED
    BY <1>b, <1>c, <2>1, FileKept
<1> QED
  BY <1>1, <1>2, <1>3, <1>4, <1>5, <1>6, <1>7, <1>8, <1>9, <1>10, <1>11, <1>12,
     <1>13, <1>14, <1>15, <1>16 DEF Next, ScanStep

(* Tags and signature of a row part only where a file is replaced between    *)
(* its stat and its parse.                                                   *)
LEMMA TagsStep ==
    ASSUME TypeOK, TagsSigned, [Next]_vars
    PROVE  TagsSigned'
<1> USE DEF fsVars, rowVars, subVars, walkVars, fileVars, histVars
<1> DEFINE Rows == \A k \in Key : tags[k] # sig[k] => <<k[2], sig[k]>> \in missed
           Parsing == pc = "parse" /\ disk[cf] # csig => <<cf, csig>> \in missed
           Parsed == pc \in InFile \ {"parse"} /\ cc # csig => <<cf, csig>> \in missed
<1>a. Rows /\ Parsing /\ Parsed
  BY DEF TagsSigned
<1>b. Rows' /\ Parsing' /\ Parsed' => TagsSigned'
  BY DEF TagsSigned
<1>c. ASSUME UNCHANGED <<tags, sig>>, missed \subseteq missed' PROVE Rows'
  BY <1>a, <1>c
<1>d. ASSUME pc' \notin InFile PROVE Parsing' /\ Parsed'
  BY <1>d DEF InFile
<1>1. ASSUME NEW f \in File, NEW c \in Content \cup {Absent}, Edit(f, c)
      PROVE  TagsSigned'
  <2>1. /\ disk' = [disk EXCEPT ![f] = c]
        /\ missed' = IF pc = "parse" /\ cf = f THEN missed \cup {<<f, csig>>} ELSE missed
        /\ UNCHANGED <<tags, sig, pc, cf, csig, cc>>
    BY <1>1 DEF Edit
  <2>2. missed \subseteq missed'
    BY <2>1
  <2>3. Parsing'
    BY <1>a, <2>1 DEF TypeOK
  <2>4. Parsed'
    BY <1>a, <2>1, <2>2
  <2> QED
    BY <1>b, <1>c, <2>1, <2>2, <2>3, <2>4
<1>2. ASSUME NEW l \in Lib, DeleteLibraryPath(l) PROVE TagsSigned'
  <2>1. /\ sig' = [k \in Key |-> IF k[1] = l THEN Absent ELSE sig[k]]
        /\ tags' = [k \in Key |-> IF k[1] = l THEN Absent ELSE tags[k]]
        /\ UNCHANGED <<disk, missed, pc, cf, csig, cc>>
    BY <1>2 DEF DeleteLibraryPath
  <2>2. Rows'
    BY <1>a, <2>1
  <2> QED
    BY <1>a, <1>b, <2>1, <2>2
<1>3. CASE Visit
  <2>1. /\ pc' \in {"visit", "parse"}
        /\ pc' = "parse" => cf' = Least(listed) /\ csig' = disk[Least(listed)]
        /\ UNCHANGED <<disk, tags, sig, missed>>
    BY <1>3 DEF Visit
  <2> QED
    BY <1>b, <1>c, <2>1 DEF InFile
<1>4. CASE Parse
  <2>1. /\ pc = "parse" /\ UNCHANGED <<disk, tags, sig, missed>>
        /\ \/ pc' = "visit"
           \/ pc' = "upsert" /\ cc' = disk[cf] /\ UNCHANGED <<cf, csig>>
    BY <1>4 DEF Parse
  <2> QED
    BY <1>a, <1>b, <1>c, <2>1 DEF InFile
<1>5. CASE Upsert
  <2>1. CASE Abort /\ UNCHANGED <<fsVars, lib, rowVars, subVars, cl, histVars>>
    <3>1. pc' = "idle" /\ UNCHANGED <<tags, sig, missed>>
      BY <2>1 DEF Abort
    <3> QED
      BY <1>b, <1>c, <1>d, <3>1 DEF InFile
  <2>2. CASE UpsertDone
    <3> DEFINE k == <<cl, cf>>
    <3>1. /\ pc = "upsert" /\ pc' = "chapters"
          /\ sig' = [sig EXCEPT ![k] = csig] /\ tags' = [tags EXCEPT ![k] = cc]
          /\ UNCHANGED <<disk, missed, cf, csig, cc>>
      BY <2>2 DEF UpsertDone
    <3>2. k \in Key /\ k[2] = cf
      BY KeyPair DEF TypeOK
    <3>3. cc # csig => <<cf, csig>> \in missed
      BY <1>a, <3>1 DEF InFile
    <3>4. Rows'
      <4> SUFFICES ASSUME NEW m \in Key, tags'[m] # sig'[m]
                   PROVE  <<m[2], sig'[m]>> \in missed'
        OBVIOUS
      <4>1. CASE m = k
        BY <3>1, <3>2, <3>3, <4>1 DEF TypeOK
      <4>2. CASE m # k
        <5>1. tags'[m] = tags[m] /\ sig'[m] = sig[m]
          BY <3>1, <4>2 DEF TypeOK
        <5> QED
          BY <1>a, <3>1, <5>1
      <4> QED
        BY <4>1, <4>2
    <3> QED
      BY <1>b, <3>1, <3>3, <3>4
  <2> QED
    BY <1>5, <2>1, <2>2, UpsertCases
<1>6. CASE ReplaceChapters \/ UpsertCover
  <2>1. /\ pc \in {"chapters", "cover"} /\ pc' \in {"cover", "enqueue", "idle"}
        /\ pc' # "idle" => UNCHANGED <<cf, csig, cc>>
        /\ UNCHANGED <<disk, tags, sig, missed>>
    BY <1>6 DEF ReplaceChapters, UpsertCover, Abort
  <2> QED
    BY <1>a, <1>b, <1>c, <2>1 DEF InFile
<1>7. CASE \/ StartScan \/ ListRefs \/ EndScan \/ NextLibrary \/ ReadDir \/ Enqueue
           \/ StartSweep \/ (\E i \in Id : SoftDelete(i)) \/ EndSweep
           \/ VisitError \/ EnqueueError \/ Fail
  <2>1. UNCHANGED <<tags, sig, missed>>
    BY <1>7 DEF StartScan, ListRefs, EndScan, NextLibrary, ReadDir, Enqueue,
       StartSweep, SoftDelete, EndSweep, VisitError, EnqueueError, Fail
  <2>2. pc' \notin InFile
    BY <1>7 DEF StartScan, ListRefs, EndScan, NextLibrary, ReadDir, Enqueue,
       StartSweep, SoftDelete, EndSweep, VisitError, EnqueueError, Fail, Abort, InFile
  <2> QED
    BY <1>b, <1>c, <1>d, <2>1, <2>2
<1>8. CASE (\E l \in Lib : UpsertLibraryPath(l)) \/ UNCHANGED vars
  <2>1. UNCHANGED <<disk, tags, sig, missed, pc, cf, csig, cc>>
    BY <1>8 DEF UpsertLibraryPath, vars
  <2> QED
    BY <2>1 DEF TagsSigned
<1> QED
  BY <1>1, <1>2, <1>3, <1>4, <1>5, <1>6, <1>7, <1>8 DEF Next, ScanStep

(* Reconciled: at the end of a walk the rows of the root are in step with    *)
(* the files nobody touched, tags included, other roots over the same files  *)
(* or not.                                                                   *)
THEOREM WalksReconcile == Spec => []Reconciled
<1>1. Init => WalkSoFar /\ TagsSigned
  BY DEF Init, WalkSoFar, TagsSigned, InFile
<1>2. WalkInv /\ TypeOK' /\ WalkSoFar /\ [Next]_vars => WalkSoFar'
  BY WalkStep
<1>3. TypeOK /\ TagsSigned /\ [Next]_vars => TagsSigned'
  BY TagsStep
<1>4. WalkInv /\ WalkSoFar /\ TagsSigned => Reconciled
  <2> SUFFICES ASSUME WalkInv, WalkSoFar, TagsSigned, pc = "walked", lib[cl] = "present",
                      NEW f \in Under[cl] \ touched
               PROVE  /\ disk[f] \in Good => RowOf(cl, f)
                      /\ disk[f] = Absent => ~Live(<<cl, f>>)
    BY DEF Reconciled
  <2>1. listed = {} /\ pc \notin {"parse", "upsert"}
    BY DEF WalkInv, SweepSafe
  <2>2. FileSoFar(f)
    BY DEF WalkSoFar
  <2>3. disk[f] \in Good => InStep(f)
    BY <2>1, <2>2 DEF FileSoFar
  <2>4. <<cl, f>> \in Key /\ <<cl, f>>[2] = f
    BY KeyPair, UnderAssumption DEF WalkInv, TypeOK
  <2>5. tags[<<cl, f>>] # sig[<<cl, f>>] => <<f, sig[<<cl, f>>]>> \in missed
    BY <2>4 DEF TagsSigned
  <2> QED
    BY <2>1, <2>2, <2>3, <2>5 DEF FileSoFar, RowOf, InStep
<1> QED
  BY <1>1, <1>2, <1>3, <1>4, WalkInvHolds, ScanTypeCorrect, PTL DEF Spec

-----------------------------------------------------------------------------
(* Ingests *)

(* No path is beneath two roots.  Nothing in the code sees to it; without it *)
(* a walk writes chapters under the id of the other root's row.              *)
DisjointRoots == \A l, m \in Lib : l # m => Under[l] \cap Under[m] = {}

(* The id a callback writes under is that of its own row or of none.         *)
LEMMA OwnRow ==
    ASSUME DisjointRoots, WalkInv, pc \in InFile, NEW k \in Key, rowId[k] = cid
    PROVE  k = <<cl, cf>>
<1>1. cid \in Id /\ cid # NoId /\ cl \in Lib /\ cf \in File
  BY IdPair DEF WalkInv, TypeOK
<1>2. cf \in Under[cl] /\ csig \in Content
      /\ cid = IF Known(cf) THEN refs[cf] ELSE <<cf, csig>>
  BY DEF WalkInv, RefsNamed
<1>3. Known(cf) => refs[cf][1] = cf
  BY <1>1 DEF WalkInv, RefsNamed
<1>4. cid[1] = cf
  BY <1>1, <1>2, <1>3, IdPair
<1>5. rowId[k][1] = k[2] /\ k[2] \in Under[k[1]]
  BY <1>1 DEF WalkInv, RowsNamed
<1>6. k[1] = cl
  BY <1>1, <1>2, <1>4, <1>5, KeyPair DEF DisjointRoots
<1> QED
  BY <1>4, <1>5, <1>6, KeyPair

(* A row that was not cut short has its sub-rows.                            *)
Whole(k) ==
    Live(k) /\ k \notin torn =>
        /\ chap[rowId[k]] = tags[k] /\ job[rowId[k]] = tags[k]
        /\ tags[k] \in HasCover => cover[rowId[k]] = tags[k]

LEMMA IngestStep ==
    ASSUME DisjointRoots, WalkInv, TypeOK', IngestWhole, IngestSoFar, [Next]_vars
    PROVE  IngestWhole' /\ IngestSoFar'
<1> USE DEF fsVars, rowVars, subVars, walkVars, fileVars, histVars
<1> DEFINE k == <<cl, cf>>
           Writing == {"chapters", "cover", "enqueue"}
<1>a. k \in Key /\ TypeOK /\ RowsNamed /\ RefsNamed
  BY KeyPair DEF WalkInv, TypeOK
<1>b. \A m \in Key : Whole(m)
  BY DEF IngestWhole, Whole
<1>c. (\A m \in Key : Whole(m)') => IngestWhole'
  BY DEF IngestWhole, Whole
<1>d. ASSUME UNCHANGED <<rowId, tags, deleted, torn, chap, cover, job>> PROVE IngestWhole'
  BY <1>d DEF IngestWhole, Live
<1>e. ASSUME pc' \notin Writing PROVE IngestSoFar'
  BY <1>e DEF IngestSoFar
<1>f. ASSUME UNCHANGED <<rowId, tags, torn, chap, cover, job, pc, cl, cf, cid, cc>>
      PROVE  IngestSoFar'
  BY <1>f DEF IngestSoFar
<1>g. pc \in Writing => pc \in InFile /\ cid \in Id /\ cid # NoId
  BY <1>a, IdPair DEF TypeOK, InFile
<1>1. CASE \/ \E f \in File, c \in Content \cup {Absent} : Edit(f, c)
           \/ \E l \in Lib : UpsertLibraryPath(l)
           \/ UNCHANGED vars
  <2>1. UNCHANGED <<rowId, tags, deleted, torn, chap, cover, job, pc, cl, cf, cid, cc>>
    BY <1>1 DEF Edit, UpsertLibraryPath, vars
  <2> QED
    BY <1>d, <1>f, <2>1
<1>2. CASE \/ StartScan \/ ListRefs \/ EndScan \/ NextLibrary \/ ReadDir \/ Visit
           \/ Parse \/ StartSweep \/ EndSweep \/ VisitError \/ EnqueueError \/ Fail
  <2>1. UNCHANGED <<rowId, tags, deleted, torn, chap, cover, job>> /\ pc' \notin Writing
    BY <1>2 DEF StartScan, ListRefs, EndScan, NextLibrary, ReadDir, Visit, Parse,
       StartSweep, EndSweep, VisitError, EnqueueError, Fail, Abort
  <2> QED
    BY <1>d, <1>e, <2>1
<1>3. ASSUME NEW l \in Lib, DeleteLibraryPath(l) PROVE IngestWhole' /\ IngestSoFar'
  <2> DEFINE dropped == {rowId[<<l, f>>] : f \in File}
  <2>1. /\ rowId' = [m \in Key |-> IF m[1] = l THEN NoId ELSE rowId[m]]
        /\ tags' = [m \in Key |-> IF m[1] = l THEN Absent ELSE tags[m]]
        /\ chap' = [i \in Id |-> IF i \in dropped THEN Absent ELSE chap[i]]
        /\ cover' = [i \in Id |-> IF i \in dropped THEN Absent ELSE cover[i]]
        /\ job' = [i \in Id |-> IF i \in dropped THEN Absent ELSE job[i]]
        /\ UNCHANGED <<torn, pc, cl, cf, cid, cc>>
    BY <1>3 DEF DeleteLibraryPath
  <2>2. deleted' = [m \in Key |-> IF m[1] = l THEN FALSE ELSE deleted[m]]
    BY <1>3 DEF DeleteLibraryPath
  <2>3. ASSUME NEW m \in Key, rowId'[m] # NoId
        PROVE  /\ m[1] # l /\ rowId'[m] = rowId[m] /\ tags'[m] = tags[m]
               /\ chap'[rowId[m]] = chap[rowId[m]] /\ cover'[rowId[m]] = cover[rowId[m]]
               /\ job'[rowId[m]] = job[rowId[m]]
    <3>1. m[1] # l /\ rowId'[m] = rowId[m] /\ tags'[m] = tags[m]
      BY <2>1, <2>3
    <3>2. rowId[m] \in Id
      BY <1>a, <2>3, <3>1 DEF TypeOK
    <3>3. rowId[m] \notin dropped
      <4>1. ASSUME NEW f \in File, rowId[m] = rowId[<<l, f>>] PROVE FALSE
        <5>1. <<l, f>> = m
          BY <1>a, <2>3, <3>1, <4>1, KeyPair DEF RowsNamed
        <5> QED
          BY <3>1, <5>1
      <4> QED
        BY <4>1
    <3> QED
      BY <2>1, <3>1, <3>2, <3>3
  <2>4. ASSUME NEW m \in Key PROVE Whole(m)'
    <3>1. rowId'[m] # NoId => deleted'[m] = deleted[m]
      BY <2>2, <2>3, Zenon
    <3>2. Live(m)' => Live(m) /\ rowId'[m] # NoId
      BY <2>3, <3>1, Zenon DEF Live
    <3> QED
      BY <1>b, <2>1, <2>3, <3>2 DEF Whole
  <2>5. IngestSoFar'
    <3> SUFFICES ASSUME pc \in Writing, rowId'[k] = cid
                 PROVE  /\ k \in torn' /\ tags'[k] = cc
                        /\ pc # "chapters" => chap'[cid] = cc
                        /\ pc = "enqueue" /\ cc \in HasCover => cover'[cid] = cc
      BY <2>1 DEF IngestSoFar
    <3>1. rowId'[k] # NoId
      BY <1>g
    <3> QED
      BY <1>a, <2>1, <2>3, <3>1 DEF IngestSoFar
  <2> QED
    BY <1>c, <2>4, <2>5
<1>4. CASE Upsert
  <2>1. CASE Abort /\ UNCHANGED <<fsVars, lib, rowVars, subVars, cl, histVars>>
    BY <1>d, <1>e, <2>1 DEF Abort
  <2>2. CASE UpsertDone
    <3>1. /\ pc' = "chapters" /\ torn' = torn \cup {k}
          /\ tags' = [tags EXCEPT ![k] = cc]
          /\ \/ rowId[k] # NoId /\ rowId' = rowId
             \/ rowId[k] = NoId /\ rowId' = [rowId EXCEPT ![k] = cid]
          /\ UNCHANGED <<chap, cover, job, cl, cf, cid, cc>>
      BY <2>2 DEF UpsertDone
    <3>2. deleted' = [deleted EXCEPT ![k] = FALSE]
      BY <2>2 DEF UpsertDone
    <3>3. tags'[k] = cc
      BY <1>a, <3>1 DEF TypeOK
    <3>4. ASSUME NEW m \in Key PROVE Whole(m)'
      <4>1. CASE m = k
        BY <3>1, <4>1 DEF Whole
      <4>2. CASE m # k
        <5>1. rowId'[m] = rowId[m] /\ tags'[m] = tags[m]
          BY <1>a, <3>1, <4>2 DEF TypeOK
        <5>2. deleted'[m] = deleted[m]
          BY <1>a, <3>2, <4>2 DEF TypeOK
        <5>3. Live(m)' => Live(m)
          BY <5>1, <5>2, Zenon DEF Live
        <5> QED
          BY <1>b, <3>1, <5>1, <5>3 DEF Whole
      <4> QED
        BY <4>1, <4>2
    <3>5. IngestSoFar'
      BY <3>1, <3>3 DEF IngestSoFar
    <3> QED
      BY <1>c, <3>4, <3>5
  <2> QED
    BY <1>4, <1>a, <2>1, <2>2, UpsertCases
<1>5. CASE ReplaceChapters
  <2>1. /\ pc = "chapters"
        /\ chap' = IF HasRow(cid) THEN [chap EXCEPT ![cid] = cc] ELSE chap
        /\ UNCHANGED <<rowId, tags, torn, cover, job, cl>>
        /\ Abort \/ (pc' = "cover" /\ UNCHANGED <<cf, cid, cc>>)
    BY <1>5 DEF ReplaceChapters
  <2>2. deleted' = deleted
    BY <1>5 DEF ReplaceChapters
  <2>3. ASSUME NEW m \in Key PROVE Whole(m)'
    <3>1. Live(m)' <=> Live(m)
      BY <2>1, <2>2 DEF Live
    <3>2. CASE rowId[m] = cid
      <4>1. m = k
        BY <1>g, <2>1, <3>2, OwnRow
      <4> QED
        BY <2>1, <3>2, <4>1 DEF IngestSoFar, Whole
    <3>3. CASE rowId[m] # cid /\ rowId[m] # NoId
      <4>1. chap'[rowId[m]] = chap[rowId[m]]
        BY <1>a, <1>g, <2>1, <3>3 DEF TypeOK
      <4> QED
        BY <1>b, <2>1, <3>1, <4>1 DEF Whole
    <3>4. CASE rowId[m] = NoId
      BY <2>1, <3>4 DEF Whole, Live
    <3> QED
      BY <3>2, <3>3, <3>4
  <2>4. IngestSoFar'
    <3>1. CASE Abort
      BY <1>e, <3>1 DEF Abort
    <3>2. CASE pc' = "cover" /\ UNCHANGED <<cf, cid, cc>>
      <4>1. rowId[k] = cid => chap'[cid] = cc
        BY <1>a, <1>g, <2>1 DEF HasRow, TypeOK
      <4> QED
        BY <2>1, <3>2, <4>1 DEF IngestSoFar
    <3> QED
      BY <2>1, <3>1, <3>2
  <2> QED
    BY <1>c, <2>3, <2>4
<1>6. CASE UpsertCover
  <2>1. /\ pc = "cover"
        /\ cover' = IF cc \in HasCover /\ HasRow(cid)
                    THEN [cover EXCEPT ![cid] = cc] ELSE cover
        /\ UNCHANGED <<rowId, tags, torn, chap, job, cl>>
        /\ Abort \/ (pc' = "enqueue" /\ UNCHANGED <<cf, cid, cc>>)
    BY <1>6 DEF UpsertCover
  <2>2. deleted' = deleted
    BY <1>6 DEF UpsertCover
  <2>3. ASSUME NEW m \in Key PROVE Whole(m)'
    <3>1. Live(m)' <=> Live(m)
      BY <2>1, <2>2 DEF Live
    <3>2. CASE rowId[m] = cid
      <4>1. m = k
        BY <1>g, <2>1, <3>2, OwnRow
      <4> QED
        BY <2>1, <3>2, <4>1 DEF IngestSoFar, Whole
    <3>3. CASE rowId[m] # cid /\ rowId[m] # NoId
      <4>1. cover'[rowId[m]] = cover[rowId[m]]
        BY <1>a, <1>g, <2>1, <3>3 DEF TypeOK
      <4> QED
        BY <1>b, <2>1, <3>1, <4>1 DEF Whole
    <3>4. CASE rowId[m] = NoId
      BY <2>1, <3>4 DEF Whole, Live
    <3> QED
      BY <3>2, <3>3, <3>4
  <2>4. IngestSoFar'
    <3>1. CASE Abort
      BY <1>e, <3>1 DEF Abort
    <3>2. CASE pc' = "enqueue" /\ UNCHANGED <<cf, cid, cc>>
      <4>1. rowId[k] = cid /\ cc \in HasCover => cover'[cid] = cc
        BY <1>a, <1>g, <2>1 DEF HasRow, TypeOK
      <4> QED
        BY <2>1, <3>2, <4>1 DEF IngestSoFar
    <3> QED
      BY <2>1, <3>1, <3>2
  <2> QED
    BY <1>c, <2>3, <2>4
<1>7. CASE Enqueue
  <2>1. /\ pc = "enqueue" /\ pc' = "visit"
        /\ job' = IF HasRow(cid) THEN [job EXCEPT ![cid] = cc] ELSE job
        /\ torn' = IF rowId[k] = cid THEN torn \ {k} ELSE torn
        /\ UNCHANGED <<rowId, tags, chap, cover>>
    BY <1>7 DEF Enqueue
  <2>2. deleted' = deleted
    BY <1>7 DEF Enqueue
  <2>3. ASSUME NEW m \in Key PROVE Whole(m)'
    <3>1. Live(m)' <=> Live(m)
      BY <2>1, <2>2 DEF Live
    <3>2. CASE rowId[m] = cid
      <4>1. m = k
        BY <1>g, <2>1, <3>2, OwnRow
      <4>2. job'[cid] = cc
        BY <1>a, <1>g, <2>1, <3>2 DEF HasRow, TypeOK
      <4> QED
        BY <2>1, <3>2, <4>1, <4>2 DEF IngestSoFar, Whole
    <3>3. CASE rowId[m] # cid /\ rowId[m] # NoId
      <4>1. job'[rowId[m]] = job[rowId[m]] /\ (m \in torn' <=> m \in torn)
        BY <1>a, <1>g, <2>1, <3>3 DEF TypeOK
      <4> QED
        BY <1>b, <2>1, <3>1, <4>1 DEF Whole
    <3>4. CASE rowId[m] = NoId
      BY <2>1, <3>4 DEF Whole, Live
    <3> QED
      BY <3>2, <3>3, <3>4
  <2> QED
    BY <1>c, <1>e, <2>1, <2>3
<1>8. ASSUME NEW i \in Id, SoftDelete(i) PROVE IngestWhole' /\ IngestSoFar'
  <2>1. pc' = "sweep" /\ UNCHANGED <<rowId, tags, torn, chap, cover, job>>
    BY <1>8 DEF SoftDelete
  <2>2. deleted' = [m \in Key |-> deleted[m] \/ rowId[m] = i]
    BY <1>8 DEF SoftDelete
  <2>3. ASSUME NEW m \in Key PROVE Whole(m)'
    <3>1. Live(m)' => Live(m)
      BY <2>1, <2>2, Zenon DEF Live
    <3> QED
      BY <1>b, <2>1, <3>1 DEF Whole
  <2> QED
    BY <1>c, <1>e, <2>1, <2>3
<1> QED
  BY <1>1, <1>2, <1>3, <1>4, <1>5, <1>6, <1>7, <1>8 DEF Next, ScanStep

(* IngestWhole: where no path is beneath two roots, a row whose ingest ran   *)
(* to its end has the chapters, the cover and the job of its content.        *)
THEOREM IngestsAreWhole ==
    ASSUME DisjointRoots
    PROVE  Spec => []IngestWhole
<1>1. Init => IngestWhole /\ IngestSoFar
  BY DEF Init, IngestWhole, IngestSoFar, Live
<1>2. WalkInv /\ TypeOK' /\ IngestWhole /\ IngestSoFar /\ [Next]_vars
          => IngestWhole' /\ IngestSoFar'
  BY IngestStep
<1> QED
  BY <1>1, <1>2, WalkInvHolds, ScanTypeCorrect, PTL DEF Spec
=============================================================================
