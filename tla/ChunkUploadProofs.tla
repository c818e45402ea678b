------------------------- MODULE ChunkUploadProofs -------------------------
(***************************************************************************)
(* Proofs about chunked uploads (ChunkUpload), for any number of requests  *)
(* and contents of any sizes: what is counted, what a completed session    *)
(* stands for, and that progress is not taken back.                        *)
(***************************************************************************)
EXTENDS ChunkUpload, FiniteSetTheorems, TLAPS

(* Places of a request that has a content, and of one that has read the    *)
(* session.                                                                *)
Working == {"init", "save", "write", "mark", "verify", "finish"}
Reading == {"init", "cancel", "remove"}

CallInv ==
    \A r \in Reqs :
        /\ pc[r] \in Working => arg[r] \in Contents
        /\ pc[r] \in {"write", "mark"} => idx[r] \in 1..Size[arg[r]]
        /\ pc[r] \in Reading => saw[r] \in Read

ShapeInv == TypeOK /\ CallInv

(* The bytes a session counts, also of one that was read and may be saved  *)
(* again.                                                                  *)
Counted(s) ==
    s # None => /\ IsFiniteSet(s.bmp)
                /\ ~ s.done => s.bytes = Cardinality(s.bmp)
CountInv == Counted(sess) /\ \A r \in Reqs : pc[r] = "init" => Counted(saw[r].sess)

(* The file that was verified stays whole until the session is marked.     *)
FinishInv == ~ stray => \A r \in Reqs : pc[r] = "finish" => Whole(file, arg[r])

UInv == ShapeInv /\ FinishInv /\ CompletedIsWhole

-----------------------------------------------------------------------------
(* Chunks and files.                                                       *)

LEMMA ChunkFacts ==
  /\ Chunks \subseteq Nat \ {0}
  /\ \A c \in Contents : Size[c] \in Chunks /\ 1..Size[c] \subseteq Chunks
  /\ \A i, j \in Chunks : i <= j \/ j <= i
<1>1. \A c \in Contents : Size[c] \in Nat \ {0}
  BY UploadAssumption
<1>2. \A c \in Contents : Size[c] \in 1..Size[c]
  BY <1>1
<1>3. Chunks \subseteq Nat \ {0}
  BY <1>1 DEF Chunks
<1> QED
  BY <1>2, <1>3 DEF Chunks

(* A file of a number of chunks that occurs is a file.                     *)
LEMMA FileOf ==
  ASSUME NEW n \in Chunks, NEW f \in [1..n -> Contents \cup {Zero}]
  PROVE  f \in Files
  BY DEF Files

LEMMA FileShape ==
  ASSUME NEW f \in Files
  PROVE  \E n \in Chunks : f \in [1..n -> Contents \cup {Zero}] /\ Len(f) = n
<1>1. PICK n \in Chunks : f \in [1..n -> Contents \cup {Zero}]
  BY DEF Files
<1>2. f \in Seq(Contents \cup {Zero}) /\ DOMAIN f = 1..n /\ n \in Nat
  BY <1>1, ChunkFacts
<1>3. Len(f) = n
  BY <1>2
<1> QED
  BY <1>1, <1>3

LEMMA WholeShape ==
  ASSUME NEW c \in Contents, NEW f, Whole(f, c)
  PROVE  /\ f \in Files /\ DOMAIN f = 1..Size[c] /\ Len(f) = Size[c]
         /\ \A i \in 1..Size[c] : f[i] = c
<1>1. Size[c] \in Nat \ {0} /\ Size[c] \in Chunks
  BY UploadAssumption, ChunkFacts
<1>2. f \in [1..Size[c] -> Contents \cup {Zero}] /\ \A i \in 1..Size[c] : f[i] = c
  BY DEF Whole
<1>3. f \in Seq(Contents \cup {Zero})
  BY <1>1, <1>2
<1>4. Len(f) = Size[c]
  BY <1>1, <1>2, <1>3
<1> QED
  BY <1>1, <1>2, <1>4, FileOf

(* A file is whole for one content only.                                   *)
LEMMA WholeOnce ==
  ASSUME NEW c \in Contents, NEW d \in Contents, NEW f, Whole(f, c), Whole(f, d)
  PROVE  c = d
<1>1. 1 \in 1..Size[c] /\ 1 \in 1..Size[d]
  BY UploadAssumption
<1> QED
  BY <1>1, WholeShape

LEMMA TruncatedShape ==
  ASSUME NEW f \in Files \cup {None}, NEW n \in Chunks
  PROVE  Truncated(f, n) \in Files
<1>1. ASSUME NEW i \in 1..n
      PROVE  (IF f # None /\ i \in DOMAIN f THEN f[i] ELSE Zero) \in Contents \cup {Zero}
  BY FileShape
<1> QED
  BY <1>1, FileOf DEF Truncated

(* What the operations make of a session is one.                           *)
LEMMA SessionFacts ==
  ASSUME NEW c \in Contents
  PROVE  /\ Fresh(c) \in Session
         /\ [Fresh(c) EXCEPT !.bytes = Size[c], !.done = TRUE] \in Session
         /\ \A s \in Session : /\ [s EXCEPT !.total = Size[c], !.expired = FALSE] \in Session
                             /\ [s EXCEPT !.done = TRUE, !.hash = c] \in Session
<1>1. Size[c] \in Nat /\ Size[c] \in Chunks
  BY UploadAssumption, ChunkFacts
<1> QED
  BY <1>1 DEF Fresh, Session

LEMMA MarkedFacts ==
  ASSUME NEW s \in Session, NEW i \in Chunks
  PROVE  /\ Marked(s, i) \in Session
         /\ Marked(s, i).bmp = s.bmp \cup {i}
         /\ Marked(s, i).done = s.done /\ Marked(s, i).hash = s.hash
         /\ Marked(s, i).bytes = IF i \in s.bmp THEN s.bytes ELSE s.bytes + 1
<1>1. s.bytes \in Nat /\ s.bmp \in SUBSET Chunks
  BY DEF Session
<1> DEFINE b == IF i \in s.bmp THEN s.bytes ELSE s.bytes + 1
<1>2. b \in Nat /\ s.bmp \cup {i} \in SUBSET Chunks
  BY <1>1
<1>3. Marked(s, i) = [s EXCEPT !.bmp = s.bmp \cup {i}, !.expired = FALSE, !.bytes = b]
  BY DEF Marked, Session
<1> HIDE DEF b
<1>4. Marked(s, i) \in Session /\ Marked(s, i).bmp = s.bmp \cup {i} /\ Marked(s, i).bytes = b
      /\ Marked(s, i).done = s.done /\ Marked(s, i).hash = s.hash
  BY <1>2, <1>3 DEF Session
<1> QED
  BY <1>4 DEF b

-----------------------------------------------------------------------------
(* Types.                                                                  *)

LEMMA ShapeInit == Init => ShapeInv
  BY UploadAssumption DEF Init, ShapeInv, TypeOK, CallInv, Working, Reading

LEMMA ShapeStep == ShapeInv /\ [Next]_vars => ShapeInv'
<1> SUFFICES ASSUME ShapeInv, [Next]_vars PROVE ShapeInv'
  OBVIOUS
<1> USE UploadAssumption, ChunkFacts
        DEF ShapeInv, TypeOK, CallInv, Working, Reading, Read, locals
<1>1. ASSUME NEW r \in Reqs, NEW c \in Contents, ReadForInit(r, c) PROVE ShapeInv'
  BY <1>1 DEF ReadForInit, Idle, Goto
<1>2. ASSUME NEW r \in Reqs, Instant(r) PROVE ShapeInv'
  BY <1>2 DEF Instant, Return, Goto
<1>3. ASSUME NEW r \in Reqs, Resume(r) PROVE ShapeInv'
  <2>1. sess' \in Session
    BY <1>3, SessionFacts DEF Resume, CanResume, Uploading
  <2> QED
    BY <1>3, <2>1 DEF Resume, Return, Goto
<1>4. ASSUME NEW r \in Reqs, Adopt(r) PROVE ShapeInv'
  <2>1. sess' \in Session
    BY <1>4, SessionFacts DEF Adopt
  <2> QED
    BY <1>4, <2>1 DEF Adopt, Return, Goto
<1>5. ASSUME NEW r \in Reqs, Rebuild(r) PROVE ShapeInv'
  <2>1. file' \in Files
    BY <1>5, TruncatedShape DEF Rebuild
  <2> QED
    BY <1>5, <2>1 DEF Rebuild, Goto
<1>6. ASSUME NEW r \in Reqs, SaveNewSession(r) PROVE ShapeInv'
  <2>1. sess' \in Session
    BY <1>6, SessionFacts DEF SaveNewSession
  <2> QED
    BY <1>6, <2>1 DEF SaveNewSession, Return, Goto
<1>7. ASSUME NEW r \in Reqs, NEW c \in Contents, NEW i \in Chunks, i <= Size[c], CheckAndOpen(r, c, i) PROVE ShapeInv'
  BY <1>7 DEF CheckAndOpen, Idle, Goto
<1>8. ASSUME NEW r \in Reqs, WriteChunk(r) PROVE ShapeInv'
  <2>1. file' \in Files \cup {None}
    <3>1. CASE r \in open /\ file' # file
      <4> DEFINE n == IF idx[r] > FileLen THEN idx[r] ELSE FileLen
      <4>1. idx[r] \in Chunks /\ n \in Chunks /\ idx[r] \in 1..n
        BY <1>8, FileShape DEF WriteChunk, FileLen
      <4>2. Truncated(file, n) \in Files /\ DOMAIN Truncated(file, n) = 1..n
        BY <4>1, TruncatedShape DEF Truncated
      <4>3. Truncated(file, n) \in [1..n -> Contents \cup {Zero}]
        BY <4>2, FileShape
      <4>4. file' = [Truncated(file, n) EXCEPT ![idx[r]] = arg[r]]
        BY <1>8, <3>1 DEF WriteChunk
      <4>5. file' \in [1..n -> Contents \cup {Zero}]
        BY <1>8, <4>1, <4>3, <4>4 DEF WriteChunk
      <4> QED
        BY <4>1, <4>5, FileOf
    <3>2. CASE ~ (r \in open /\ file' # file)
      BY <1>8, <3>2 DEF WriteChunk
    <3> QED
      BY <3>1, <3>2
  <2> QED
    BY <1>8, <2>1 DEF WriteChunk, Return, Goto
<1>9. ASSUME NEW r \in Reqs, MarkChunk(r) PROVE ShapeInv'
  BY <1>9, MarkedFacts DEF MarkChunk, Return, Goto
<1>10. ASSUME NEW r \in Reqs, NEW c \in Contents, ReadForComplete(r, c) PROVE ShapeInv'
  BY <1>10 DEF ReadForComplete, Idle, Goto
<1>11. ASSUME NEW r \in Reqs, Verify(r) PROVE ShapeInv'
  BY <1>11 DEF Verify, Return, Goto
<1>12. ASSUME NEW r \in Reqs, MarkCompleted(r) PROVE ShapeInv'
  <2>1. sess' \in Session \cup {None}
    BY <1>12, SessionFacts DEF MarkCompleted
  <2> QED
    BY <1>12, <2>1 DEF MarkCompleted, Return, Goto
<1>13. ASSUME NEW r \in Reqs, NEW how \in {"cancel", "remove"}, ReadForRemoval(r, how) PROVE ShapeInv'
  BY <1>13 DEF ReadForRemoval, Idle, Goto
<1>14. ASSUME NEW r \in Reqs, RemoveUpload(r) PROVE ShapeInv'
  BY <1>14 DEF RemoveUpload, Goto
<1>15. ASSUME Expire PROVE ShapeInv'
  BY <1>15 DEF Expire, Session
<1>16. ASSUME SweepList PROVE ShapeInv'
  BY <1>16 DEF SweepList
<1>17. ASSUME SweepFile PROVE ShapeInv'
  BY <1>17 DEF SweepFile
<1>18. ASSUME SweepRow PROVE ShapeInv'
  BY <1>18 DEF SweepRow
<1>19. ASSUME Crash PROVE ShapeInv'
  BY <1>19 DEF Crash, Idle
<1>20. ASSUME UNCHANGED vars PROVE ShapeInv'
  BY <1>20 DEF vars
<1> QED
  BY <1>1, <1>2, <1>3, <1>4, <1>5, <1>6, <1>7, <1>8, <1>9, <1>10, <1>11, <1>12,
     <1>13, <1>14, <1>15, <1>16, <1>17, <1>18, <1>19, <1>20 DEF Next, InitUpload, SaveChunk, CompleteUpload

(* Types hold in every reachable state, and what a request knows of its    *)
(* content and chunk fits (service/upload/chunkupload.go).                 *)
THEOREM UploadTypes == Spec => []TypeOK
<1>1. ShapeInv => TypeOK
  BY DEF ShapeInv
<1> QED
  BY ShapeInit, ShapeStep, <1>1, PTL DEF Spec

-----------------------------------------------------------------------------
(* What is counted.                                                        *)

LEMMA MarkCounts ==
  ASSUME NEW s \in Session, s # None, NEW i \in Chunks, Counted(s)
  PROVE  Counted(Marked(s, i))
<1>1. IsFiniteSet(s.bmp)
  BY DEF Counted
<1>2. /\ IsFiniteSet(s.bmp \cup {i})
      /\ Cardinality(s.bmp \cup {i}) = IF i \in s.bmp THEN Cardinality(s.bmp)
                                                      ELSE Cardinality(s.bmp) + 1
  BY <1>1, FS_AddElement
<1> QED
  BY <1>2, MarkedFacts DEF Counted

LEMMA CountInit == Init => CountInv
  BY UploadAssumption DEF Init, CountInv, Counted, Session

LEMMA FreshCounts ==
  ASSUME NEW c \in Contents
  PROVE  Counted(Fresh(c)) /\ Counted([Fresh(c) EXCEPT !.bytes = Size[c], !.done = TRUE])
  BY FS_EmptySet DEF Counted, Fresh

LEMMA CountStep == ShapeInv /\ CountInv /\ [Next]_vars => CountInv'
<1> SUFFICES ASSUME ShapeInv, CountInv, [Next]_vars PROVE CountInv'
  OBVIOUS
<1> USE DEF ShapeInv, TypeOK, CountInv, locals
<1>1. ASSUME NEW r \in Reqs, NEW c \in Contents, ReadForInit(r, c) PROVE CountInv'
  BY <1>1 DEF ReadForInit, Goto
<1>2. ASSUME NEW r \in Reqs, Instant(r) PROVE CountInv'
  BY <1>2 DEF Instant, Return, Goto
<1>3. ASSUME NEW r \in Reqs, Resume(r) PROVE CountInv'
  <2>1. saw[r].sess \in Session \ {None} /\ Counted(saw[r].sess)
    BY <1>3 DEF Resume, CanResume, Uploading, CallInv, Reading, Read
  <2>2. Counted(sess')
    BY <1>3, <2>1 DEF Resume, Counted, Session
  <2> QED
    BY <1>3, <2>2 DEF Resume, Return, Goto
<1>4. ASSUME NEW r \in Reqs, Adopt(r) PROVE CountInv'
  BY <1>4, FreshCounts DEF Adopt, Return, Goto, CallInv, Working
<1>5. ASSUME NEW r \in Reqs, Rebuild(r) PROVE CountInv'
  BY <1>5 DEF Rebuild, Goto, Counted
<1>6. ASSUME NEW r \in Reqs, SaveNewSession(r) PROVE CountInv'
  BY <1>6, FreshCounts DEF SaveNewSession, Return, Goto, CallInv, Working
<1>7. ASSUME NEW r \in Reqs, NEW c \in Contents, NEW i \in Chunks, i <= Size[c], CheckAndOpen(r, c, i) PROVE CountInv'
  BY <1>7 DEF CheckAndOpen, Idle, Goto
<1>8. ASSUME NEW r \in Reqs, WriteChunk(r) PROVE CountInv'
  BY <1>8 DEF WriteChunk, Return, Goto
<1>9. ASSUME NEW r \in Reqs, MarkChunk(r) PROVE CountInv'
  <2>1. idx[r] \in Chunks
    BY <1>9, ChunkFacts DEF MarkChunk, CallInv, Working
  <2>2. Counted(sess')
    BY <1>9, <2>1, MarkCounts DEF MarkChunk, Counted
  <2> QED
    BY <1>9, <2>2 DEF MarkChunk, Return, Goto
<1>10. ASSUME NEW r \in Reqs, NEW c \in Contents, ReadForComplete(r, c) PROVE CountInv'
  BY <1>10 DEF ReadForComplete, Idle, Goto
<1>11. ASSUME NEW r \in Reqs, Verify(r) PROVE CountInv'
  BY <1>11 DEF Verify, Return, Goto
<1>12. ASSUME NEW r \in Reqs, MarkCompleted(r) PROVE CountInv'
  <2>1. Counted(sess')
    BY <1>12 DEF MarkCompleted, Counted, Session
  <2> QED
    BY <1>12, <2>1 DEF MarkCompleted, Return, Goto
<1>13. ASSUME NEW r \in Reqs, NEW how \in {"cancel", "remove"}, ReadForRemoval(r, how) PROVE CountInv'
  BY <1>13 DEF ReadForRemoval, Idle, Goto
<1>14. ASSUME NEW r \in Reqs, RemoveUpload(r) PROVE CountInv'
  BY <1>14 DEF RemoveUpload, Goto, Counted
<1>15. ASSUME Expire PROVE CountInv'
  BY <1>15 DEF Expire, Counted, Session
<1>16. ASSUME SweepList PROVE CountInv'
  BY <1>16 DEF SweepList
<1>17. ASSUME SweepFile PROVE CountInv'
  BY <1>17 DEF SweepFile
<1>18. ASSUME SweepRow PROVE CountInv'
  BY <1>18 DEF SweepRow, Counted
<1>19. ASSUME Crash PROVE CountInv'
  BY <1>19 DEF Crash, Idle
<1>20. ASSUME UNCHANGED vars PROVE CountInv'
  BY <1>20 DEF vars
<1> QED
  BY <1>1, <1>2, <1>3, <1>4, <1>5, <1>6, <1>7, <1>8, <1>9, <1>10, <1>11, <1>12,
     <1>13, <1>14, <1>15, <1>16, <1>17, <1>18, <1>19, <1>20 DEF Next, InitUpload, SaveChunk, CompleteUpload

(* The count of a session is the number of its chunks, although an init    *)
(* that was overtaken saves the session it read before (CountedOnce).      *)
THEOREM CountedIsMarked == Spec => []CountedOnce
<1>1. ShapeInv /\ CountInv => CountedOnce
  BY DEF ShapeInv, TypeOK, CountInv, Counted, CountedOnce, Uploading
<1> QED
  BY ShapeInit, ShapeStep, CountInit, CountStep, <1>1, PTL DEF Spec

(* Marks are not taken back: by no chunk, completion, expiry or crash, as  *)
(* long as no init saves what it read before (ProgressKept).               *)
THEOREM ProgressIsKept == Spec => ProgressKept
<1> DEFINE Kept == sess # None /\ sess' # None /\ (\A r \in Reqs : pc[r] \notin {"init", "save"})
                     => sess.bmp \subseteq sess'.bmp
<1>0. ShapeInv /\ [Next]_vars => [Kept]_vars
  <2> SUFFICES ASSUME ShapeInv, Next PROVE Kept
    OBVIOUS
  <2>1. ASSUME NEW r \in Reqs, MarkChunk(r) PROVE Kept
    <3>1. idx[r] \in Chunks
      BY <2>1, ChunkFacts DEF MarkChunk, ShapeInv, TypeOK, CallInv, Working
    <3> QED
      BY <2>1, <3>1, MarkedFacts DEF MarkChunk, ShapeInv, TypeOK
  <2>2. ASSUME NEW r \in Reqs, MarkCompleted(r) \/ RemoveUpload(r) PROVE Kept
    BY <2>2 DEF MarkCompleted, RemoveUpload, ShapeInv, TypeOK, Session
  <2>3. ASSUME Expire \/ SweepRow PROVE Kept
    BY <2>3 DEF Expire, SweepRow, ShapeInv, TypeOK, Session
  <2>4. ASSUME NEW r \in Reqs, InitUpload(r) PROVE Kept
    BY <2>4 DEF InitUpload, ReadForInit, Instant, Resume, Adopt, Rebuild, SaveNewSession
  <2>5. ASSUME UNCHANGED sess PROVE Kept
    BY <2>5
  <2> QED
    BY <2>1, <2>2, <2>3, <2>4, <2>5 DEF Next, SaveChunk, CompleteUpload, CheckAndOpen,
       WriteChunk, ReadForComplete, Verify, ReadForRemoval, SweepList, SweepFile, Crash, locals
<1> QED
  BY ShapeInit, ShapeStep, <1>0, PTL DEF Spec, ProgressKept

-----------------------------------------------------------------------------
(* What a completed session stands for.                                    *)

(* A chunk written into a whole file of its own content changes nothing;   *)
(* one written into a whole file of another content is a known stray.      *)
LEMMA WriteKeepsWhole ==
  ASSUME ShapeInv, NEW r \in Reqs, WriteChunk(r), ~ stray',
         NEW c \in Contents, Whole(file, c)
  PROVE  Whole(file', c)
<1>1. CASE file' = file
  BY <1>1
<1>2. CASE file' # file
  <2>1. r \in open /\ arg[r] = c
    BY <1>2 DEF WriteChunk, ShapeInv, CallInv, Working
  <2>2. idx[r] \in 1..Size[c] /\ Size[c] \in Nat
    BY <2>1, UploadAssumption DEF WriteChunk, ShapeInv, CallInv
  <2>3. file # None /\ FileLen = Size[c] /\ DOMAIN file = 1..Size[c]
        /\ \A i \in 1..Size[c] : file[i] = c
    BY WholeShape DEF FileLen, Whole
  <2>4. ~ (idx[r] > FileLen)
    BY <2>2, <2>3
  <2>5. file' = [Truncated(file, Size[c]) EXCEPT ![idx[r]] = c]
    BY <1>2, <2>1, <2>3, <2>4 DEF WriteChunk
  <2>6. Truncated(file, Size[c]) = [i \in 1..Size[c] |-> c]
    BY <2>3 DEF Truncated
  <2>7. file' = [i \in 1..Size[c] |-> c]
    BY <2>2, <2>5, <2>6
  <2>8. file' = file
    BY <2>7 DEF Whole
  <2> QED
    BY <2>8
<1> QED
  BY <1>1, <1>2

LEMMA WholeStep == UInv /\ [Next]_vars => UInv'
<1> SUFFICES ASSUME UInv, [Next]_vars, ~ stray'
             PROVE  (\A r \in Reqs : pc[r] = "finish" => Whole(file, arg[r]))'
                    /\ (sess # None /\ sess.done => Whole(file, sess.hash))'
  BY ShapeStep DEF UInv, FinishInv, CompletedIsWhole
<1> DEFINE Fin == \A r \in Reqs : pc'[r] = "finish" => Whole(file', arg'[r])
           Com == sess' # None /\ sess'.done => Whole(file', sess'.hash)
<1>t. stray \in BOOLEAN /\ stray' \in BOOLEAN /\ ShapeInv
  BY ShapeStep DEF UInv, ShapeInv, TypeOK
<1>s. ~ stray
  BY <1>t DEF Next, InitUpload, SaveChunk, CompleteUpload, ReadForInit, Instant, Resume, Adopt,
     Rebuild, SaveNewSession, CheckAndOpen, WriteChunk, MarkChunk, ReadForComplete, Verify,
     MarkCompleted, ReadForRemoval, RemoveUpload, Expire, SweepList, SweepFile, SweepRow, Crash, vars
<1>f. \A r \in Reqs : pc[r] = "finish" => arg[r] \in Contents /\ Whole(file, arg[r])
  BY <1>s DEF UInv, FinishInv, ShapeInv, CallInv, Working
<1>c. sess # None /\ sess.done => sess.hash \in Contents /\ Whole(file, sess.hash)
  BY <1>s DEF UInv, CompletedIsWhole, ShapeInv, TypeOK, Session
<1> USE <1>t, <1>f, <1>c, <1>s DEF ShapeInv, TypeOK, locals
<1>1. ASSUME NEW r \in Reqs, NEW c \in Contents, ReadForInit(r, c) PROVE Fin /\ Com
  BY <1>1 DEF ReadForInit, Idle, Goto
<1>2. ASSUME NEW r \in Reqs, Instant(r) PROVE Fin /\ Com
  BY <1>2 DEF Instant, Return, Goto
<1>3. ASSUME NEW r \in Reqs, Resume(r) PROVE Fin /\ Com
  <2>1. ~ sess'.done
    BY <1>3 DEF Resume, CanResume, Uploading, CallInv, Reading, Read, Session
  <2> QED
    BY <1>3, <2>1 DEF Resume, Return, Goto
<1>4. ASSUME NEW r \in Reqs, Adopt(r) PROVE Fin /\ Com
  <2>1. sess'.hash = arg[r]
    BY <1>4 DEF Adopt, Fresh
  <2> QED
    BY <1>4, <2>1 DEF Adopt, CanAdopt, Return, Goto
<1>5. ASSUME NEW r \in Reqs, Rebuild(r) PROVE Fin /\ Com
  BY <1>5, UploadAssumption DEF Rebuild, Goto
<1>6. ASSUME NEW r \in Reqs, SaveNewSession(r) PROVE Fin /\ Com
  BY <1>6 DEF SaveNewSession, Return, Goto, Fresh
<1>7. ASSUME NEW r \in Reqs, NEW c \in Contents, NEW i \in Chunks, i <= Size[c], CheckAndOpen(r, c, i) PROVE Fin /\ Com
  BY <1>7 DEF CheckAndOpen, Idle, Goto
<1>8. ASSUME NEW r \in Reqs, WriteChunk(r) PROVE Fin /\ Com
  <2>1. /\ pc'[r] # "finish" /\ UNCHANGED sess
        /\ \A q \in Reqs : q # r => pc'[q] = pc[q] /\ arg'[q] = arg[q]
    BY <1>8 DEF WriteChunk, Return, Goto
  <2> QED
    BY <1>8, <2>1, WriteKeepsWhole
<1>9. ASSUME NEW r \in Reqs, MarkChunk(r) PROVE Fin /\ Com
  <2>1. idx[r] \in Chunks
    BY <1>9, ChunkFacts DEF MarkChunk, CallInv, Working
  <2> QED
    BY <1>9, <2>1, MarkedFacts DEF MarkChunk, Return, Goto
<1>10. ASSUME NEW r \in Reqs, NEW c \in Contents, ReadForComplete(r, c) PROVE Fin /\ Com
  BY <1>10 DEF ReadForComplete, Idle, Goto
<1>11. ASSUME NEW r \in Reqs, Verify(r) PROVE Fin /\ Com
  BY <1>11 DEF Verify, Return, Goto
<1>12. ASSUME NEW r \in Reqs, MarkCompleted(r) PROVE Fin /\ Com
  <2>1. sess' # None => sess'.hash = arg[r]
    BY <1>12 DEF MarkCompleted, Session
  <2> QED
    BY <1>12, <2>1 DEF MarkCompleted, Return, Goto
<1>13. ASSUME NEW r \in Reqs, NEW how \in {"cancel", "remove"}, ReadForRemoval(r, how) PROVE Fin /\ Com
  BY <1>13 DEF ReadForRemoval, Idle, Goto
<1>14. ASSUME NEW r \in Reqs, RemoveUpload(r) PROVE Fin /\ Com
  BY <1>14, UploadAssumption DEF RemoveUpload, Goto
<1>15. ASSUME Expire PROVE Fin /\ Com
  BY <1>15 DEF Expire, Session
<1>16. ASSUME SweepList PROVE Fin /\ Com
  BY <1>16 DEF SweepList
<1>17. ASSUME SweepFile PROVE Fin /\ Com
  BY <1>17 DEF SweepFile
<1>18. ASSUME SweepRow PROVE Fin /\ Com
  BY <1>18 DEF SweepRow
<1>19. ASSUME Crash PROVE Fin /\ Com
  BY <1>19 DEF Crash, Idle
<1>20. ASSUME UNCHANGED vars PROVE Fin /\ Com
  BY <1>20 DEF vars
<1> QED
  BY <1>1, <1>2, <1>3, <1>4, <1>5, <1>6, <1>7, <1>8, <1>9, <1>10, <1>11, <1>12,
     <1>13, <1>14, <1>15, <1>16, <1>17, <1>18, <1>19, <1>20 DEF Next, InitUpload, SaveChunk, CompleteUpload

(* A session marked completed stands for a file that is whole, and so does *)
(* the verification until its mark is made, whatever requests, sweeps and  *)
(* crashes come between (CompletedIsWhole; upload/chunkupload.go).         *)
THEOREM CompletedStaysWhole == Spec => []CompletedIsWhole
<1>1. Init => UInv
  BY ShapeInit DEF Init, UInv, FinishInv, CompletedIsWhole
<1>2. UInv => CompletedIsWhole
  BY DEF UInv
<1> QED
  BY <1>1, <1>2, WholeStep, PTL DEF Spec

=============================================================================
