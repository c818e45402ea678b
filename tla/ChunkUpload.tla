---------------------------- MODULE ChunkUpload ----------------------------
(***************************************************************************)
(* Chunked upload to one path (service/upload/chunkupload.go): the session *)
(* row, the file, and the requests and the sweeper that work on both.      *)
(* Every operation reads the session before it takes the lock of the path; *)
(* chunks are written, and expired sessions removed, without the lock.     *)
(* The path belongs to one user.  A content stands for its MD5; its chunks *)
(* differ from those of every other content.                               *)
(***************************************************************************)
EXTENDS Naturals, Sequences, FiniteSets

CONSTANTS
    Reqs,       \* requests at a time
    Contents,   \* what users upload to the path
    Size,       \* chunks of each content
    Expires,    \* bound: whether sessions expire
    None

ASSUME UploadAssumption ==
    /\ Size \in [Contents -> Nat \ {0}]
    /\ Expires \in BOOLEAN
    /\ None \notin Contents \cup Reqs

VARIABLES
    sess,     \* the row of upload_sessions
    file,     \* the chunks of the file, or None
    lock,     \* who holds the lock of the path
    pc, arg, idx,   \* of each request: where it is, its content, its chunk
    saw,      \* what it read before the lock
    open,     \* requests whose open file is the one at the path
    sweep,    \* where the sweeper is
    stray     \* history: a whole file was written to or removed unasked

locals == <<pc, arg, idx, saw, open>>
vars == <<sess, file, lock, locals, sweep, stray>>

Zero == "zero"     \* a chunk of a hole
Chunks == UNION {1..Size[c] : c \in Contents}
Session == [hash : Contents, total : Chunks, bmp : SUBSET Chunks, bytes : Nat,
            done : BOOLEAN, expired : BOOLEAN]

(* fileMD5: the content whose chunks these are.                            *)
Whole(f, c) == f # None /\ f = [i \in 1..Size[c] |-> c]

FileLen == IF file = None THEN 0 ELSE Len(file)

Fresh(c) == [hash |-> c, total |-> Size[c], bmp |-> {}, bytes |-> 0,
             done |-> FALSE, expired |-> FALSE]

Init ==
    /\ sess = None /\ file = None /\ lock = None
    /\ pc = [r \in Reqs |-> "idle"]
    /\ arg = [r \in Reqs |-> None]
    /\ idx = [r \in Reqs |-> 0]
    /\ saw = [r \in Reqs |-> None]
    /\ open = {}
    /\ sweep = "idle"
    /\ stray = FALSE

Idle(r) == pc[r] = "idle"

Goto(r, to) == pc' = [pc EXCEPT ![r] = to]

(* A request gets its answer; what it knew is forgotten.                   *)
Return(r) ==
    /\ Goto(r, "idle")
    /\ arg' = [arg EXCEPT ![r] = None]
    /\ idx' = [idx EXCEPT ![r] = 0]
    /\ saw' = [saw EXCEPT ![r] = None]
    /\ open' = open \ {r}

Uploading(s) == s # None /\ ~ s.done

-----------------------------------------------------------------------------
(* InitUpload: the row and the size of the file are read before the lock.  *)

ReadForInit(r, c) ==
    /\ Idle(r)
    /\ Goto(r, "init")
    /\ arg' = [arg EXCEPT ![r] = c]
    /\ saw' = [saw EXCEPT ![r] = [sess |-> sess,
                                  match |-> FileLen = Size[c]]]
    /\ UNCHANGED <<sess, file, lock, idx, open, sweep, stray>>

SawDone(r) == saw[r].sess # None /\ saw[r].sess.done

CanInstant(r) == SawDone(r) /\ saw[r].sess.hash = arg[r] /\ saw[r].match

CanResume(r) == Uploading(saw[r].sess) /\ saw[r].match /\ saw[r].sess.hash = arg[r]

CanAdopt(r) == saw[r].match /\ Whole(file, arg[r])

Instant(r) ==
    /\ pc[r] = "init" /\ lock = None
    /\ CanInstant(r)
    /\ Return(r)
    /\ UNCHANGED <<sess, file, lock, sweep, stray>>

(* The row is saved as it was read.                                        *)
Resume(r) ==
    /\ pc[r] = "init" /\ lock = None
    /\ CanResume(r)
    /\ sess' = [saw[r].sess EXCEPT !.total = Size[arg[r]], !.expired = FALSE]
    /\ Return(r)
    /\ UNCHANGED <<file, lock, sweep, stray>>

Adopt(r) ==
    /\ pc[r] = "init" /\ lock = None
    /\ ~ CanInstant(r) /\ ~ CanResume(r) /\ CanAdopt(r)
    /\ sess' = [Fresh(arg[r]) EXCEPT !.bytes = Size[arg[r]], !.done = TRUE]
    /\ Return(r)
    /\ UNCHANGED <<file, lock, sweep, stray>>

(* ensureFile truncates: what fits of an existing file stays.              *)
Truncated(f, n) == [i \in 1..n |-> IF f # None /\ i \in DOMAIN f THEN f[i] ELSE Zero]

(* A session that was not there when the request looked is not removed.    *)
Rebuild(r) ==
    /\ pc[r] = "init" /\ lock = None
    /\ ~ CanInstant(r) /\ ~ CanResume(r) /\ ~ CanAdopt(r)
    /\ lock' = r
    /\ stray' = (stray \/ (saw[r].sess = None /\ sess # None /\ sess.done))
    /\ sess' = IF saw[r].sess # None THEN None ELSE sess
    /\ file' = Truncated(file, Size[arg[r]])
    /\ Goto(r, "save")
    /\ UNCHANGED <<arg, idx, saw, open, sweep>>

SaveNewSession(r) ==
    /\ pc[r] = "save"
    /\ sess' = Fresh(arg[r])
    /\ lock' = None
    /\ Return(r)
    /\ UNCHANGED <<file, sweep, stray>>

-----------------------------------------------------------------------------
(* SaveChunk of chunk i of content c.                                      *)

CheckAndOpen(r, c, i) ==
    /\ Idle(r)
    /\ Uploading(sess) /\ i <= sess.total
    /\ file # None
    /\ Goto(r, "write")
    /\ arg' = [arg EXCEPT ![r] = c]
    /\ idx' = [idx EXCEPT ![r] = i]
    /\ saw' = [saw EXCEPT ![r] = [sess |-> sess, match |-> TRUE]]
    /\ open' = open \cup {r}
    /\ UNCHANGED <<sess, file, lock, sweep, stray>>

(* WriteAt may extend the file; a file that was removed takes the bytes    *)
(* with it.  A write or a sync may fail.  A chunk names the path and not   *)
(* the content, so it may come into a file of another content.             *)
WriteChunk(r) ==
    /\ pc[r] = "write"
    /\ stray' = (stray \/ \E c \in Contents \ {arg[r]} : r \in open /\ Whole(file, c))
    /\ \/ /\ file' = IF r \in open
                     THEN [Truncated(file, IF idx[r] > FileLen THEN idx[r] ELSE FileLen)
                             EXCEPT ![idx[r]] = arg[r]]
                     ELSE file
          /\ Goto(r, "mark")
          /\ UNCHANGED <<arg, idx, saw, open>>
       \/ UNCHANGED file /\ Return(r)
    /\ UNCHANGED <<sess, lock, sweep>>

(* Fault: a chunk that is sent again counts again.                         *)
MarkedTwice(s, i) ==
    [s EXCEPT !.bmp = @ \cup {i}, !.expired = FALSE,
              !.bytes = IF @ < 3 * Cardinality(Chunks) THEN @ + 1 ELSE @]

Marked(s, i) == [s EXCEPT !.bmp = @ \cup {i}, !.expired = FALSE,
                          !.bytes = IF i \in s.bmp THEN @ ELSE @ + 1]

(* Fault: the bitmap read before the write is written back.                *)
MarkFromStale(r) ==
    /\ pc[r] = "mark" /\ lock = None
    /\ LET bmp == saw[r].sess.bmp \cup {idx[r]} IN
         sess' = IF sess = None THEN None
                 ELSE [sess EXCEPT !.bmp = bmp, !.bytes = Cardinality(bmp)]
    /\ Return(r)
    /\ UNCHANGED <<file, lock, sweep, stray>>

(* The transaction reads the row again, whatever session that is now.      *)
MarkChunk(r) ==
    /\ pc[r] = "mark" /\ lock = None
    /\ sess' = IF sess = None THEN None ELSE Marked(sess, idx[r])
    /\ Return(r)
    /\ UNCHANGED <<file, lock, sweep, stray>>

-----------------------------------------------------------------------------
(* CompleteUpload with the hash of content c; the web client always sends  *)
(* one.                                                                    *)

ReadForComplete(r, c) ==
    /\ Idle(r)
    /\ Uploading(sess)     \* a completed one is answered at once
    /\ arg' = [arg EXCEPT ![r] = c]
    /\ Goto(r, "verify")
    /\ UNCHANGED <<sess, file, lock, idx, saw, open, sweep, stray>>

Arrived == sess # None /\ 1..sess.total \subseteq sess.bmp

(* Fault: all chunks have arrived, the hash is not looked at.              *)
VerifyCountOnly(r) ==
    /\ pc[r] = "verify" /\ lock = None
    /\ IF Arrived THEN lock' = r /\ Goto(r, "finish") /\ UNCHANGED <<arg, idx, saw, open>>
       ELSE Return(r) /\ UNCHANGED lock
    /\ UNCHANGED <<sess, file, sweep, stray>>

Verify(r) ==
    /\ pc[r] = "verify" /\ lock = None
    /\ IF Arrived /\ FileLen = sess.total /\ Whole(file, arg[r])
       THEN lock' = r /\ Goto(r, "finish") /\ UNCHANGED <<arg, idx, saw, open>>
       ELSE Return(r) /\ UNCHANGED lock
    /\ UNCHANGED <<sess, file, sweep, stray>>

MarkCompleted(r) ==
    /\ pc[r] = "finish"
    /\ sess' = IF sess = None THEN None ELSE [sess EXCEPT !.done = TRUE, !.hash = arg[r]]
    /\ lock' = None
    /\ Return(r)
    /\ UNCHANGED <<file, sweep, stray>>

-----------------------------------------------------------------------------
(* CancelUpload and RemoveUpload.                                          *)

ReadForRemoval(r, how) ==
    /\ Idle(r)
    /\ sess # None
    /\ Goto(r, how)
    /\ saw' = [saw EXCEPT ![r] = [sess |-> sess, match |-> TRUE]]
    /\ UNCHANGED <<sess, file, lock, arg, idx, open, sweep, stray>>

Spared(r) == pc[r] = "cancel" /\ SawDone(r)

RemoveUpload(r) ==
    /\ pc[r] \in {"cancel", "remove"} /\ lock = None
    /\ sess' = None
    /\ file' = IF Spared(r) THEN file ELSE None
    /\ Goto(r, "idle")
    /\ arg' = [arg EXCEPT ![r] = None]
    /\ saw' = [saw EXCEPT ![r] = None]
    /\ open' = IF Spared(r) THEN open ELSE {}
    /\ UNCHANGED <<lock, idx, sweep, stray>>

(* CleanupExpiredSessions: list, then remove the file, then the row.       *)
Expire ==
    /\ Expires
    /\ sess # None
    /\ sess' = [sess EXCEPT !.expired = TRUE]
    /\ UNCHANGED <<file, lock, locals, sweep, stray>>

SweepList ==
    /\ sweep = "idle"
    /\ Uploading(sess) /\ sess.expired
    /\ sweep' = "file"
    /\ UNCHANGED <<sess, file, lock, locals, stray>>

SweepFile ==
    /\ sweep = "file"
    /\ stray' = (stray \/ \E c \in Contents : Whole(file, c))
    /\ file' = None
    /\ open' = {}
    /\ sweep' = "row"
    /\ UNCHANGED <<sess, lock, pc, arg, idx, saw>>

SweepRow ==
    /\ sweep = "row"
    /\ sess' = None
    /\ sweep' = "idle"
    /\ UNCHANGED <<file, lock, locals, stray>>

(* The process dies; the row and the file stay as they are.                *)
Crash ==
    /\ sweep # "idle" \/ \E r \in Reqs : ~ Idle(r)
    /\ lock' = None
    /\ pc' = [r \in Reqs |-> IF Idle(r) THEN pc[r] ELSE "idle"]
    /\ arg' = [r \in Reqs |-> IF Idle(r) THEN arg[r] ELSE None]
    /\ idx' = [r \in Reqs |-> 0]
    /\ saw' = [r \in Reqs |-> None]
    /\ open' = {}
    /\ sweep' = "idle"
    /\ UNCHANGED <<sess, file, stray>>

-----------------------------------------------------------------------------
InitUpload(r) ==
    \/ \E c \in Contents : ReadForInit(r, c)
    \/ Instant(r) \/ Resume(r) \/ Adopt(r) \/ Rebuild(r) \/ SaveNewSession(r)

SaveChunk(r) ==
    \/ \E c \in Contents, i \in Chunks : i <= Size[c] /\ CheckAndOpen(r, c, i)
    \/ WriteChunk(r) \/ MarkChunk(r)

CompleteUpload(r) ==
    \/ \E c \in Contents : ReadForComplete(r, c)
    \/ Verify(r) \/ MarkCompleted(r)

Next ==
    \/ \E r \in Reqs :
         \/ InitUpload(r) \/ SaveChunk(r) \/ CompleteUpload(r)
         \/ \E how \in {"cancel", "remove"} : ReadForRemoval(r, how)
         \/ RemoveUpload(r)
    \/ Expire \/ SweepList \/ SweepFile \/ SweepRow \/ Crash

Spec == Init /\ [][Next]_vars

-----------------------------------------------------------------------------
Read == [sess : Session \cup {None}, match : BOOLEAN]
Files == UNION {[1..n -> Contents \cup {Zero}] : n \in Chunks}

TypeOK ==
    /\ sess \in Session \cup {None}
    /\ file \in Files \cup {None}
    /\ lock \in Reqs \cup {None}
    /\ pc \in [Reqs -> {"idle", "init", "save", "write", "mark", "verify", "finish",
                       "cancel", "remove"}]
    /\ arg \in [Reqs -> Contents \cup {None}] /\ idx \in [Reqs -> Chunks \cup {0}]
    /\ saw \in [Reqs -> Read \cup {None}]
    /\ \A r \in Reqs : (lock = r) <=> (pc[r] \in {"save", "finish"})
    /\ open \subseteq {r \in Reqs : pc[r] \in {"write", "mark"}}
    /\ sweep \in {"idle", "file", "row"} /\ stray \in BOOLEAN

(* A session that is marked completed stands for the file it names: a      *)
(* later upload of the same content is answered at once on its word        *)
(* (InitUpload, rule 1), and the importer reads the file.  The ways in     *)
(* which a whole file is spoilt unasked are named by stray.                *)
CompletedIsWhole ==
    sess # None /\ sess.done /\ ~ stray => Whole(file, sess.hash)

(* Progress is the number of chunks marked, however often a chunk is sent  *)
(* and whatever is reset (SaveChunk, InitUpload).                          *)
CountedOnce == Uploading(sess) => sess.bytes = Cardinality(sess.bmp)

(* Chunks that arrive together do not lose each other's mark, and neither  *)
(* completion nor expiry takes one back: unless an init is under way the   *)
(* bitmap of a session only grows.                                         *)
ProgressKept ==
    [][sess # None /\ sess' # None /\ (\A r \in Reqs : pc[r] \notin {"init", "save"})
         => sess.bmp \subseteq sess'.bmp]_vars

=============================================================================
