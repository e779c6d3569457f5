---------------------------- MODULE CommentFiles ----------------------------
(***************************************************************************)
(* The comments of one task and the files on it and on them. The bytes of  *)
(* a file are in an object storage and its row in the database, and no     *)
(* transaction spans the two: a comment that fails takes its files out of  *)
(* the storage again, and a deletion removes the object before the row. A  *)
(* comment without text goes with its last file.                           *)
(***************************************************************************)
EXTENDS Naturals

CONSTANTS
    Note,       \* the comments
    File,       \* the keys of the storage
    Poster,     \* the requests that may be under way at once
    Draft, OnTask, Nowhere,
    MaxPosts    \* a bound of the runs: requests

ASSUME ThreadAssumption ==
    /\ {Draft, OnTask, Nowhere} \cap Note = {} /\ Draft # OnTask
    /\ Nowhere \notin {Draft, OnTask} /\ MaxPosts \in Nat

VARIABLES
    live,       \* whether the task is there
    notes,      \* each comment: not written, with text, without, or deleted
    filed,      \* the row of each file: what it is attached to
    minted,     \* what its key was signed for
    bytes,      \* its object in the storage
    post,       \* the requests
    doomed,     \* the files somebody has asked to delete
    twice,      \* the files that were posted by two requests at once
    thinned,    \* the comments that lost two files at once
    posts

thread == <<live, notes, filed, minted, bytes, post, doomed, twice, thinned, posts>>

NoPost == [pc |-> "idle", files |-> {}, note |-> Nowhere, bare |-> FALSE]

ThreadInit ==
    /\ live = TRUE /\ notes = [n \in Note |-> "none"]
    /\ filed = [k \in File |-> Nowhere] /\ minted = [k \in File |-> Nowhere]
    /\ bytes = [k \in File |-> "none"]
    /\ post = [r \in Poster |-> NoPost]
    /\ doomed = {} /\ twice = {} /\ thinned = {} /\ posts = 0

Present(n) == notes[n] \in {"text", "bare"}

\* What a file can be put on.
Holders == (IF live THEN {OnTask} ELSE {}) \cup {n \in Note : Present(n)}
FilesOn(n) == {k \in File : filed[k] = n}

Take(r, pc, F, n, bare) ==
    /\ post[r] = NoPost /\ posts < MaxPosts /\ posts' = posts + 1
    /\ post' = [post EXCEPT ![r] = [pc |-> pc, files |-> F, note |-> n, bare |-> bare]]
Proceed(r, from, to) == post[r].pc = from /\ post' = [post EXCEPT ![r].pc = to]
Finish(r) == post' = [post EXCEPT ![r] = NoPost]

\* Refused by a check, failed or rolled back; or the process died.
GiveUpPost(r) ==
    /\ post[r].pc # "idle" /\ Finish(r)
    /\ UNCHANGED <<live, notes, filed, minted, bytes, doomed, twice, thinned, posts>>

\* A key is signed, and the upload succeeds or not.
Stage(k) ==
    /\ minted[k] = Nowhere
    /\ \E what \in Holders \cup (IF live THEN {Draft} ELSE {}), b \in {"none", "there"} :
          minted' = [minted EXCEPT ![k] = what] /\ bytes' = [bytes EXCEPT ![k] = b]
    /\ UNCHANGED <<live, notes, filed, post, doomed, twice, thinned, posts>>

-----------------------------------------------------------------------------
(* createComment: text, files, or both.                                    *)

PostNote(r) ==
    /\ live
    /\ \E F \in SUBSET {k \in File : minted[k] = Draft}, bare \in BOOLEAN :
          /\ bare => F # {}
          /\ Take(r, "attached", F, Nowhere, bare)
    /\ UNCHANGED <<live, notes, filed, minted, bytes, doomed, twice, thinned>>

\* Mutant of Unattached: the files are taken as they come.
UnattachedAnyway(F) == F \subseteq File

\* No row has the key of one of them.
Unattached(F) == \A k \in F : filed[k] = Nowhere

\* The files of posts that are past the check for rows.
Pending(q) == IF post[q].pc \in {"heads", "write", "discard"} THEN post[q].files ELSE {}

\* prepareCommentAttachments
CheckAttached(r) ==
    /\ Proceed(r, "attached", "heads") /\ Unattached(post[r].files)
    /\ twice' = twice \cup (post[r].files \cap UNION {Pending(q) : q \in Poster \ {r}})
    /\ UNCHANGED <<live, notes, filed, minted, bytes, doomed, thinned, posts>>

CheckBytes(r) ==
    /\ Proceed(r, "heads", "write") /\ \A k \in post[r].files : bytes[k] = "there"
    /\ UNCHANGED <<live, notes, filed, minted, bytes, doomed, twice, thinned, posts>>

\* The key of a row is unique.
WriteNote(r) ==
    /\ post[r].pc = "write" /\ live /\ \A k \in post[r].files : filed[k] = Nowhere
    /\ \E n \in Note :
          /\ notes[n] = "none"
          /\ notes' = [notes EXCEPT ![n] = IF post[r].bare THEN "bare" ELSE "text"]
          /\ filed' = [k \in File |-> IF k \in post[r].files THEN n ELSE filed[k]]
    /\ Finish(r) /\ UNCHANGED <<live, minted, bytes, doomed, twice, thinned, posts>>

\* The transaction has failed: discardUploads follows.
FailNote(r) ==
    /\ Proceed(r, "write", "discard")
    /\ UNCHANGED <<live, notes, filed, minted, bytes, doomed, twice, thinned, posts>>

\* An object is removed, or the storage fails and the next one follows.
RemoveObject(r, k) ==
    /\ k \in post[r].files
    /\ \E b \in {"gone", bytes[k]} : bytes' = [bytes EXCEPT ![k] = b]
    /\ post' = [post EXCEPT ![r].files = @ \ {k}]
    /\ UNCHANGED <<live, notes, filed, minted, doomed, twice, thinned, posts>>

Discard(r) == post[r].pc = "discard" /\ \E k \in File : RemoveObject(r, k)

-----------------------------------------------------------------------------
(* The other requests.                                                     *)

\* updateComment: with text.
EditNote(r, n) ==
    /\ Present(n) /\ Take(r, "edit", {}, n, FALSE)
    /\ UNCHANGED <<live, notes, filed, minted, bytes, doomed, twice, thinned>>

WriteEdit(r) ==
    /\ post[r].pc = "edit" /\ Present(post[r].note)
    /\ notes' = [notes EXCEPT ![post[r].note] = "text"]
    /\ Finish(r) /\ UNCHANGED <<live, filed, minted, bytes, doomed, twice, thinned, posts>>

\* createTaskAttachment and createCommentAttachment, whether the upload succeeded or not.
ConfirmFile(r, k) ==
    /\ minted[k] \in Holders /\ Take(r, "confirm", {k}, minted[k], FALSE)
    /\ UNCHANGED <<live, notes, filed, minted, bytes, doomed, twice, thinned>>

WriteFile(r) ==
    /\ post[r].pc = "confirm" /\ post[r].note \in Holders
    /\ \A k \in post[r].files : filed[k] = Nowhere
    /\ filed' = [k \in File |-> IF k \in post[r].files THEN post[r].note ELSE filed[k]]
    /\ Finish(r) /\ UNCHANGED <<live, notes, minted, bytes, doomed, twice, thinned, posts>>

\* deleteAttachment: the object, then the row and, when that was the last file of a
\* comment that had no text as it was read, the comment.
ReadFile(r, k) ==
    /\ filed[k] # Nowhere
    /\ Take(r, "object", {k}, filed[k], \E n \in Note : filed[k] = n /\ notes[n] = "bare")
    /\ doomed' = doomed \cup {k}
    /\ UNCHANGED <<live, notes, filed, minted, bytes, twice, thinned>>

DropObject(r) ==
    /\ Proceed(r, "object", "row")
    /\ bytes' = [k \in File |-> IF k \in post[r].files THEN "gone" ELSE bytes[k]]
    /\ UNCHANGED <<live, notes, filed, minted, doomed, twice, thinned, posts>>

\* The rows that other transactions have deleted and nobody else sees deleted yet.
Dropping(r) == UNION {post[q].files : q \in {p \in Poster \ {r} : post[p].pc \in {"count", "close", "last"}}}

DropRow(r) ==
    /\ Proceed(r, "row", IF post[r].bare THEN "count" ELSE "close")
    /\ live /\ post[r].note # Nowhere /\ post[r].files \cap Dropping(r) = {}
    /\ UNCHANGED <<live, notes, filed, minted, bytes, doomed, twice, thinned, posts>>

CountLeft(r) ==
    LET left == FilesOn(post[r].note) \ post[r].files
    IN  /\ Proceed(r, "count", IF left = {} THEN "last" ELSE "close")
        /\ thinned' = IF left \cap Dropping(r) = {} THEN thinned ELSE thinned \cup {post[r].note}
        /\ UNCHANGED <<live, notes, filed, minted, bytes, doomed, twice, posts>>

\* The rows go; who has read one of them and not dropped it will find it gone.
Without(r, F) ==
    /\ filed' = [k \in File |-> IF k \in F THEN Nowhere ELSE filed[k]]
    /\ post' = [q \in Poster |->
          IF q = r THEN NoPost
          ELSE IF post[q].pc \in {"object", "row"} /\ post[q].files \cap F # {}
          THEN [post[q] EXCEPT !.note = Nowhere] ELSE post[q]]

CloseFile(r) ==
    /\ post[r].pc = "close" /\ Without(r, post[r].files)
    /\ UNCHANGED <<live, notes, minted, bytes, doomed, twice, thinned, posts>>

\* The comment with all its rows, for whose locks it waits.
Delete(r, n) ==
    /\ Present(n) /\ FilesOn(n) \cap Dropping(r) = {}
    /\ notes' = [notes EXCEPT ![n] = "gone"] /\ Without(r, FilesOn(n))
    /\ UNCHANGED <<live, minted, bytes, doomed, twice, thinned, posts>>

CloseNote(r) == post[r].pc = "last" /\ Delete(r, post[r].note)

\* deleteComment: the objects as far as they go, then the comment.
ReadNote(r, n) ==
    /\ Present(n) /\ Take(r, "purge", FilesOn(n), n, FALSE)
    /\ doomed' = doomed \cup FilesOn(n)
    /\ UNCHANGED <<live, notes, filed, minted, bytes, twice, thinned>>

Purge(r) == post[r].pc = "purge" /\ \E k \in File : RemoveObject(r, k)
DeleteNote(r) == post[r].pc = "purge" /\ post[r].files = {} /\ Delete(r, post[r].note)

\* deleteTask: the task with all that is on it, then the objects as far as they go.
ReadTask(r) ==
    /\ live /\ Take(r, "task", {k \in File : filed[k] # Nowhere}, OnTask, FALSE)
    /\ UNCHANGED <<live, notes, filed, minted, bytes, doomed, twice, thinned>>

RemoveTask(r) ==
    /\ Proceed(r, "task", "discard") /\ live /\ Dropping(r) = {}
    /\ live' = FALSE /\ filed' = [k \in File |-> Nowhere]
    /\ notes' = [n \in Note |-> IF Present(n) THEN "gone" ELSE notes[n]]
    /\ UNCHANGED <<minted, bytes, doomed, twice, thinned, posts>>

-----------------------------------------------------------------------------
ThreadNext ==
    \/ \E k \in File : Stage(k)
    \/ \E r \in Poster :
         \/ PostNote(r) \/ CheckAttached(r) \/ CheckBytes(r) \/ WriteNote(r) \/ FailNote(r)
         \/ Discard(r) \/ WriteEdit(r) \/ WriteFile(r) \/ DropObject(r) \/ DropRow(r)
         \/ CountLeft(r) \/ CloseFile(r) \/ CloseNote(r) \/ Purge(r) \/ DeleteNote(r)
         \/ ReadTask(r) \/ RemoveTask(r) \/ GiveUpPost(r)
         \/ \E n \in Note : EditNote(r, n) \/ ReadNote(r, n)
         \/ \E k \in File : ConfirmFile(r, k) \/ ReadFile(r, k)

ThreadSpec == ThreadInit /\ [][ThreadNext]_thread

\* A file that was posted with a comment is there as long as its row is, unless somebody
\* asked to delete it: the files of a post that failed are never those of a comment that
\* stands, however often they are sent, unless they were sent twice at once.
FilesKept ==
    \A k \in File :
        filed[k] # Nowhere /\ minted[k] = Draft /\ bytes[k] # "there" => k \in doomed \cup twice

\* "A comment must always carry text or files": when the last file of one without text
\* is deleted, the comment goes as well, unless two files go at once.
NoneEmpty == \A n \in Note : notes[n] = "bare" => n \in thinned \/ FilesOn(n) # {}

\* Both.
ThreadHolds == FilesKept /\ NoneEmpty
=============================================================================
