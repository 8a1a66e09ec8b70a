------------------------------- MODULE FileStore -------------------------------
(***************************************************************************)
(* What MediaService promises about a file: an upload is one step, which   *)
(* keeps the whole file or nothing of it.  Nobody sees blocks, buffers or  *)
(* other uploads.  A caller who is told "failed" may have a file that is   *)
(* kept; who is told "stored" has one, and who is told "refused" has none. *)
(***************************************************************************)
CONSTANTS
    Uploads,    \* uploads that run at a time
    Files,      \* what can be uploaded
    Content,    \* what each file holds
    None        \* nothing kept

VARIABLES
    status,     \* idle, pending or the answer
    file,       \* the file of each upload
    kept        \* what is kept of it

vars == <<status, file, kept>>

Init ==
    /\ status = [u \in Uploads |-> "idle"]
    /\ file = [u \in Uploads |-> None]
    /\ kept = [u \in Uploads |-> None]

Begin(u) ==
    /\ status[u] # "pending"
    /\ status' = [status EXCEPT ![u] = "pending"]
    /\ \E f \in Files : file' = [file EXCEPT ![u] = f]
    /\ kept' = [kept EXCEPT ![u] = None]

Answer(u, answers) ==
    /\ status[u] = "pending"
    /\ \E answer \in answers : status' = [status EXCEPT ![u] = answer]
    /\ UNCHANGED file

Keep(u) ==
    /\ Answer(u, {"stored", "failed"})
    /\ kept' = [kept EXCEPT ![u] = Content[file[u]]]

Discard(u) == Answer(u, {"refused", "failed"}) /\ UNCHANGED kept

Next == \E u \in Uploads : Begin(u) \/ Keep(u) \/ Discard(u)

Spec == Init /\ [][Next]_vars
=============================================================================
