----------------------------- MODULE MediaTransfer -----------------------------
(***************************************************************************)
(* MediaService: a file of a message is sent to the storage service in the *)
(* chunks of one gRPC stream.  Uploads run at the same time, in webhook    *)
(* requests of their own, and take turns with the buffers of a sync.Pool.  *)
(*                                                                         *)
(* A body is a row of blocks; one Read of it fills a buffer with the next  *)
(* block.  Read and Send are two steps: whoever else held the buffer in    *)
(* between would change what is sent.  The storage service is external: it *)
(* keeps a file when the stream is closed in order, and tells so.          *)
(***************************************************************************)
EXTENDS Naturals, Sequences

CONSTANTS
    Uploads,    \* uploads that run at a time
    Bodies,     \* files
    Blocks,     \* number of blocks of each file
    Buffers,    \* buffers of the pool, allocated or not
    None        \* absent body, buffer, content or file

ASSUME BlocksAreNat == Blocks \in [Bodies -> Nat]
ASSUME NoneIsNothing == None \notin Bodies \cup Buffers \cup Seq(Bodies \X Nat) \cup (Bodies \X Nat)

VARIABLES
    phase,      \* where each upload stands, at last its answer
    body,       \* the file it sends
    buffer,     \* the buffer it has taken
    pool,       \* MediaService.bufferPool
    content,    \* what is in each buffer
    taken,      \* number of blocks read
    ended,      \* what the last Read returned as an error
    received,   \* what the storage service has of the stream
    stored      \* what it keeps

mediaVars == <<phase, body, buffer, pool, content, taken, ended, received, stored>>

Running == {"open", "read", "send", "close"}
\* "refused" is an answer without an error, but with the status code Failed.
Outcomes == {"stored", "refused", "failed"}

Block(b, i) == <<b, i>>
FirstBlocks(b, n) == [i \in 1..n |-> Block(b, i)]
Whole(b) == FirstBlocks(b, Blocks[b])

-----------------------------------------------------------------------------
MediaInit ==
    /\ phase = [u \in Uploads |-> "idle"]
    /\ body = [u \in Uploads |-> None]
    /\ buffer = [u \in Uploads |-> None]
    /\ pool = Buffers
    /\ content = [p \in Buffers |-> None]
    /\ taken = [u \in Uploads |-> 0]
    /\ ended = [u \in Uploads |-> "nil"]
    /\ received = [u \in Uploads |-> <<>>]
    /\ stored = [u \in Uploads |-> None]

Goto(u, place) == phase' = [phase EXCEPT ![u] = place]

\* defer bufferPool.Put
PutBuffer(u) ==
    /\ pool' = pool \cup {buffer[u]}
    /\ buffer' = [buffer EXCEPT ![u] = None]

\* UploadFile takes a buffer.
GetBuffer(u, b) ==
    /\ phase[u] \notin Running
    /\ \E p \in pool :
          /\ pool' = pool \ {p}
          /\ buffer' = [buffer EXCEPT ![u] = p]
    /\ Goto(u, "open")
    /\ body' = [body EXCEPT ![u] = b]
    /\ taken' = [taken EXCEPT ![u] = 0]
    /\ ended' = [ended EXCEPT ![u] = "nil"]
    /\ received' = [received EXCEPT ![u] = <<>>]
    /\ stored' = [stored EXCEPT ![u] = None]
    /\ UNCHANGED content

\* The stream is opened, the name and the type of the file are sent.
OpenStream(u) ==
    /\ phase[u] = "open"
    /\ Goto(u, "read")
    /\ UNCHANGED <<body, buffer, pool, content, taken, ended, received, stored>>

\* A mutant: the error is looked at before the bytes that came with it.
ReadBlockOrError(u) ==
    /\ phase[u] = "read"
    /\ taken[u] < Blocks[body[u]]
    /\ taken' = [taken EXCEPT ![u] = @ + 1]
    /\ content' = [content EXCEPT ![buffer[u]] = Block(body[u], taken[u] + 1)]
    /\ \/ Goto(u, "send") /\ UNCHANGED ended
       \/ /\ taken[u] + 1 = Blocks[body[u]]
          /\ Goto(u, "close") /\ ended' = [ended EXCEPT ![u] = "EOF"]
    /\ UNCHANGED <<body, buffer, pool, received, stored>>

\* Read returns the next bytes; with the last of them it may return io.EOF, and
\* with any of them an error.
ReadBlock(u) ==
    /\ phase[u] = "read"
    /\ taken[u] < Blocks[body[u]]
    /\ taken' = [taken EXCEPT ![u] = @ + 1]
    /\ content' = [content EXCEPT ![buffer[u]] = Block(body[u], taken[u] + 1)]
    /\ \E e \in {"nil", "EOF", "error"} :
          /\ e = "EOF" => taken[u] + 1 = Blocks[body[u]]
          /\ ended' = [ended EXCEPT ![u] = e]
    /\ Goto(u, "send")
    /\ UNCHANGED <<body, buffer, pool, received, stored>>

\* Read returns io.EOF alone.
ReadEOF(u) ==
    /\ phase[u] = "read"
    /\ taken[u] = Blocks[body[u]]
    /\ ended' = [ended EXCEPT ![u] = "EOF"]
    /\ Goto(u, "close")
    /\ UNCHANGED <<body, buffer, pool, content, taken, received, stored>>

\* streamData sends what was read, then looks at the error of Read.
SendChunk(u) ==
    /\ phase[u] = "send"
    /\ received' = [received EXCEPT ![u] = Append(@, content[buffer[u]])]
    /\ IF ended[u] = "error" THEN Goto(u, "failed") /\ PutBuffer(u)
       ELSE /\ Goto(u, IF ended[u] = "EOF" THEN "close" ELSE "read")
            /\ UNCHANGED <<pool, buffer>>
    /\ UNCHANGED <<body, content, taken, ended, stored>>

\* A mutant: a stream that breaks off counts as closed.
CloseAndRecvAnyway(u) ==
    /\ phase[u] = "close"
    /\ \E keeps \in BOOLEAN :
          stored' = [stored EXCEPT ![u] = IF keeps THEN received[u] ELSE None]
    /\ Goto(u, "stored")
    /\ PutBuffer(u)
    /\ UNCHANGED <<body, content, taken, ended, received>>

\* CloseAndRecv: the file is kept, and its id answered or lost; or it is not,
\* and the answer says so in a status code that UploadFile passes on.
CloseAndRecv(u) ==
    /\ phase[u] = "close"
    /\ \/ /\ stored' = [stored EXCEPT ![u] = received[u]]
          /\ \E answer \in {"stored", "failed"} : Goto(u, answer)
       \/ Goto(u, "refused") /\ UNCHANGED stored
    /\ PutBuffer(u)
    /\ UNCHANGED <<body, content, taken, ended, received>>

\* A mutant: an early return that keeps the buffer.
UploadFailsHolding(u) ==
    /\ phase[u] \in Running
    /\ Goto(u, "failed")
    /\ buffer' = [buffer EXCEPT ![u] = None]
    /\ UNCHANGED <<body, pool, content, taken, ended, received, stored>>

\* A mutant: an upload that has ended fails once more.
UploadFailsAgain(u) ==
    /\ phase[u] # "idle"
    /\ Goto(u, "failed")
    /\ PutBuffer(u)
    /\ UNCHANGED <<body, content, taken, ended, received, stored>>

\* The stream breaks, the request is cancelled, Read fails without bytes.
UploadFails(u) ==
    /\ phase[u] \in Running
    /\ Goto(u, "failed")
    /\ PutBuffer(u)
    /\ UNCHANGED <<body, content, taken, ended, received, stored>>

-----------------------------------------------------------------------------
Upload(u) ==
    \/ \E b \in Bodies : GetBuffer(u, b)
    \/ OpenStream(u) \/ ReadBlock(u) \/ ReadEOF(u) \/ SendChunk(u)
    \/ CloseAndRecv(u) \/ UploadFails(u)

MediaNext == \E u \in Uploads : Upload(u)

MediaSpec == MediaInit /\ [][MediaNext]_mediaVars

-----------------------------------------------------------------------------
(* Properties.                                                             *)

Content == (Bodies \X Nat) \cup {None}

\* The uploads, the pool and the storage have the shape the code gives them.
MediaTypeOK ==
    /\ phase \in [Uploads -> {"idle"} \cup Running \cup Outcomes]
    /\ body \in [Uploads -> Bodies \cup {None}]
    /\ buffer \in [Uploads -> Buffers \cup {None}]
    /\ pool \subseteq Buffers
    /\ content \in [Buffers -> Content]
    /\ taken \in [Uploads -> Nat]
    /\ ended \in [Uploads -> {"nil", "EOF", "error"}]
    /\ received \in [Uploads -> Seq(Content)]
    /\ stored \in [Uploads -> Seq(Content) \cup {None}]

\* sync.Pool: a buffer is in the pool or with one running upload, never with
\* two, and every way out of UploadFile brings it back.
BuffersAccounted ==
    /\ \A u \in Uploads : phase[u] \in Running <=> buffer[u] # None
    /\ \A u \in Uploads : buffer[u] \notin pool
    /\ \A u, v \in Uploads : buffer[u] = buffer[v] /\ buffer[u] # None => u = v
    /\ \A p \in Buffers \ pool : \E u \in Uploads : buffer[u] = p

\* However the uploads share their buffers, and wherever one of them breaks off,
\* the storage keeps a file whole and in order or not at all: not one that ends
\* at a failed read, nor one with a block of another file.
WholeOrNothing ==
    \A u \in Uploads : stored[u] # None => stored[u] = Whole(body[u])

\* A message refers to the file it was told of: an upload that is answered with
\* success and without the status code Failed is in the storage.
AnsweredIsStored ==
    \A u \in Uploads : phase[u] = "stored" => stored[u] # None

Store ==
    INSTANCE FileStore
    WITH Files <- Bodies,
         Content <- [b \in Bodies |-> Whole(b)],
         status <- [u \in Uploads |-> IF phase[u] \in Running THEN "pending" ELSE phase[u]],
         file <- body,
         kept <- stored

\* However the uploads share their buffers, and wherever one of them breaks
\* off, each is one step to those who see the storage and the answers: it keeps
\* the whole of its own file and may say so, or keeps nothing, and touches
\* nothing that another upload keeps.
UploadIsOneStep == Store!Spec
=============================================================================
