---------------------------- MODULE BufferStream ---------------------------
(***************************************************************************)
(* A stream of bytes kept as chunks in rocksdb: the script that writes it  *)
(* (BufferStream::write, buffer_stream.cpp), a script that reads it        *)
(* (BufferStream::read), and the reader of the user interface              *)
(* (stream.es), whose requests the server answers (Dispatcher::readStream, *)
(* dispatcher.cpp).                                                        *)
(*                                                                         *)
(* The n-th byte written is the number n.  One script writes a stream; the *)
(* three Puts of a write are visible to readers one by one.  A packet      *)
(* reaches the user interface when its stream is written, and one read()   *)
(* of a stream is under way at a time.                                     *)
(***************************************************************************)
EXTENDS Integers, Sequences, SequencesExt

CONSTANTS ChunkSizes,  \* sizes of the buffers the script writes
          MaxChunks,   \* bound on the writes
          ReadSizes,   \* sizes asked for; All: read() without a size
          All,
          MaxReads     \* bound on the calls of read()

StreamAssumption ==
    /\ ChunkSizes \subseteq Nat \ {0}
    /\ MaxChunks \in Nat
    /\ ReadSizes \subseteq (Nat \ {0}) \cup {All} /\ All \notin Nat
    /\ MaxReads \in Nat

VARIABLES
    stored,      \* the chunks in the table
    chunks,      \* what ".chunks" says
    length,      \* what ".length" says
    writing,     \* the chunk being written
    puts,        \* how many of its Puts are done
    scriptIndex, \* BufferStream::Private::index of the reading script
    scriptRead,  \* the bytes it has read
    index,       \* this.index of the reader in the user interface
    offset,      \* this.offset
    readPc,      \* its read(): none, asked for a chunk, or answered
    size,        \* argument of that read()
    answer,      \* the answered chunk, <<>> for none
    buffer,      \* what it has put together
    reads,       \* calls of read()
    delivered    \* the bytes all of them have returned

tableVars  == <<stored, chunks, length>>
writerVars == <<writing, puts>>
scriptVars == <<scriptIndex, scriptRead>>
readerVars == <<index, offset, readPc, size, answer, buffer, reads, delivered>>
vars == <<tableVars, writerVars, scriptVars, readerVars>>

Init ==
    /\ stored = <<>> /\ chunks = 0 /\ length = 0
    /\ writing = <<>> /\ puts = 0
    /\ scriptIndex = 0 /\ scriptRead = <<>>
    /\ index = 0 /\ offset = 0
    /\ readPc = "none" /\ size = All /\ answer = <<>> /\ buffer = <<>>
    /\ reads = 0 /\ delivered = <<>>

-----------------------------------------------------------------------------
(* The writing script.                                                     *)

\* Mutation: the length is stored before the chunk.
PutsLengthFirst == <<"length", "chunk", "chunks">>

\* The Puts of a write, in order.
Puts == <<"chunk", "chunks", "length">>

Write(n) ==
    /\ writing = <<>> /\ chunks < MaxChunks /\ reads = 0
    /\ writing' = [i \in 1..n |-> length + i]
    /\ UNCHANGED <<tableVars, puts, scriptVars, readerVars>>

Put ==
    /\ writing # <<>>
    /\ LET key == Puts[puts + 1]
       IN  /\ stored' = IF key = "chunk" THEN Append(stored, writing) ELSE stored
           /\ chunks' = IF key = "chunks" THEN chunks + 1 ELSE chunks
           /\ length' = IF key = "length" THEN length + Len(writing) ELSE length
    /\ puts' = (puts + 1) % 3
    /\ writing' = IF puts = 2 THEN <<>> ELSE writing
    /\ UNCHANGED <<scriptVars, readerVars>>

-----------------------------------------------------------------------------
(* The reading script.                                                     *)

\* What the table holds at an index, <<>> for nothing.
Chunk(i) == IF i < Len(stored) THEN stored[i + 1] ELSE <<>>

\* Mutation: the index moves on although there was no chunk.
ScriptReadPast ==
    /\ scriptIndex < MaxChunks
    /\ scriptIndex' = scriptIndex + 1
    /\ scriptRead' = scriptRead \o Chunk(scriptIndex)
    /\ UNCHANGED <<tableVars, writerVars, readerVars>>

\* BufferStream::read (without a chunk it returns null and changes nothing).
ScriptRead ==
    /\ Chunk(scriptIndex) # <<>>
    /\ scriptIndex' = scriptIndex + 1
    /\ scriptRead' = scriptRead \o Chunk(scriptIndex)
    /\ UNCHANGED <<tableVars, writerVars, readerVars>>

-----------------------------------------------------------------------------
(* The reader of the user interface.                                       *)

\* read() up to its first await.
Call(n) ==
    /\ readPc = "none" /\ reads < MaxReads
    /\ writing = <<>> /\ length > 0
    /\ readPc' = "asked"
    /\ size' = n
    /\ reads' = reads + 1
    /\ UNCHANGED <<tableVars, writerVars, scriptVars, index, offset, answer, buffer, delivered>>

\* The server answers with the chunk at the index, which the reader has
\* moved on already.
Serve ==
    /\ readPc = "asked"
    /\ readPc' = "answered"
    /\ answer' = Chunk(index)
    /\ index' = index + 1
    /\ UNCHANGED <<tableVars, writerVars, scriptVars, offset, size, buffer, reads, delivered>>

Return(bytes) ==
    /\ delivered' = delivered \o bytes
    /\ readPc' = "none"
    /\ buffer' = <<>> /\ answer' = <<>>
    /\ UNCHANGED <<tableVars, writerVars, scriptVars, size, reads>>

\* Mutation: a reader at the end asks again and again.
ResumeAtEndPolling ==
    /\ readPc = "answered" /\ answer = <<>>
    /\ readPc' = "asked"
    /\ index' = index - 1
    /\ UNCHANGED <<tableVars, writerVars, scriptVars, offset, size, answer, buffer, reads, delivered>>

\* No chunk: read() returns what it has; the index stays moved on.
ResumeAtEnd ==
    /\ readPc = "answered" /\ answer = <<>>
    /\ Return(buffer)
    /\ UNCHANGED <<index, offset>>

\* The bytes so far, with what the offset leaves of the answered chunk.
Rest   == SubSeq(answer, offset + 1, Len(answer))
Joined == buffer \o Rest
Enough == size # All /\ Len(Joined) > size

\* Mutation: the operands are exchanged.
OffsetInExchanged == Len(Joined) - size - Len(Rest)

\* Where the next read() is to go on in this chunk.
OffsetIn == Len(Rest) - (Len(Joined) - size)

\* Mutation: the index is not moved back to the chunk.
ResumeEnoughForward ==
    /\ readPc = "answered" /\ answer # <<>> /\ Enough
    /\ offset' = OffsetIn
    /\ index' = index
    /\ Return(SubSeq(Joined, 1, size))

\* More than was asked for: the rest of the chunk is left.
ResumeEnough ==
    /\ readPc = "answered" /\ answer # <<>> /\ Enough
    /\ offset' = OffsetIn
    /\ index' = index - 1
    /\ Return(SubSeq(Joined, 1, size))

ResumeMore ==
    /\ readPc = "answered" /\ answer # <<>> /\ ~Enough
    /\ buffer' = Joined
    /\ offset' = 0
    /\ readPc' = "asked" /\ answer' = <<>>
    /\ UNCHANGED <<tableVars, writerVars, scriptVars, index, size, reads, delivered>>

Reader == Serve \/ ResumeAtEnd \/ ResumeEnough \/ ResumeMore

Terminated == readPc = "none" /\ reads = MaxReads /\ UNCHANGED vars

Next == \/ \E n \in ChunkSizes : Write(n)
        \/ Put
        \/ ScriptRead
        \/ \E n \in ReadSizes : Call(n)
        \/ Reader
        \/ Terminated

Spec == Init /\ [][Next]_vars

\* The script's write() and the server's answers come to an end.
Fairness == WF_vars(Put) /\ WF_vars(Reader)
FairSpec == Spec /\ Fairness

-----------------------------------------------------------------------------
\* The bytes in the table.
BytesStored == UNION {ToSet(stored[i]) : i \in DOMAIN stored}

TypeOK ==
    /\ stored \in Seq(Seq(Nat))
    /\ chunks \in 0..MaxChunks /\ length \in Nat
    /\ writing \in Seq(Nat) /\ puts \in 0..2
    /\ scriptIndex \in 0..MaxChunks /\ scriptRead \in Seq(Nat)
    /\ index \in Nat
    /\ offset \in {0} \cup BytesStored
    /\ readPc \in {"none", "asked", "answered"}
    /\ size \in ReadSizes \cup {All}
    /\ answer \in Seq(Nat) /\ buffer \in Seq(Nat)
    /\ reads \in 0..MaxReads
    /\ delivered \in Seq(Nat)

Sequential(bytes) == \A i \in DOMAIN bytes : bytes[i] = i

\* What ".chunks" and ".length" promise is in the table, between the Puts of
\* a write too.
LengthIsBacked == chunks <= Len(stored) /\ 1..length \subseteq BytesStored

\* A reading script gets the bytes in the order written, each once, whether
\* it keeps up with the writer or not.
ScriptReadsInOrder == Sequential(scriptRead)

\* However the user interface divides a stream, no byte is left out: what a
\* read() returns goes on at most one byte after what was returned before.
\* (Bytes can be returned again, see ShowsOmittedBytes.)
NothingSkipped ==
    \A i \in DOMAIN delivered :
        delivered[i] <= 1 + (IF i = 1 THEN 0 ELSE delivered[i - 1])

\* Every read() returns.
ReadsReturn == [](readPc # "none" => <>(readPc = "none"))

\* binary-view.tag offers to show "more" of the "omitted" bytes and appends
\* what a read() returns: after every click, the bytes are the stream's.
ShowsOmittedBytes == Sequential(delivered)
=============================================================================
