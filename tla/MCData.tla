------------------------------- MODULE MCData -------------------------------
(***************************************************************************)
(* Small instances of the models of what is stored: ObjectCache,           *)
(* BufferStream and Buffers.  They share no state, so a behaviour is one   *)
(* of any of them: the first state chooses which, the other two stay in an *)
(* initial state in which their fairness asks for nothing.                 *)
(***************************************************************************)
EXTENDS ObjectCache

CONSTANTS ChunkSizes, MaxChunks, ReadSizes, All, MaxReads,  \* BufferStream
          Digits, MaxLen, Word                              \* Buffers

VARIABLES
    part,        \* the model that runs: cache, stream or buffers
    stored, chunks, length, writing, puts, scriptIndex, scriptRead,
    readerIndex, offset, readPc, size, answer, buffer, reads, delivered,
    kind, vec, start, end

Streams  == INSTANCE BufferStream WITH index <- readerIndex
Payloads == INSTANCE Buffers

ASSUME DataAssumption == Streams!StreamAssumption /\ Payloads!BoundsAssumption

streamVars  == <<stored, chunks, length, writing, puts, scriptIndex, scriptRead,
                 readerIndex, offset, readPc, size, answer, buffer, reads, delivered>>
payloadVars == <<kind, vec, start, end>>
allVars     == <<part, vars, streamVars, payloadVars>>

DataInit ==
    /\ part \in {"cache", "stream", "buffers"}
    /\ Init
    /\ Streams!Init
    /\ part # "buffers" => kind = "Payload" /\ vec = <<>>
    /\ Payloads!Init

\* The threads may leave the cache alone for ever.
DataNext ==
    /\ UNCHANGED part
    /\ \/ part = "cache" /\ Next /\ UNCHANGED <<streamVars, payloadVars>>
       \/ part = "cache" /\ UNCHANGED allVars
       \/ part = "stream" /\ Streams!Next /\ UNCHANGED <<vars, payloadVars>>
       \/ part = "buffers" /\ Payloads!Next /\ UNCHANGED <<vars, streamVars>>

DataSpec == DataInit /\ [][DataNext]_allVars /\ Streams!Fairness

-----------------------------------------------------------------------------
(* What is checked of BufferStream and Buffers, in groups.                 *)

\* The stored length and number of chunks never promise more than is there,
\* and neither a script nor the user interface misses a byte or, in a
\* script, reads one twice.
StreamIsSound ==
    part = "stream" =>
        /\ Streams!TypeOK
        /\ Streams!LengthIsBacked
        /\ Streams!ScriptReadsInOrder
        /\ Streams!NothingSkipped

\* No slice reaches beyond the array, whatever its arguments; inside the
\* buffer it is that part of the bytes; a read that passes the check, a
\* search and a hex string answer what the bytes say.
BuffersAreExact ==
    part = "buffers" =>
        /\ Payloads!TypeOK
        /\ Payloads!StaysInside
        /\ Payloads!SliceIsSubsequence
        /\ Payloads!CheckedReadIsExact
        /\ Payloads!SearchFindsFirst
        /\ Payloads!HexIsReadBack

\* What is stored comes back: every read() of a stream is answered, and a
\* buffer that a layer keeps has its bytes when it is read again.
StoredComesBack == Streams!ReadsReturn /\ Payloads!CrossingKeepsBytes
=============================================================================
