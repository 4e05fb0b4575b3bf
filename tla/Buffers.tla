------------------------------- MODULE Buffers ------------------------------
(***************************************************************************)
(* The byte buffers of the dissector scripts (Buffer and Payload,          *)
(* buffer.cpp): slices of slices over one array of bytes, reads, search,   *)
(* hex strings, and the way of a buffer through msgpack when it is stored  *)
(* in a layer and read again (script_class.cpp).                           *)
(*                                                                         *)
(* The state is one buffer and what a script makes of it next. The         *)
(* arguments of a script are JavaScript numbers that v8pp casts to size_t: *)
(* a negative one wraps. A byte is two hex digits, of a small base here.   *)
(* The array outlives its slices, and a payload is stored in a layer of    *)
(* its own packet.                                                         *)
(***************************************************************************)
EXTENDS Integers, SequencesExt

CONSTANTS
    Digits,  \* the number of hex digits
    MaxLen,  \* bound on the length of the array
    Word     \* the range of size_t

BoundsAssumption ==
    /\ Digits \in Nat \ {0} /\ Digits % 2 = 0
    /\ MaxLen \in Nat \ {0}
    /\ Word \in Nat /\ Word >= 3 * MaxLen + 4

Base  == Digits * Digits
Bytes == 0..(Base - 1)
Sizes == 0..(Word - 1)

VARIABLES
    kind,   \* Payload (over the bytes of a packet) or Buffer
    vec,    \* the array
    start,  \* the part of it that is the buffer
    end

vars == <<kind, vec, start, end>>

Payload == "Payload"
Kinds   == {Payload, "Buffer"}

\* min and max, and the sum and the difference of two size_t.
Lesser(a, b)  == IF a <= b THEN a ELSE b
Greater(a, b) == IF a <= b THEN b ELSE a
Plus(a, b)    == IF a + b < Word THEN a + b ELSE a + b - Word
Minus(a, b)   == IF a >= b THEN a - b ELSE a - b + Word

length == Minus(end, start)
data   == SubSeq(vec, start + 1, end)

\* The payload of a packet, or a new Buffer from an array or a string.
Init ==
    /\ kind \in Kinds
    /\ vec \in BoundedSeq(Bytes, MaxLen)
    /\ start = 0 /\ end = Len(vec)

-----------------------------------------------------------------------------
(* Slices.                                                                 *)

\* Mutation: reversed arguments are taken as they are.
RangeReversed(s, e) == <<Lesser(Plus(start, s), end), Plus(start, Lesser(e, length))>>

\* Mutation: the bounds are taken in the array instead of the buffer.
RangeOfArray(s, e) == <<Lesser(s, end), Lesser(Greater(s, e), end)>>

\* sliceRange.
sliceRange(s, e) == <<Lesser(Plus(start, s), end), Plus(start, Lesser(Greater(s, e), length))>>

SliceTo(s, e) ==
    LET pair == sliceRange(s, Lesser(e, length))
    IN  start' = pair[1] /\ end' = pair[2]

Slice == \E s, e \in Sizes : SliceTo(s, e) /\ UNCHANGED <<kind, vec>>

-----------------------------------------------------------------------------
(* Through msgpack.                                                        *)

\* Mutation: the length is stored in place of the range.
CrossLength ==
    IF kind = Payload
    THEN start' = 0 /\ end' = length /\ UNCHANGED <<kind, vec>>
    ELSE vec' = data /\ start' = 0 /\ end' = length /\ UNCHANGED kind

\* A Payload goes as its range in the packet, any other Buffer as its bytes.
Cross ==
    IF kind = Payload
    THEN UNCHANGED vars
    ELSE vec' = data /\ start' = 0 /\ end' = length /\ UNCHANGED kind

\* The payload of a StreamLayer and its attrs are copied from either kind.
Copy ==
    /\ vec' = data /\ start' = 0 /\ end' = length
    /\ kind' \in Kinds

-----------------------------------------------------------------------------
(* Hex strings: a digit is its number.                                     *)

Sign  == -1  \* a minus
Blank == -2  \* a plus or white space
Junk  == -3  \* any other character
Chars == (0..(Digits - 1)) \cup {Sign, Blank, Junk}

\* Mutation: a byte below one digit is written with one digit.
ToHexUnpadded(bytes) ==
    FoldLeft(LAMBDA s, b : IF b < Digits THEN Append(s, b) ELSE s \o <<b \div Digits, b % Digits>>,
             <<>>, bytes)

ToHex(bytes) ==
    [i \in 1..(2 * Len(bytes)) |->
        IF i % 2 = 1 THEN bytes[(i + 1) \div 2] \div Digits ELSE bytes[i \div 2] % Digits]

\* Mutation: a negative number is kept as it is.
PairUnwrapped(c, d) ==
    CASE c >= 0 /\ d >= 0     -> c * Digits + d
      [] c >= 0 /\ d < 0      -> c
      [] c = Sign /\ d > 0    -> -d - 1
      [] c = Blank /\ d >= 0 -> d
      [] OTHER                -> -1

\* stoul on two characters: it takes a sign and skips blanks, and stops at the
\* first character that is no digit; the byte is what fits of the result.
Pair(c, d) ==
    CASE c >= 0 /\ d >= 0     -> c * Digits + d
      [] c >= 0 /\ d < 0      -> c
      [] c = Sign /\ d >= 0  -> (-d) % Base
      [] c = Blank /\ d >= 0 -> d
      [] OTHER                -> -1

\* The bytes of a hex string; -1 among them stands for the exception.
FromHex(str) == [i \in 1..(Len(str) \div 2) |-> Pair(str[2 * i - 1], str[2 * i])]

Rejected(str) == Len(str) % 2 # 0 \/ \E i \in 1..(Len(str) \div 2) : FromHex(str)[i] = -1

NewFromHex ==
    \E str \in BoundedSeq(Chars, 2) \cup {ToHex(data)} :
       /\ ~Rejected(str)
       /\ kind' = "Buffer" /\ vec' = FromHex(str)
       /\ start' = 0 /\ end' = Len(str) \div 2

-----------------------------------------------------------------------------
(* Reads and search.                                                       *)

Number(bytes) ==
    CASE Len(bytes) = 1 -> bytes[1]
      [] Len(bytes) = 2 -> bytes[1] * Base + bytes[2]
      [] Len(bytes) = 4 -> (bytes[1] * Base + bytes[2]) * (Base * Base) + bytes[3] * Base + bytes[4]

\* How many numbers so many bytes can be.
Numbers(width) ==
    CASE width = 1 -> Base
      [] width = 2 -> Base * Base
      [] width = 4 -> (Base * Base) * (Base * Base)

Signed(n, width) == IF n >= Numbers(width) \div 2 THEN n - Numbers(width) ELSE n

\* Mutation: the check leaves out the width.
OutOfRangeAtFirst(width, offset) == offset > length

OutOfRange(width, offset) == Plus(offset, width) > length

\* readUInt8, readUInt16BE, readUInt32BE; <<>> stands for the exception of
\* the check, or of vec->at.
ReadBytes(width, offset, noassert) ==
    LET at(i) == Plus(Plus(offset, i), start) + 1
        bytes == [i \in 1..width |-> at(i - 1)]
    IN  IF (~noassert /\ OutOfRange(width, offset)) \/ ~(ToSet(bytes) \subseteq DOMAIN vec)
        THEN <<>> ELSE <<Number([i \in 1..width |-> vec[bytes[i]]])>>

ReadInt(width, offset, noassert) ==
    LET r == ReadBytes(width, offset, noassert)
    IN  IF r = <<>> THEN r ELSE <<Signed(r[1], width)>>

\* The bytes of sub, counted from its end, that differ when it ends at index.
Differ(str, sub, index) == {i \in 0..(Len(sub) - 1) : str[index - i] # sub[Len(sub) - i]}

\* How far to the left of such a byte sub has the one of str.
Again(str, sub, index, i) ==
    {j \in 1..(Len(sub) - i - 1) : sub[Len(sub) - i - j] = str[index - i]}

\* Mutation: after a byte that differs the search goes on behind all of sub.
ShiftPast(str, sub, index) == IF Differ(str, sub, index) = {} THEN 0 ELSE Len(sub)

First(S) == CHOOSE i \in S : \A m \in S : i <= m

\* One round of search. The first byte from the right that differs but occurs
\* further left in sub gives the shift; without one it is the number of bytes
\* that differ.
Shift(str, sub, index) ==
    LET moved == {i \in Differ(str, sub, index) : Again(str, sub, index, i) # {}}
    IN  IF moved = {} THEN Cardinality(Differ(str, sub, index))
        ELSE First(Again(str, sub, index, First(moved)))

search(str, sub) ==
    LET from[index \in 1..(2 * MaxLen)] ==
            IF index > Len(str) THEN -1
            ELSE LET shift == Shift(str, sub, index)
                 IN  IF shift = 0 THEN index - Len(sub) ELSE from[index + shift]
    IN  IF Len(sub) > Len(str) THEN -1
        ELSE IF sub = <<>> THEN 0 ELSE from[Len(sub)]

-----------------------------------------------------------------------------

Next == Slice \/ Cross \/ Copy \/ NewFromHex

Spec == Init /\ [][Next]_vars

-----------------------------------------------------------------------------
(* Properties.                                                             *)

\* Types; every character of a hex string made here is a digit.
TypeOK ==
    /\ kind \in Kinds
    /\ vec \in Seq(Bytes) /\ start \in Sizes /\ end \in Sizes

\* Whatever the arguments, negative or reversed, and however often a slice is
\* sliced, a buffer stays inside the array: the readers that take pointers
\* (toString, equals, indexOf, copy) have no other check.
StaysInside == start <= end /\ end <= Len(vec)

\* Arguments that are not negative give the bytes that lie between them in
\* the buffer, whatever it is itself a slice of, and none if reversed.
SliceIsSubsequence ==
    \A s, e \in 0..(2 * MaxLen) :
       LET pair == sliceRange(s, Lesser(e, length))
       IN  SubSeq(vec, pair[1] + 1, pair[2]) = SubSeq(data, s + 1, Lesser(e, length))

\* What a script stores in a layer, or hands over as the payload or an
\* attribute of a new packet, has the same bytes when it is read again.
CrossingKeepsBytes == [][Cross \/ Copy => data' = data]_vars

\* A checked read gives the number at an offset, or throws exactly if it does
\* not lie in the buffer, though the bytes of the packet go on behind it. The
\* signed readers give the same number, reduced into their range.
CheckedReadIsExact ==
    \A width \in {1, 2, 4}, offset \in 0..(Word - 5) :
       LET range == Numbers(width)
           r == ReadBytes(width, offset, FALSE)
           i == ReadInt(width, offset, FALSE)
       IN  IF offset + width > Len(data) THEN r = <<>> /\ i = <<>>
           ELSE /\ r = <<Number(SubSeq(data, offset + 1, offset + width))>>
                /\ -range <= 2 * i[1] /\ 2 * i[1] < range /\ i[1] % range = r[1]

\* The hex string of a buffer makes a buffer with the same bytes.
HexIsReadBack == ~Rejected(ToHex(data)) /\ FromHex(ToHex(data)) = data

\* indexOf finds the first place where the bytes occur, and only if they do.
SearchFindsFirst ==
    \A sub \in BoundedSeq(Bytes, MaxLen) :
       LET places == {p \in 0..(Len(data) - Len(sub)) :
                        SubSeq(data, p + 1, p + Len(sub)) = sub}
       IN  search(data, sub) =
              IF places = {} THEN -1 ELSE First(places)
=============================================================================
