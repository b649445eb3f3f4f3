------------------------------- MODULE Framing -------------------------------
(***************************************************************************)
(* How a Server_Message travels: its fields are joined by a separator      *)
(* (get_concatenated_msg), received into the fixed buffer of a             *)
(* MessageFrame, and taken apart again by construct_from_string, which     *)
(* counts the separators.  A string is a sequence of characters.  The code *)
(* has eight fields; here there are nr_of_separations of them.             *)
(***************************************************************************)
EXTENDS Integers, Sequences, FiniteSets

Seqs == INSTANCE SequencesExt

CONSTANTS MAX_LEN,             \* size of a MessageFrame's buffer
          nr_of_separations    \* fields of a message

ASSUME FrameAssumption ==
    /\ MAX_LEN \in Nat \ {0}
    /\ nr_of_separations \in Nat \ {0}

\* a back quote in the code
split_token == "|"
NUL == "NUL"

get_concatenated_msg(fields) ==
    Seqs!FlattenSeq([i \in 1 .. nr_of_separations |-> Append(fields[i], split_token)])

Separators(str) == {i \in DOMAIN str : str[i] = split_token}

\* the test of construct_from_string; anything else throws
ValidFormat(str) == Cardinality(Separators(str)) = nr_of_separations

\* where the k-th field ends; field 0 would end before the first character
EndOf(str, k) ==
    IF k = 0 THEN 0
    ELSE CHOOSE i \in Separators(str) : Cardinality({j \in Separators(str) : j <= i}) = k

construct_from_string(str) ==
    [k \in 1 .. nr_of_separations |-> SubSeq(str, EndOf(str, k - 1) + 1, EndOf(str, k) - 1)]

------------------------------------------------------------------------------
(* MessageFrame *)

\* clear_msg
Cleared == [i \in 1 .. MAX_LEN |-> NUL]

\* Mutant of Chunk: one byte more than the buffer has room for.
ChunkTooLong(stream) == SubSeq(stream, 1, IF Len(stream) < MAX_LEN + 1 THEN Len(stream) ELSE MAX_LEN + 1)

\* what one recv returns of the bytes that have arrived: all, or as many as fit
Chunk(stream) == SubSeq(stream, 1, IF Len(stream) < MAX_LEN THEN Len(stream) ELSE MAX_LEN)

\* recv writes over the beginning of the buffer and leaves the rest as it was
Received(frame, bytes) == bytes \o SubSeq(frame, Len(bytes) + 1, MAX_LEN)

\* the buffer as a C string.  One that is full is ended by the zero byte of
\* msg_len, which lies behind it.
CString(frame) == SubSeq(frame, 1, Cardinality({i \in 1 .. MAX_LEN : \A j \in 1 .. i : frame[j] # NUL}))
==============================================================================
