------------------------------ MODULE CPBuffer ------------------------------
(***************************************************************************)
(* The circular buffer of includes/cpbuffer.h, as operators on a record    *)
(* with its fields.  A value is abstracted from what it holds: a byte is   *)
(* any value the user of the buffer chooses.  The log streams and the      *)
(* control connections (server and client side) hold one each.             *)
(***************************************************************************)
EXTENDS Integers, Sequences

CONSTANTS
    SIZE,   \* the template parameter: the capacity
    Nul     \* what a byte holds before it is first written

\* The position `index' places after the first byte, wrapped once.
Wrap(pos) == IF pos >= SIZE THEN pos - SIZE ELSE pos

Empty == [buf |-> [j \in 0 .. SIZE - 1 |-> Nul], cur_idx |-> 0, length |-> 0]

get_free(b) == SIZE - b.length

\* operator[] and extract(): the bytes that are in the buffer, in order.
At(b, index) == b.buf[Wrap(b.cur_idx + index)]
extract(b, index, n) == [k \in 1 .. n |-> At(b, index + k - 1)]
Contents(b) == extract(b, 0, b.length)

\* How many bytes follow the first one without a wrap.
get_contiguous_length(b) ==
    LET eidx == Wrap(b.cur_idx + b.length)
    IN  IF b.length = 0 THEN 0
        ELSE IF eidx > b.cur_idx THEN eidx - b.cur_idx ELSE SIZE - b.cur_idx

\* Mutant: what does not fit before the end of the array is not copied to its start.
AppendNoWrap(b, s) ==
    LET index == Wrap(b.cur_idx + b.length)
    IN  [b EXCEPT !.buf = [j \in 0 .. SIZE - 1 |->
                              IF j >= index /\ j - index < Len(s)
                              THEN s[j - index + 1] ELSE @[j]],
                  !.length = @ + Len(s)]

\* append(): the caller has made sure that s fits.
append(b, s) ==
    LET index == Wrap(b.cur_idx + b.length)
    IN  [b EXCEPT !.buf = [j \in 0 .. SIZE - 1 |->
                              LET k == IF j >= index THEN j - index ELSE j - index + SIZE
                              IN  IF k < Len(s) THEN s[k + 1] ELSE @[j]],
                  !.length = @ + Len(s)]

\* fill(): one read(), no further than the end of the array.
FillRoom(b, limit) ==
    LET pos   == Wrap(b.cur_idx + b.length)
        Least(S) == CHOOSE x \in S : \A y \in S : x <= y
    IN  Least({SIZE - pos, SIZE - b.length, limit})

consume(b, amount) == [b EXCEPT !.cur_idx = Wrap(@ + amount), !.length = @ - amount]

trim_to(b, new_length) == [b EXCEPT !.length = new_length]
=============================================================================
