------------------------------- MODULE Stream -------------------------------
(***************************************************************************)
(* Streams (src/asm/stream.asm): the struct that output is redirected to   *)
(* and input from. Offsets are relative to the struct, whose header (next  *)
(* to read, next to write, ending) takes 6 bytes. The subtractions the     *)
(* code compares offsets with do not wrap: a stream lies in one page.      *)
(***************************************************************************)
EXTENDS StreamStruct

VARIABLES
  next_r, next_w, ending,  \* the header
  data,                    \* bytes after the header: a function on those written
  result,                  \* what the last read returned
  status                   \* "run", or "full" when the machine stopped in stream_write

vars == <<next_r, next_w, ending, data, result, status>>

\* stream_init
Init ==
  /\ ending = Size
  /\ next_r = Header /\ next_w = Header
  /\ data   = [offset \in {} |-> Nothing]
  /\ result = Nothing
  /\ status = "run"

\* next_w - ending - 1 is negative.
HasRoom == next_w <= ending

NotLast == next_r + 1 < next_w
HasData == next_r < next_w

WithByte(offset, char) == [o \in DOMAIN data \cup {offset} |-> IF o = offset THEN char ELSE data[o]]

stream_write(char) ==
  /\ status = "run" /\ HasRoom
  /\ data'   = WithByte(next_w, char)
  /\ next_w' = next_w + 1
  /\ UNCHANGED <<next_r, ending, result, status>>

stream_write_full ==
  /\ status = "run" /\ ~HasRoom
  /\ status' = "full"
  /\ UNCHANGED <<next_r, next_w, ending, data, result>>

stream_read ==
  /\ status = "run"
  /\ IF HasData THEN result' = data[next_r] /\ next_r' = next_r + 1
                ELSE result' = Nothing /\ next_r' = next_r
  /\ UNCHANGED <<next_w, ending, data, status>>

Next == (\E char \in Chars : stream_write(char)) \/ stream_write_full \/ stream_read

Spec == Init /\ [][Next]_vars

-----------------------------------------------------------------------------
(* Properties *)

\* The offsets and bytes of the struct: what is between the two offsets was written.
TypeOK ==
  /\ next_r \in Header .. next_w
  /\ next_w \in Header .. ending + 1
  /\ ending = Size
  /\ data \in [Header .. next_w - 1 -> Chars]
  /\ result \in Chars \cup {Nothing}
  /\ status \in {"run", "full"}

\* The characters between the two offsets.
Unread == [i \in 1 .. next_w - next_r |-> data[next_r + i - 1]]

Queue == INSTANCE CharQueue WITH
  queue    <- Unread,
  left     <- Size + 1 - next_w,
  Capacity <- Size - Header + 1

\* Whatever the order of writes and reads, a stream is a queue: characters come out once,
\* in the order they came in, an empty stream says so, and a write stops the machine only
\* when the room of the struct is used up.
ImplementsQueue == Queue!Spec
=============================================================================
