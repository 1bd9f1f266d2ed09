---------------------------- MODULE Shell_proofs ----------------------------
(***************************************************************************)
(* The shell restores its redirections, connects the programs of a         *)
(* pipeline, and its stream delivers, whatever is typed and however long   *)
(* the texts and the stream are.                                           *)
(***************************************************************************)
EXTENDS Shell, SequenceTheorems, TLAPS

-----------------------------------------------------------------------------
(* Streams of any size carry any characters as a queue does *)

LEMMA StreamTypeInit == S!Init => S!TypeOK
  BY SizeAssumption DEF S!Init, S!TypeOK, S!Header

LEMMA StreamTypeNext == S!TypeOK /\ [S!Next]_S!vars => S!TypeOK'
<1> SUFFICES ASSUME S!TypeOK, [S!Next]_S!vars PROVE S!TypeOK'
  OBVIOUS
<1> USE SizeAssumption DEF S!TypeOK, S!Header
<1>1. ASSUME NEW char \in Chars, S!stream_write(char) PROVE S!TypeOK'
  <2>1. next_w' = next_w + 1 /\ ending' = ending /\ next_r' = next_r
    BY <1>1 DEF S!stream_write
  <2>2. S!Header .. next_w' - 1 = (S!Header .. next_w - 1) \cup {next_w}
    BY <2>1
  <2>3. data' \in [S!Header .. next_w' - 1 -> Chars]
    BY <1>1, <2>2 DEF S!stream_write, S!WithByte
  <2> QED
    BY <1>1, <2>1, <2>3 DEF S!stream_write, S!HasRoom
<1>2. CASE S!stream_write_full
  BY <1>2 DEF S!stream_write_full
<1>3. CASE S!stream_read
  BY <1>3 DEF S!stream_read, S!HasData
<1>4. CASE UNCHANGED S!vars
  BY <1>4 DEF S!vars
<1> QED
  BY <1>1, <1>2, <1>3, <1>4 DEF S!Next

\* The offsets and bytes of a stream are what TypeOK says, in every reachable state.
THEOREM StreamTypeCorrect == S!Spec => []S!TypeOK
  BY StreamTypeInit, StreamTypeNext, PTL DEF S!Spec

\* What is unread is a sequence of characters.
LEMMA UnreadIsSequence ==
  ASSUME S!TypeOK
  PROVE  /\ S!Unread \in Seq(Chars)
         /\ Len(S!Unread) = next_w - next_r
         /\ \A i \in 1 .. next_w - next_r : S!Unread[i] = data[next_r + i - 1]
<1>1. next_w - next_r \in Nat
  BY SizeAssumption DEF S!TypeOK, S!Header
<1>2. S!Unread \in [1 .. next_w - next_r -> Chars]
  BY SizeAssumption DEF S!TypeOK, S!Header, S!Unread
<1>3. S!Unread \in Seq(Chars)
  BY <1>1, <1>2, SeqDef
<1> QED
  BY <1>1, <1>2, <1>3 DEF S!Unread

\* A write appends to what is unread.
LEMMA WriteAppends ==
  ASSUME S!TypeOK, S!TypeOK', NEW char \in Chars, S!stream_write(char)
  PROVE  S!Unread' = Append(S!Unread, char)
<1> USE SizeAssumption DEF S!TypeOK, S!Header
<1>1. /\ next_w' = next_w + 1 /\ next_r' = next_r
      /\ data' = S!WithByte(next_w, char)
  BY DEF S!stream_write
<1>2. \A o \in next_r .. next_w - 1 : data'[o] = data[o]
  BY <1>1 DEF S!WithByte
<1>3. data'[next_w] = char
  BY <1>1 DEF S!WithByte
<1>4. /\ S!Unread \in Seq(Chars)
      /\ Len(S!Unread) = next_w - next_r
      /\ \A i \in 1 .. next_w - next_r : S!Unread[i] = data[next_r + i - 1]
  BY UnreadIsSequence
<1>5. /\ Append(S!Unread, char) \in Seq(Chars)
      /\ Len(Append(S!Unread, char)) = Len(S!Unread) + 1
      /\ \A i \in 1 .. Len(S!Unread) : Append(S!Unread, char)[i] = S!Unread[i]
      /\ Append(S!Unread, char)[Len(S!Unread) + 1] = char
  BY <1>4, AppendProperties, SMTT(30)
<1>6. /\ S!Unread' \in Seq(Chars)
      /\ Len(S!Unread') = next_w' - next_r'
      /\ \A i \in 1 .. next_w' - next_r' : S!Unread'[i] = data'[next_r' + i - 1]
  <2>1. next_w' - next_r' \in Nat
    BY <1>1
  <2>2. S!Unread' \in [1 .. next_w' - next_r' -> Chars]
    BY <1>1, <2>1 DEF S!Unread
  <2>3. S!Unread' \in Seq(Chars)
    BY <2>1, <2>2, SeqDef
  <2> QED
    BY <2>1, <2>2, <2>3 DEF S!Unread
<1>7. ASSUME NEW i \in 1 .. Len(S!Unread') PROVE S!Unread'[i] = Append(S!Unread, char)[i]
  <2>1. CASE i = Len(S!Unread) + 1
    BY <2>1, <1>1, <1>3, <1>4, <1>5, <1>6
  <2>2. CASE i \in 1 .. Len(S!Unread)
    <3>1. next_r + i - 1 \in next_r .. next_w - 1
      BY <2>2, <1>4
    <3> QED
      BY <2>2, <3>1, <1>1, <1>2, <1>4, <1>5, <1>6
  <2> QED
    BY <2>1, <2>2, <1>1, <1>4, <1>6, SMTT(30)
<1> QED
  BY <1>1, <1>4, <1>5, <1>6, <1>7, SeqEqual

\* A read of a stream that has data takes the head of what is unread.
LEMMA ReadTakesHead ==
  ASSUME S!TypeOK, S!TypeOK', S!stream_read, S!HasData
  PROVE  S!Unread # << >> /\ result' = Head(S!Unread) /\ S!Unread' = Tail(S!Unread)
<1> USE SizeAssumption DEF S!TypeOK, S!Header
<1>1. /\ next_w' = next_w /\ next_r' = next_r + 1 /\ next_r < next_w
      /\ data' = data /\ result' = data[next_r]
  BY DEF S!stream_read, S!HasData
<1>2. /\ S!Unread \in Seq(Chars)
      /\ Len(S!Unread) = next_w - next_r
      /\ \A i \in 1 .. next_w - next_r : S!Unread[i] = data[next_r + i - 1]
  BY UnreadIsSequence
<1>3. S!Unread # << >>
  BY <1>1, <1>2, EmptySeq
<1>4. /\ Head(S!Unread) = S!Unread[1]
      /\ Tail(S!Unread) \in Seq(Chars)
      /\ Len(Tail(S!Unread)) = Len(S!Unread) - 1
      /\ \A i \in 1 .. Len(Tail(S!Unread)) : Tail(S!Unread)[i] = S!Unread[i + 1]
  BY <1>2, <1>3, HeadTailProperties
<1>5. /\ S!Unread' \in Seq(Chars)
      /\ Len(S!Unread') = next_w' - next_r'
      /\ \A i \in 1 .. next_w' - next_r' : S!Unread'[i] = data'[next_r' + i - 1]
  <2>1. next_w' - next_r' \in Nat
    BY <1>1
  <2>2. S!Unread' \in [1 .. next_w' - next_r' -> Chars]
    BY <1>1, <2>1 DEF S!Unread
  <2>3. S!Unread' \in Seq(Chars)
    BY <2>1, <2>2, SeqDef
  <2> QED
    BY <2>1, <2>2, <2>3 DEF S!Unread
<1>6. ASSUME NEW i \in 1 .. Len(S!Unread') PROVE S!Unread'[i] = Tail(S!Unread)[i]
  <2>1. i \in 1 .. next_w - next_r - 1
    BY <1>1, <1>5
  <2>2. i + 1 \in 1 .. next_w - next_r /\ i \in 1 .. Len(Tail(S!Unread))
    BY <2>1, <1>2, <1>4
  <2>3. Tail(S!Unread)[i] = data[next_r + (i + 1) - 1]
    BY <2>2, <1>2, <1>4
  <2>4. S!Unread'[i] = data[(next_r + 1) + i - 1]
    BY <1>1, <1>5
  <2>5. next_r + (i + 1) - 1 = (next_r + 1) + i - 1
    BY <2>1
  <2> QED
    BY <2>3, <2>4, <2>5
<1>7. S!Unread' = Tail(S!Unread)
  BY <1>1, <1>2, <1>4, <1>5, <1>6, SeqEqual, SMTT(30)
<1>8. result' = Head(S!Unread)
  <2>1. 1 \in 1 .. next_w - next_r /\ next_r + 1 - 1 = next_r
    BY <1>1
  <2> QED
    BY <2>1, <1>1, <1>2, <1>4
<1> QED
  BY <1>3, <1>7, <1>8

\* A stream whose two offsets meet has nothing unread.
LEMMA EmptyUnread ==
  ASSUME S!TypeOK, ~S!HasData
  PROVE  S!Unread = << >>
<1>1. S!Unread \in Seq(Chars) /\ Len(S!Unread) = next_w - next_r
  BY UnreadIsSequence
<1>2. Len(S!Unread) = 0
  BY <1>1, SizeAssumption DEF S!TypeOK, S!Header, S!HasData
<1> QED
  BY <1>1, <1>2, EmptySeq

LEMMA StreamQueueInit == S!Init => S!Queue!Init
<1> SUFFICES ASSUME S!Init PROVE S!Queue!Init
  OBVIOUS
<1>1. S!TypeOK /\ ~S!HasData
  BY SizeAssumption DEF S!Init, S!TypeOK, S!Header, S!HasData
<1>2. S!Unread = << >>
  BY <1>1, EmptyUnread
<1> QED
  BY <1>2, SizeAssumption DEF S!Init, S!Queue!Init, S!Header

\* stream_write, stream_read and their failures are the steps of a queue that takes one
\* character more than the struct has room for.
LEMMA StreamQueueNext == S!TypeOK /\ S!TypeOK' /\ [S!Next]_S!vars => [S!Queue!Next]_S!Queue!vars
<1> SUFFICES ASSUME S!TypeOK, S!TypeOK', [S!Next]_S!vars PROVE [S!Queue!Next]_S!Queue!vars
  OBVIOUS
<1>1. ASSUME NEW char \in Chars, S!stream_write(char) PROVE S!Queue!Write
  <2>1. S!Unread' = Append(S!Unread, char)
    BY <1>1, WriteAppends
  <2>2. Size + 1 - next_w > 0 /\ Size + 1 - next_w' = (Size + 1 - next_w) - 1
    BY <1>1, SizeAssumption DEF S!stream_write, S!HasRoom, S!TypeOK, S!Header
  <2> QED
    BY <1>1, <2>1, <2>2 DEF S!stream_write, S!Queue!Write
<1>2. ASSUME S!stream_write_full PROVE S!Queue!WriteFull
  <2>1. S!Unread' = S!Unread
    BY <1>2 DEF S!stream_write_full, S!Unread
  <2> QED
    BY <1>2, <2>1, SizeAssumption DEF S!stream_write_full, S!HasRoom, S!TypeOK, S!Header, S!Queue!WriteFull
<1>3. ASSUME S!stream_read PROVE S!Queue!Read
  <2>1. CASE S!HasData
    <3>1. S!Unread # << >> /\ result' = Head(S!Unread) /\ S!Unread' = Tail(S!Unread)
      BY <1>3, <2>1, ReadTakesHead
    <3> QED
      BY <1>3, <3>1 DEF S!stream_read, S!Queue!Read
  <2>2. CASE ~S!HasData
    <3>1. S!Unread = << >>
      BY <2>2, EmptyUnread
    <3>2. S!Unread' = S!Unread
      BY <1>3, <2>2 DEF S!stream_read, S!Unread
    <3> QED
      BY <1>3, <2>2, <3>1, <3>2 DEF S!stream_read, S!Queue!Read
  <2> QED
    BY <2>1, <2>2
<1>4. CASE UNCHANGED S!vars
  BY <1>4 DEF S!vars, S!Queue!vars, S!Unread
<1> QED
  BY <1>1, <1>2, <1>3, <1>4 DEF S!Next, S!Queue!Next

\* Streams implement queues.
THEOREM StreamRefinesCharQueue == S!Spec => S!ImplementsQueue
  BY StreamQueueInit, StreamQueueNext, StreamTypeCorrect, PTL DEF S!Spec, S!ImplementsQueue, S!Queue!Spec

-----------------------------------------------------------------------------
(* The stream of the shell *)

\* s is what the bytes of a stream hold up to an offset.
IsData(s, offset, bytes) ==
  /\ s \in Seq(Chars) /\ Len(s) = offset - Header
  /\ \A i \in 1 .. Len(s) : s[i] = bytes[Header + i - 1]

\* All that went into the stream is in its data, and all that came out is the part up to
\* the next to read.
StreamInv == S!TypeOK /\ IsData(written, next_w, data) /\ IsData(got, next_r, data)

\* What the shell and its programs do to the stream.
StreamStep ==
  \/ \E char \in Chars : S!stream_write(char) /\ written' = Append(written, char) /\ got' = got
  \/ S!stream_write_full /\ UNCHANGED observed
  \/ /\ S!stream_read
     /\ got' = IF result' = Nothing THEN got ELSE Append(got, result')
     /\ written' = written
  \/ UNCHANGED <<stream, observed>>

LEMMA StreamInit == Init => StreamInv
  BY SizeAssumption DEF Init, StreamInv, S!Init, S!TypeOK, S!Header, Header, IsData

LEMMA DataKept ==
  ASSUME NEW s, NEW offset \in Int, NEW before, IsData(s, offset, before),
         NEW bytes, \A o \in Header .. offset - 1 : bytes[o] = before[o]
  PROVE  IsData(s, offset, bytes)
  BY LenProperties DEF IsData, Header

LEMMA DataAppended ==
  ASSUME NEW s, NEW offset \in Int, NEW before, IsData(s, offset, before),
         NEW bytes, \A o \in Header .. offset - 1 : bytes[o] = before[o],
         NEW char \in Chars, bytes[offset] = char
  PROVE  IsData(Append(s, char), offset + 1, bytes)
<1> DEFINE longer == Append(s, char)
<1>1. s \in Seq(Chars) /\ Len(s) \in Nat /\ Len(s) = offset - 6
  BY LenProperties DEF IsData, Header
<1>2. /\ longer \in Seq(Chars) /\ Len(longer) = Len(s) + 1
      /\ \A i \in 1 .. Len(s) : longer[i] = s[i]
      /\ longer[Len(s) + 1] = char
  BY <1>1, AppendProperties
<1> HIDE DEF longer
<1>3. ASSUME NEW i \in 1 .. Len(longer) PROVE longer[i] = bytes[6 + i - 1]
  <2>1. CASE i = Len(s) + 1
    <3>1. 6 + i - 1 = offset
      BY <2>1, <1>1
    <3> QED
      BY <2>1, <3>1, <1>2
  <2>2. CASE i \in 1 .. Len(s)
    <3>1. 6 + i - 1 \in 6 .. offset - 1
      BY <2>2, <1>1
    <3> QED
      BY <2>2, <3>1, <1>2 DEF IsData, Header
  <2> QED
    BY <2>1, <2>2, <1>1, <1>2
<1>4. Len(longer) = (offset + 1) - 6
  BY <1>1, <1>2
<1> QED
  BY <1>2, <1>3, <1>4 DEF IsData, Header, longer

LEMMA StepIsStreams ==
  ASSUME StreamStep
  PROVE  [S!Next]_S!vars
  BY DEF StreamStep, S!Next, S!vars, stream

LEMMA TypeKept ==
  ASSUME S!TypeOK, StreamStep
  PROVE  S!TypeOK'
  BY StepIsStreams, StreamTypeNext

\* The characters that went in and came out stay what the data say, in order.
LEMMA StreamNext ==
  ASSUME StreamInv, StreamStep
  PROVE  StreamInv'
<1>1. S!TypeOK'
  BY TypeKept DEF StreamInv
<1>2. /\ next_r \in Header .. next_w /\ next_w \in Int /\ next_r \in Int
      /\ data \in [Header .. next_w - 1 -> Chars]
  BY SizeAssumption DEF StreamInv, S!TypeOK, S!Header, Header
<1>3. ASSUME NEW char \in Chars, S!stream_write(char), written' = Append(written, char), got' = got
      PROVE  IsData(written', next_w', data') /\ IsData(got', next_r', data')
  <2>1. next_w' = next_w + 1 /\ next_r' = next_r
    BY <1>3 DEF S!stream_write
  <2>2. /\ \A o \in Header .. next_w - 1 : data'[o] = data[o]
        /\ data'[next_w] = char
    BY <1>2, <1>3 DEF S!stream_write, S!WithByte, Header
  <2>3. \A o \in Header .. next_r - 1 : data'[o] = data[o]
    BY <1>2, <2>2 DEF Header
  <2>4. IsData(Append(written, char), next_w + 1, data')
    BY <1>2, <2>2, DataAppended DEF StreamInv
  <2>5. IsData(got, next_r, data')
    BY <1>2, <2>3, DataKept DEF StreamInv
  <2> QED
    BY <1>3, <2>1, <2>4, <2>5
<1>4. ASSUME S!stream_read, written' = written,
             got' = IF result' = Nothing THEN got ELSE Append(got, result')
      PROVE  IsData(written', next_w', data') /\ IsData(got', next_r', data')
  <2>1. CASE S!HasData
    <3>1. /\ next_w' = next_w /\ data' = data
          /\ next_r' = next_r + 1 /\ result' = data[next_r]
      BY <1>4, <2>1 DEF S!stream_read
    <3>2. data[next_r] \in Chars
      BY <1>2, <2>1 DEF S!HasData
    <3>3. got' = Append(got, data[next_r])
      BY <1>4, <3>1, <3>2, CharsAssumption
    <3>4. IsData(Append(got, data[next_r]), next_r + 1, data)
      BY <1>2, <3>2, DataAppended DEF StreamInv
    <3> QED
      BY <1>4, <3>1, <3>3, <3>4 DEF StreamInv
  <2>2. CASE ~ S!HasData
    <3>1. next_w' = next_w /\ data' = data /\ next_r' = next_r /\ result' = Nothing
      BY <1>4, <2>2 DEF S!stream_read
    <3> QED
      BY <1>4, <3>1 DEF StreamInv
  <2> QED
    BY <2>1, <2>2
<1>5. CASE S!stream_write_full /\ UNCHANGED observed
  BY <1>1, <1>5 DEF StreamInv, S!stream_write_full, observed
<1>6. CASE UNCHANGED <<stream, observed>>
  BY <1>1, <1>6 DEF StreamInv, stream, observed
<1> QED
  BY <1>1, <1>3, <1>4, <1>5, <1>6 DEF StreamStep, StreamInv

-----------------------------------------------------------------------------
(* Characters *)

Redirections == [stdout : Terminals \cup {"stream"}, stdin : {"keys", "stream"}]

\* Whoever writes writes characters.
CharsInv ==
  /\ typed \in Seq([command : Commands, end : Chars \cup {"^D"}])
  /\ input \in Commands
  /\ shell \in Redirections /\ old_stdout \in Terminals /\ old_stdin = "keys"
  /\ child \in [redirections : Redirections, text : Seq(Chars), copies : BOOLEAN,
                starved : BOOLEAN, code : Nat]
  /\ result \in Chars \cup {Nothing}

LEMMA CharsInit == Init => CharsInv
<1> SUFFICES ASSUME Init PROVE CharsInv
  OBVIOUS
<1>1. << >> \in Seq(Chars) /\ NoCommand \in Commands
  BY EmptySeq DEF NoCommand, Commands
<1>2. typed \in Seq([command : Commands, end : Chars \cup {"^D"}])
  BY InputsAssumption DEF Init
<1>3. shell \in Redirections /\ old_stdout \in Terminals /\ old_stdin = "keys"
  BY DEF Init, Redirections, Redirected
<1>4. child \in [redirections : Redirections, text : Seq(Chars), copies : BOOLEAN,
                starved : BOOLEAN, code : Nat]
  BY <1>1, <1>3 DEF Init
<1> QED
  BY <1>1, <1>2, <1>3, <1>4 DEF Init, CharsInv, S!Init

LEMMA PutChar ==
  ASSUME NEW to, NEW char \in Chars, put_char(to, char)
  PROVE  StreamStep
  BY DEF put_char, StreamStep, observed

LEMMA TypedTaken ==
  ASSUME CharsInv, typed # << >>
  PROVE  /\ Head(typed).command \in Commands /\ Head(typed).end \in Chars \cup {"^D"}
         /\ Tail(typed) \in Seq([command : Commands, end : Chars \cup {"^D"}])
<1> DEFINE Keys == [command : Commands, end : Chars \cup {"^D"}]
<1>1. typed \in Seq(Keys)
  BY DEF CharsInv
<1> HIDE DEF Keys
<1>2. Head(typed) \in Keys /\ Tail(typed) \in Seq(Keys)
  BY <1>1, HeadTailProperties
<1> QED
  BY <1>2 DEF Keys

\* Every step does to the stream what StreamStep says.
LEMMA StepOfStream ==
  ASSUME CharsInv, [Next]_vars
  PROVE  StreamStep
<1> USE DEF StreamStep
<1>1. {Prompt, Echo, NotFound, ExitCode, Nul} \subseteq Chars
  BY MessagesAssumption
<1>2. CASE main
  BY <1>1, <1>2, PutChar DEF main
<1>3. CASE echo \/ pipe
  BY <1>1, <1>3, PutChar DEF echo, pipe, EchoLine
<1>4. CASE pipe_end
  BY <1>4 DEF pipe_end
<1>5. CASE exe_cmd
  BY <1>1, <1>5, PutChar DEF exe_cmd
<1>6. CASE end_exe_cmd
  BY <1>1, <1>6, PutChar DEF end_exe_cmd
<1>7. CASE ChildWrites
  <2>1. child.text \in Seq(Chars) /\ child.text # << >>
    BY <1>7 DEF CharsInv, ChildWrites
  <2>2. Head(child.text) \in Chars
    BY <2>1, HeadTailProperties
  <2> QED
    BY <1>7, <2>2, PutChar DEF ChildWrites
<1>8. CASE ChildReadsStream
  BY <1>8 DEF ChildReadsStream, get_char_redirected
<1>9. CASE ChildReadsKeyboard \/ ChildReadsNothing \/ ChildExits
  BY <1>9 DEF ChildReadsKeyboard, ChildReadsNothing, ChildExits
<1>10. CASE UNCHANGED vars
  BY <1>10 DEF vars
<1> QED
  BY <1>2, <1>3, <1>4, <1>5, <1>6, <1>7, <1>8, <1>9, <1>10 DEF Next

LEMMA CharsNext ==
  ASSUME CharsInv, StreamInv, [Next]_vars
  PROVE  CharsInv'
<1> DEFINE Keystrokes == [command : Commands, end : Chars \cup {"^D"}]
           Programs   == [redirections : Redirections, text : Seq(Chars), copies : BOOLEAN,
                          starved : BOOLEAN, code : Nat]
<1>1. result' \in Chars \cup {Nothing}
  BY StepOfStream, TypeKept DEF StreamInv, S!TypeOK
<1>2. /\ typed \in Seq(Keystrokes) /\ input \in Commands
      /\ shell \in Redirections /\ old_stdout \in Terminals /\ old_stdin = "keys"
      /\ child \in Programs
  BY DEF CharsInv
<1>3. SUFFICES /\ typed' \in Seq(Keystrokes) /\ input' \in Commands
               /\ shell' \in Redirections /\ old_stdout' \in Terminals /\ old_stdin' = "keys"
               /\ child' \in Programs
  BY <1>1 DEF CharsInv
<1>4. ASSUME typed # << >>
      PROVE  /\ Head(typed).command \in Commands /\ Head(typed).end \in Chars \cup {"^D"}
             /\ Tail(typed) \in Seq(Keystrokes)
  BY <1>4, TypedTaken
<1> HIDE DEF Keystrokes
<1>5. \A to \in {"keys", "stream"} : [shell EXCEPT !.stdin = to] \in Redirections
  BY <1>2 DEF Redirections
<1>6. \A to \in Terminals \cup {"stream"} : [shell EXCEPT !.stdout = to] \in Redirections
  BY <1>2 DEF Redirections
<1>7. CASE main \/ end_exe_cmd \/ ChildExits
  BY <1>2, <1>7 DEF main, end_exe_cmd, ChildExits
<1>8. CASE echo
  BY <1>2, <1>4, <1>6, <1>8 DEF echo, ReadCommand
<1>9. CASE pipe
  <2>1. RestoredStdout \in Redirections
    BY <1>2, <1>6 DEF RestoredStdout
  <2>2. [RestoredStdout EXCEPT !.stdin = "stream"] \in Redirections
    BY <2>1 DEF Redirections
  <2> QED
    BY <1>2, <1>4, <1>9, <2>1, <2>2 DEF pipe, ReadCommand
<1>10. CASE pipe_end
  BY <1>2, <1>5, <1>10 DEF pipe_end, RestoredStdin
<1>11. CASE exe_cmd
  <2>1. input.text \in Seq(Chars) /\ input.code \in Nat
    BY <1>2 DEF Commands
  <2> DEFINE copier == input.kind = "copier"
             program == [redirections |-> shell, text |-> input.text, copies |-> copier,
                         starved |-> FALSE, code |-> input.code]
  <2>2. copier \in BOOLEAN
    OBVIOUS
  <2>3. child' = child \/ child' = program
    BY <1>11, Zenon DEF exe_cmd
  <2> HIDE DEF copier
  <2>4. program \in Programs
    BY <1>2, <2>1, <2>2
  <2> HIDE DEF Programs, program
  <2> QED
    BY <1>2, <1>11, <2>3, <2>4 DEF exe_cmd
<1>12. CASE ChildWrites
  <2>1. child.text \in Seq(Chars) /\ child.text # << >>
    BY <1>2, <1>12 DEF ChildWrites
  <2>2. Tail(child.text) \in Seq(Chars)
    BY <2>1, HeadTailProperties
  <2> QED
    BY <1>2, <1>12, <2>2 DEF ChildWrites
<1>13. ASSUME NEW char \in Chars PROVE << char >> \in Seq(Chars)
  OBVIOUS
<1>14. ASSUME NEW char \in Chars \cup {Nothing, "^D"}, ChildReads(char) PROVE child' \in Programs
  BY <1>2, <1>13, <1>14 DEF ChildReads
<1>15. CASE ChildReadsStream
  BY <1>1, <1>2, <1>14, <1>15 DEF ChildReadsStream
<1>16. CASE ChildReadsKeyboard
  BY <1>2, <1>4, <1>14, <1>16 DEF ChildReadsKeyboard
<1>17. CASE ChildReadsNothing
  BY <1>2, <1>13, <1>17, MessagesAssumption DEF ChildReadsNothing
<1>18. CASE UNCHANGED vars
  BY <1>2, <1>18 DEF vars
<1> QED
  BY <1>7, <1>8, <1>9, <1>10, <1>11, <1>12, <1>15, <1>16, <1>17, <1>18 DEF Next

-----------------------------------------------------------------------------
(* Redirections *)

Places == {"main", "pipe", "pipe_end"}
InCommand == pc \in {"exe_cmd", "execute", "executed"}

\* Where the command runs that returns to a place.
Connected(place) ==
  Redirected(IF place = "pipe" THEN "stream" ELSE old_stdout,
             IF place = "pipe_end" THEN "stream" ELSE "keys")

\* While a command runs the place it returns to tells the redirections, else the place
\* the shell is at.
RedirectionsInv ==
  /\ pc \in Places \cup {"echo", "exit", "exe_cmd", "execute", "executed"}
  /\ after \in Places
  /\ InCommand => shell = Connected(after)
  /\ pc \in Places => shell = Connected(pc)
  /\ pc \in {"echo", "exit"} => shell = Connected("main")
  /\ pc = "execute" => child.redirections = shell

LEMMA RedirectionsInit == Init => RedirectionsInv
  BY DEF Init, RedirectionsInv, InCommand, Connected, Redirected, Places

LEMMA RedirectionsNext ==
  ASSUME RedirectionsInv, CharsInv, [Next]_vars
  PROVE  RedirectionsInv'
<1> USE DEF RedirectionsInv, InCommand, Connected, Places
<1>1. old_stdin = "keys"
  BY DEF CharsInv
<1>2. CASE main
  BY <1>2 DEF main
<1>3. CASE echo
  <2>1. typed = << >> => ~ IsPiped
    BY DEF IsPiped
  <2>2. shell = Redirected(old_stdout, "keys")
    BY <1>3 DEF echo
  <2>3. [shell EXCEPT !.stdout = "stream"] = Redirected("stream", "keys")
    BY <2>2 DEF Redirected
  <2> QED
    BY <1>3, <2>1, <2>2, <2>3 DEF echo, ReadCommand
<1>4. CASE pipe
  <2>1. RestoredStdout = Redirected(old_stdout, "keys")
    BY <1>4 DEF pipe, RestoredStdout, Redirected
  <2>2. [RestoredStdout EXCEPT !.stdin = "stream"] = Redirected(old_stdout, "stream")
    BY <2>1 DEF Redirected
  <2> QED
    BY <1>4, <2>1, <2>2 DEF pipe, ReadCommand
<1>5. CASE pipe_end
  <2>1. RestoredStdin = Redirected(old_stdout, "keys")
    BY <1>1, <1>5 DEF pipe_end, RestoredStdin, Redirected
  <2> QED
    BY <1>5, <2>1 DEF pipe_end
<1>6. CASE exe_cmd
  BY <1>6 DEF exe_cmd
<1>7. CASE end_exe_cmd
  BY <1>7 DEF end_exe_cmd
<1>8. CASE ChildWrites \/ ChildReadsStream \/ ChildReadsKeyboard
  <2>1. child'.redirections = child.redirections
    BY <1>8 DEF CharsInv, ChildWrites, ChildReadsStream, ChildReadsKeyboard, ChildReads
  <2> QED
    BY <1>8, <2>1 DEF ChildWrites, ChildReadsStream, ChildReadsKeyboard, ChildRuns
<1>9. CASE ChildReadsNothing
  <2>1. child'.redirections = child.redirections
    BY <1>9 DEF CharsInv, ChildReadsNothing
  <2> QED
    BY <1>9, <2>1 DEF ChildReadsNothing, ChildRuns
<1>10. CASE ChildExits
  BY <1>10 DEF ChildExits, ChildRuns
<1>11. CASE UNCHANGED vars
  BY <1>11 DEF vars
<1> QED
  BY <1>2, <1>3, <1>4, <1>5, <1>6, <1>7, <1>8, <1>9, <1>10, <1>11 DEF Next

-----------------------------------------------------------------------------
(* The properties of the run *)

IInv == StreamInv /\ CharsInv /\ RedirectionsInv

\* The inductive invariant: the bytes of the stream are what was written, whoever writes
\* writes characters, the redirections follow from where the shell is.
THEOREM Inductive == Spec => []IInv
<1>1. Init => IInv
  BY StreamInit, CharsInit, RedirectionsInit DEF IInv
<1>2. IInv /\ [Next]_vars => IInv'
  BY StepOfStream, StreamNext, CharsNext, RedirectionsNext DEF IInv
<1> QED
  BY <1>1, <1>2, PTL DEF Spec

\* The shell prompts, reads and exits with the redirections it was started with.
THEOREM RedirectionsRestored == Spec => []Restored
<1>1. IInv => Restored
  BY DEF IInv, RedirectionsInv, Restored, Connected, Places
<1> QED
  BY <1>1, Inductive, PTL

\* The programs of a pipeline run with the stream at the ends that their place says.
THEOREM ProgramsConnected == Spec => []ChildIsConnected
<1>1. IInv => ChildIsConnected
  BY DEF IInv, RedirectionsInv, ChildIsConnected, Connected, InCommand
<1> QED
  BY <1>1, Inductive, PTL

LEMMA PartOfData ==
  ASSUME NEW s, NEW t, NEW m \in Int, NEW n \in Int, Header <= m, m <= n,
         NEW bytes, IsData(s, m, bytes), IsData(t, n, bytes)
  PROVE  s = SubSeq(t, 1, Len(s)) /\ (m = n => s = t)
<1>1. /\ s \in Seq(Chars) /\ Len(s) = m - 6 /\ Len(s) \in Nat
      /\ \A i \in 1 .. Len(s) : s[i] = bytes[6 + i - 1]
      /\ t \in Seq(Chars) /\ Len(t) = n - 6 /\ Len(t) \in Nat
      /\ \A i \in 1 .. Len(t) : t[i] = bytes[6 + i - 1]
  BY LenProperties DEF IsData, Header
<1>2. \A i \in 1 .. Len(s) : i \in 1 .. Len(t) /\ t[i] \in Chars /\ s[i] = t[i]
  BY <1>1, ElementOfSeq
<1> DEFINE part == SubSeq(t, 1, Len(s))
<1>3. /\ part \in Seq(Chars) /\ Len(part) = Len(s)
      /\ \A i \in 1 .. Len(s) : part[i] = t[i]
  <2>1. /\ part \in Seq(Chars)
        /\ Len(part) = IF 1 <= Len(s) THEN Len(s) - 1 + 1 ELSE 0
        /\ \A i \in 1 .. Len(s) - 1 + 1 : part[i] = t[1 + i - 1]
    BY <1>1, <1>2, SubSeqProperties
  <2> HIDE DEF part
  <2> QED
    BY <1>1, <2>1
<1> HIDE DEF part
<1>4. s = part
  BY <1>1, <1>2, <1>3, SeqEqual
<1>5. m = n => s = t
  BY <1>1, <1>2, SeqEqual
<1> QED
  BY <1>4, <1>5 DEF part

\* What the second programs read is what the first ones wrote, in order, and the end of
\* input comes only when nothing is left.
THEOREM PipelinesDeliverAll == Spec => PipelinesDeliver
<1> DEFINE Delivers == IF result' = Nothing THEN got = written ELSE got' = SubSeq(written, 1, Len(got'))
<1>1. ASSUME StreamInv, StreamInv', ChildReadsStream PROVE Delivers
  <2>1. S!stream_read /\ written' = written
    BY <1>1 DEF ChildReadsStream, get_char_redirected
  <2>2. /\ Header <= next_r /\ next_r <= next_w /\ next_r \in Int /\ next_w \in Int
        /\ data \in [Header .. next_w - 1 -> Chars]
    BY <1>1, SizeAssumption DEF StreamInv, S!TypeOK, S!Header, Header
  <2>3. /\ Header <= next_r' /\ next_r' <= next_w' /\ next_r' \in Int /\ next_w' \in Int
    BY <1>1, SizeAssumption DEF StreamInv, S!TypeOK, S!Header, Header
  <2>4. CASE result' = Nothing
    <3>1. next_r = next_w
      BY <2>1, <2>2, <2>4, CharsAssumption DEF S!stream_read, S!HasData
    <3>2. got = written
      BY <1>1, <2>2, <3>1, PartOfData DEF StreamInv
    <3> QED
      BY <2>4, <3>2
  <2>5. CASE result' # Nothing
    <3>1. got' = SubSeq(written', 1, Len(got'))
      BY <1>1, <2>3, PartOfData DEF StreamInv
    <3> QED
      BY <2>1, <2>5, <3>1
  <2> QED
    BY <2>4, <2>5
<1>2. IInv /\ IInv' /\ [Next]_vars => [ChildReadsStream => Delivers]_vars
  BY <1>1 DEF IInv
<1> QED
  BY <1>2, Inductive, PTL DEF Spec, PipelinesDeliver

\* Every step of the shell and of its programs is a step of the queue or does not touch it.
LEMMA QueueNext ==
  ASSUME S!TypeOK, StreamStep
  PROVE  [S!Queue!Next]_S!Queue!vars
  BY TypeKept, StepIsStreams, StreamQueueNext

\* The stream of the shell is a queue, whatever programs use it and however they end.
THEOREM RefinesCharQueue == Spec => ImplementsQueue
<1>1. Init => S!Queue!Init
  BY StreamQueueInit DEF Init
<1>2. IInv /\ [Next]_vars => [S!Queue!Next]_S!Queue!vars
  BY StepOfStream, QueueNext DEF IInv, StreamInv
<1> QED
  BY <1>1, <1>2, Inductive, PTL DEF Spec, ImplementsQueue, S!ImplementsQueue, S!Queue!Spec
=============================================================================
