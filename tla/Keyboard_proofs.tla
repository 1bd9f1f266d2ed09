-------------------------- MODULE Keyboard_proofs ---------------------------
(***************************************************************************)
(* Programs get what was typed, for any sequence of keys and a queue of    *)
(* any length.                                                             *)
(***************************************************************************)
EXTENDS Keyboard, SequenceTheorems, TLAPS

-----------------------------------------------------------------------------
(* The tables *)

LEMMA FourInARow ==
  ASSUME NEW a, NEW b, NEW c, NEW d
  PROVE  << a >> \o << b, c >> \o << d >> = << a, b, c, d >>
<1> DEFINE S == {a, b, c, d}
           s == << a >> \o << b, c >>
           w == << d >>
           t == << a, b, c, d >>
<1>1. << a >> \in Seq(S) /\ << b, c >> \in Seq(S) /\ w \in Seq(S) /\ t \in Seq(S)
  OBVIOUS
<1>2. /\ s \in Seq(S) /\ Len(s) = 3 /\ s[1] = a /\ s[2] = b /\ s[3] = c
      /\ Len(w) = 1 /\ w[1] = d
      /\ Len(t) = 4 /\ t[1] = a /\ t[2] = b /\ t[3] = c /\ t[4] = d
  BY <1>1
<1> HIDE DEF S, s, w, t
<1>3. /\ s \o w \in Seq(S) /\ Len(s \o w) = Len(s) + Len(w)
      /\ \A i \in 1 .. Len(s) + Len(w) : (s \o w)[i] = IF i <= Len(s) THEN s[i] ELSE w[i - Len(s)]
  BY <1>1, <1>2, ConcatProperties
<1>4. Len(s \o w) = 4 /\ \A i \in 1 .. 4 : (s \o w)[i] = IF i <= 3 THEN s[i] ELSE w[i - 3]
  BY <1>2, <1>3
<1>5. \A i \in 1 .. 4 : (s \o w)[i] = t[i]
  <2>1. \A i \in 1 .. 4 : i \in {1, 2, 3, 4}
    OBVIOUS
  <2> QED
    BY <1>2, <1>4, <2>1
<1>6. s \o w = t
  BY <1>1, <1>2, <1>3, <1>4, <1>5, SeqEqual
<1> QED
  BY <1>6 DEF s, w, t

LEMMA OneKey ==
  ASSUME NEW first \in Nat, NEW char
  PROVE  DOMAIN Keys(first, << char >>) = {first} /\ Keys(first, << char >>)[first] = char
<1> DEFINE t == << char >>
<1>1. Len(t) = 1 /\ t[1] = char
  OBVIOUS
<1> HIDE DEF t
<1>2. DOMAIN Keys(first, t) = {first} /\ Keys(first, t)[first] = char
  BY <1>1 DEF Keys
<1> QED
  BY <1>2 DEF t

\* The d is the third key of its row.
LEMMA DigitRow ==
  ASSUME NEW i \in 1 .. 12
  PROVE  << "1", "2", "3", "4", "5", "6", "7", "8", "9", "0", "-", "=" >>[i] # "d"
<1>1. i \in {1, 2, 3, 4, 5, 6, 7, 8, 9, 10, 11, 12}
  OBVIOUS
<1> QED
  BY <1>1

LEMMA TopRow ==
  ASSUME NEW i \in 1 .. 13
  PROVE  << "q", "w", "e", "r", "t", "y", "u", "i", "o", "p", "[", "]", "\n" >>[i] # "d"
<1>1. i \in {1, 2, 3, 4, 5, 6, 7, 8, 9, 10, 11, 12, 13}
  OBVIOUS
<1> QED
  BY <1>1

LEMMA HomeRow ==
  ASSUME NEW i \in 1 .. 12
  PROVE  (<< "a", "s", "d", "f", "g", "h", "j", "k", "l", "semicolon", "'", "backquote" >>[i] = "d") <=> (i = 3)
<1>1. i \in {1, 2, 3, 4, 5, 6, 7, 8, 9, 10, 11, 12}
  OBVIOUS
<1> QED
  BY <1>1

LEMMA BottomRow ==
  ASSUME NEW i \in 1 .. 11
  PROVE  << "backslash", "z", "x", "c", "v", "b", "n", "m", "comma", ".", "/" >>[i] # "d"
<1>1. i \in {1, 2, 3, 4, 5, 6, 7, 8, 9, 10, 11}
  OBVIOUS
<1> QED
  BY <1>1

\* The rows of the keys that type a character are those of the table of get_char.
LEMMA ShiftedTopRow ==
  ASSUME NEW i \in 1 .. 12
  PROVE  << "Q", "W", "E", "R", "T", "Y", "U", "I", "O", "P", "open", "close" >>[i]
           = << "Q", "W", "E", "R", "T", "Y", "U", "I", "O", "P", "open", "close", "\n" >>[i]
<1>1. i \in {1, 2, 3, 4, 5, 6, 7, 8, 9, 10, 11, 12}
  OBVIOUS
<1> QED
  BY <1>1

LEMMA ShiftedHomeRow ==
  ASSUME NEW i \in 1 .. 11
  PROVE  << "A", "S", "D", "F", "G", "H", "J", "K", "L", ":", "quotes", "tilde" >>[i]
           = << "A", "S", "D", "F", "G", "H", "J", "K", "L", ":", "quotes", "backquote" >>[i]
<1>1. i \in {1, 2, 3, 4, 5, 6, 7, 8, 9, 10, 11}
  OBVIOUS
<1> QED
  BY <1>1

\* A key that types a character without shift has it in the table of get_char.
LEMMA PlainTable ==
  /\ scancode_to_ascii[0] = "NUL"
  /\ 32 \in DOMAIN PlainKeys /\ PlainKeys[32] = "d"
  /\ \A code \in DOMAIN PlainKeys :
       /\ PlainKeys[code] = "d" => code = 32
       /\ PlainKeys[code] # "\t" => /\ code \in 1 .. 127 \ {LeftCtrl, LeftShift}
                                    /\ scancode_to_ascii[code] = PlainKeys[code]
<1> DEFINE t2  == << "1", "2", "3", "4", "5", "6", "7", "8", "9", "0", "-", "=" >>
           t16 == << "q", "w", "e", "r", "t", "y", "u", "i", "o", "p", "[", "]", "\n" >>
           t30 == << "a", "s", "d", "f", "g", "h", "j", "k", "l", "semicolon", "'", "backquote" >>
           t43 == << "backslash", "z", "x", "c", "v", "b", "n", "m", "comma", ".", "/" >>
           k2 == Keys(2, t2)     k15 == Keys(15, << "\t" >>)  k16 == Keys(16, t16)
           k30 == Keys(30, t30)  k43 == Keys(43, t43)         k57 == Keys(57, << "space" >>)
           a1 == k2 ++ k15  a2 == a1 ++ k16  a3 == a2 ++ k30  a4 == a3 ++ k43  all == a4 ++ k57
           b1 == k2 ++ k16  b2 == b1 ++ k30  b3 == b2 ++ k43  known == b3 ++ k57
<1>1. PlainKeys = all /\ scancode_to_ascii = WithCodes(known)
  BY DEF PlainKeys, scancode_to_ascii
<1> HIDE DEF all, known
<1>a. Len(t2) = 12 /\ Len(t16) = 13 /\ Len(t30) = 12 /\ Len(t43) = 11
  OBVIOUS
<1>b. k15[15] = "\t" /\ k57[57] = "space" /\ DOMAIN k15 = {15} /\ DOMAIN k57 = {57}
  BY OneKey
<1>c. \A i \in 1 .. 12 : t2[i] # "d"
  BY DigitRow
<1>d. \A i \in 1 .. 13 : t16[i] # "d"
  BY TopRow
<1>e. \A i \in 1 .. 12 : t30[i] = "d" <=> i = 3
  BY HomeRow
<1>f. \A i \in 1 .. 11 : t43[i] # "d"
  BY BottomRow
<1> HIDE DEF t2, t16, t30, t43
<1>2. /\ DOMAIN k2 = 2 .. 13 /\ DOMAIN k15 = {15} /\ DOMAIN k16 = 16 .. 28
      /\ DOMAIN k30 = 30 .. 41 /\ DOMAIN k43 = 43 .. 53 /\ DOMAIN k57 = {57}
  <2>1. DOMAIN k2 = 2 .. 13
    BY <1>a DEF Keys
  <2>2. DOMAIN k16 = 16 .. 28
    BY <1>a DEF Keys
  <2>3. DOMAIN k30 = 30 .. 41
    BY <1>a DEF Keys
  <2>4. DOMAIN k43 = 43 .. 53
    BY <1>a DEF Keys
  <2> QED
    BY <1>b, <2>1, <2>2, <2>3, <2>4
<1>3. /\ k15[15] = "\t" /\ k57[57] # "d"
      /\ \A x \in 2 .. 13 : k2[x] # "d"
      /\ \A x \in 16 .. 28 : k16[x] # "d"
      /\ \A x \in 30 .. 41 : k30[x] = "d" <=> x = 32
      /\ \A x \in 43 .. 53 : k43[x] # "d"
  <2>1. \A x \in 2 .. 13 : k2[x] # "d"
    BY <1>a, <1>c DEF Keys
  <2>2. \A x \in 16 .. 28 : k16[x] # "d"
    BY <1>a, <1>d DEF Keys
  <2>3. \A x \in 30 .. 41 : k30[x] = "d" <=> x = 32
    BY <1>a, <1>e DEF Keys
  <2>4. \A x \in 43 .. 53 : k43[x] # "d"
    BY <1>a, <1>f DEF Keys
  <2> QED
    BY <1>b, <2>1, <2>2, <2>3, <2>4
<1> HIDE DEF k2, k15, k16, k30, k43, k57
<1>4. /\ DOMAIN a1 = 2 .. 13 \cup {15} /\ DOMAIN b1 = 2 .. 13 \cup 16 .. 28
      /\ \A x \in DOMAIN a1 : a1[x] = IF x \in 2 .. 13 THEN k2[x] ELSE k15[x]
      /\ \A x \in DOMAIN b1 : b1[x] = IF x \in 2 .. 13 THEN k2[x] ELSE k16[x]
  BY <1>2 DEF ++
<1> HIDE DEF a1, b1
<1>5. /\ DOMAIN a2 = DOMAIN a1 \cup 16 .. 28 /\ DOMAIN b2 = DOMAIN b1 \cup 30 .. 41
      /\ \A x \in DOMAIN a2 : a2[x] = IF x \in DOMAIN a1 THEN a1[x] ELSE k16[x]
      /\ \A x \in DOMAIN b2 : b2[x] = IF x \in DOMAIN b1 THEN b1[x] ELSE k30[x]
  BY <1>2 DEF ++
<1> HIDE DEF a2, b2
<1>6. /\ DOMAIN a3 = DOMAIN a2 \cup 30 .. 41 /\ DOMAIN b3 = DOMAIN b2 \cup 43 .. 53
      /\ \A x \in DOMAIN a3 : a3[x] = IF x \in DOMAIN a2 THEN a2[x] ELSE k30[x]
      /\ \A x \in DOMAIN b3 : b3[x] = IF x \in DOMAIN b2 THEN b2[x] ELSE k43[x]
  BY <1>2 DEF ++
<1> HIDE DEF a3, b3
<1>7. /\ DOMAIN a4 = DOMAIN a3 \cup 43 .. 53 /\ DOMAIN known = DOMAIN b3 \cup {57}
      /\ \A x \in DOMAIN a4 : a4[x] = IF x \in DOMAIN a3 THEN a3[x] ELSE k43[x]
      /\ \A x \in DOMAIN known : known[x] = IF x \in DOMAIN b3 THEN b3[x] ELSE k57[x]
  BY <1>2 DEF ++, known
<1> HIDE DEF a4
<1>8. /\ DOMAIN all = DOMAIN a4 \cup {57}
      /\ \A x \in DOMAIN all : all[x] = IF x \in DOMAIN a4 THEN a4[x] ELSE k57[x]
  BY <1>2 DEF ++, all
<1>9. 32 \in DOMAIN all /\ all[32] = "d"
  BY <1>3, <1>4, <1>5, <1>6, <1>7, <1>8
<1>10. ASSUME NEW code \in DOMAIN all
       PROVE  /\ all[code] = "d" => code = 32
              /\ all[code] # "\t" => /\ code \in 1 .. 127 \ {29, 42}
                                     /\ code \in DOMAIN known /\ known[code] = all[code]
  BY <1>3, <1>4, <1>5, <1>6, <1>7, <1>8
<1>11. ASSUME NEW code \in DOMAIN known, code \in 1 .. 127
       PROVE  WithCodes(known)[code] = known[code]
  <2>1. code \in 0 .. 127
    BY <1>11
  <2> QED
    BY <1>11, <2>1 DEF WithCodes
<1>12. WithCodes(known)[0] = "NUL"
  <2>1. 0 \notin DOMAIN known
    BY <1>4, <1>5, <1>6, <1>7
  <2> QED
    BY <2>1 DEF WithCodes
<1> QED
  BY <1>1, <1>9, <1>10, <1>11, <1>12 DEF LeftCtrl, LeftShift

\* A key that types a character with shift has it in the other table.
LEMMA ShiftTable ==
  ASSUME NEW code \in DOMAIN ShiftKeys, ShiftKeys[code] # "tilde"
  PROVE  /\ code \in 1 .. 127 \ {LeftCtrl, LeftShift}
         /\ scancode_to_ascii_shift[code] = ShiftKeys[code]
<1> DEFINE t2  == << "!", "@", "#", "$", "%", "^", "&", "*", "(", ")", "underscore", "+" >>
           t16 == << "Q", "W", "E", "R", "T", "Y", "U", "I", "O", "P", "open", "close" >>
           u16 == << "Q", "W", "E", "R", "T", "Y", "U", "I", "O", "P", "open", "close", "\n" >>
           t30 == << "A", "S", "D", "F", "G", "H", "J", "K", "L", ":", "quotes", "tilde" >>
           u30 == << "A", "S", "D", "F", "G", "H", "J", "K", "L", ":", "quotes", "backquote" >>
           t43 == << "|", "Z", "X", "C", "V", "B", "N", "M", "<", ">", "?" >>
           s2  == Keys(2, t2)    s16 == Keys(16, t16)  n16 == Keys(16, u16)
           s30 == Keys(30, t30)  n30 == Keys(30, u30)  s43 == Keys(43, t43)
           k57 == Keys(57, << "space" >>)
           a1 == s2 ++ s16  a2 == a1 ++ s30  all == a2 ++ s43
           b1 == s2 ++ n16  b2 == b1 ++ n30  b3 == b2 ++ s43  known == b3 ++ k57
<1>1. ShiftKeys = all /\ scancode_to_ascii_shift = WithCodes(known)
  BY DEF ShiftKeys, scancode_to_ascii_shift
<1> HIDE DEF all, known
<1>a. /\ Len(t2) = 12 /\ Len(t16) = 12 /\ Len(u16) = 13 /\ Len(t30) = 12 /\ Len(u30) = 12
      /\ Len(t43) = 11 /\ t30[12] = "tilde"
  OBVIOUS
<1>b. \A i \in 1 .. 12 : t16[i] = u16[i]
  BY ShiftedTopRow
<1>c. \A i \in 1 .. 11 : t30[i] = u30[i]
  BY ShiftedHomeRow
<1>d. DOMAIN k57 = {57} /\ k57[57] = "space"
  BY OneKey
<1> HIDE DEF t2, t16, u16, t30, u30, t43
<1>2. /\ DOMAIN s2 = 2 .. 13 /\ DOMAIN s16 = 16 .. 27 /\ DOMAIN n16 = 16 .. 28
      /\ DOMAIN s30 = 30 .. 41 /\ DOMAIN n30 = 30 .. 41 /\ DOMAIN s43 = 43 .. 53
      /\ DOMAIN k57 = {57}
  <2>1. DOMAIN s2 = 2 .. 13
    BY <1>a DEF Keys
  <2>2. DOMAIN s16 = 16 .. 27 /\ DOMAIN n16 = 16 .. 28
    BY <1>a DEF Keys
  <2>3. DOMAIN s30 = 30 .. 41 /\ DOMAIN n30 = 30 .. 41
    BY <1>a DEF Keys
  <2>4. DOMAIN s43 = 43 .. 53
    BY <1>a DEF Keys
  <2> QED
    BY <1>d, <2>1, <2>2, <2>3, <2>4
<1>3. /\ \A x \in 16 .. 27 : n16[x] = s16[x]
      /\ \A x \in 30 .. 40 : n30[x] = s30[x]
      /\ s30[41] = "tilde"
  <2>1. s30[41] = "tilde"
    BY <1>a DEF Keys
  <2>2. \A x \in 16 .. 27 : n16[x] = s16[x]
    BY <1>a, <1>b DEF Keys
  <2>3. \A x \in 30 .. 40 : n30[x] = s30[x]
    BY <1>a, <1>c DEF Keys
  <2> QED
    BY <2>1, <2>2, <2>3
<1> HIDE DEF s2, s16, n16, s30, n30, s43, k57
<1>4. /\ DOMAIN a1 = 2 .. 13 \cup 16 .. 27 /\ DOMAIN b1 = 2 .. 13 \cup 16 .. 28
      /\ \A x \in DOMAIN a1 : a1[x] = IF x \in 2 .. 13 THEN s2[x] ELSE s16[x]
      /\ \A x \in DOMAIN b1 : b1[x] = IF x \in 2 .. 13 THEN s2[x] ELSE n16[x]
  BY <1>2 DEF ++
<1> HIDE DEF a1, b1
<1>5. /\ DOMAIN a2 = DOMAIN a1 \cup 30 .. 41 /\ DOMAIN b2 = DOMAIN b1 \cup 30 .. 41
      /\ \A x \in DOMAIN a2 : a2[x] = IF x \in DOMAIN a1 THEN a1[x] ELSE s30[x]
      /\ \A x \in DOMAIN b2 : b2[x] = IF x \in DOMAIN b1 THEN b1[x] ELSE n30[x]
  BY <1>2 DEF ++
<1> HIDE DEF a2, b2
<1>6. /\ DOMAIN all = DOMAIN a2 \cup 43 .. 53 /\ DOMAIN b3 = DOMAIN b2 \cup 43 .. 53
      /\ \A x \in DOMAIN all : all[x] = IF x \in DOMAIN a2 THEN a2[x] ELSE s43[x]
      /\ \A x \in DOMAIN b3 : b3[x] = IF x \in DOMAIN b2 THEN b2[x] ELSE s43[x]
  BY <1>2 DEF ++, all
<1> HIDE DEF b3
<1>7. /\ DOMAIN known = DOMAIN b3 \cup {57}
      /\ \A x \in DOMAIN known : known[x] = IF x \in DOMAIN b3 THEN b3[x] ELSE k57[x]
  BY <1>2 DEF ++, known
<1>8. /\ code \in 1 .. 127 \ {29, 42} /\ code \in DOMAIN known /\ known[code] = all[code]
  BY <1>1, <1>3, <1>4, <1>5, <1>6, <1>7
<1>9. WithCodes(known)[code] = known[code]
  BY <1>8 DEF WithCodes
<1> QED
  BY <1>1, <1>8, <1>9 DEF LeftCtrl, LeftShift

\* What is queued for a character starts with the key that get_char goes on with, and only
\* goes on with keys that are let go.
LEMMA ScancodesAre ==
  ASSUME NEW char \in Decoded
  PROVE  \/ char = "^D" /\ Scancodes(char) = << 29, 32, 160, 157 >>
         \/ \E code \in 1 .. 127 \ {29, 42} :
              /\ scancode_to_ascii_shift[code] = char
              /\ Scancodes(char) = << 42, code, code + 128, 170 >>
         \/ \E code \in 1 .. 127 \ {29, 42} :
              /\ scancode_to_ascii[code] = char
              /\ Scancodes(char) = << code, code + 128 >>
<1>1. CodeIn(PlainKeys, "d") = 32
  BY PlainTable DEF CodeIn
<1>2. CASE char = "^D"
  <2>1. Scancodes(char) =
          << LeftCtrl >> \o PressAndRelease(CodeIn(PlainKeys, "d")) \o << Released(LeftCtrl) >>
    BY <1>2 DEF Scancodes
  <2>2. Scancodes(char) = << 29 >> \o << 32, 160 >> \o << 157 >>
    BY <1>1, <2>1 DEF PressAndRelease, Released, LeftCtrl
  <2> QED
    BY <1>2, <2>2, FourInARow
<1>3. CASE char # "^D" /\ IsIn(ShiftKeys, char)
  <2> DEFINE code == CodeIn(ShiftKeys, char)
  <2>1. code \in DOMAIN ShiftKeys /\ ShiftKeys[code] = char
    BY <1>3 DEF IsIn, CodeIn
  <2> HIDE DEF code
  <2>2. char # "tilde"
    BY DEF Decoded
  <2>3. code \in 1 .. 127 \ {29, 42} /\ scancode_to_ascii_shift[code] = char
    BY <2>1, <2>2, ShiftTable DEF LeftCtrl, LeftShift
  <2>4. Scancodes(char) = << 42 >> \o << code, code + 128 >> \o << 170 >>
    <3>1. Scancodes(char) = << LeftShift >> \o PressAndRelease(code) \o << Released(LeftShift) >>
      BY <1>3 DEF Scancodes, Shifted, code
    <3> QED
      BY <3>1 DEF PressAndRelease, Released, LeftShift
  <2>5. Scancodes(char) = << 42, code, code + 128, 170 >>
    BY <2>4, FourInARow
  <2> QED
    BY <2>3, <2>5
<1>4. CASE char # "^D" /\ ~ IsIn(ShiftKeys, char)
  <2> DEFINE code == CodeIn(PlainKeys, char)
  <2>1. IsIn(PlainKeys, char) /\ char # "\t"
    BY <1>4 DEF IsIn, Decoded
  <2>2. code \in DOMAIN PlainKeys /\ PlainKeys[code] = char
    BY <2>1 DEF IsIn, CodeIn
  <2>3. Scancodes(char) = << code, code + 128 >>
    BY <1>4, <2>1 DEF Scancodes, PressAndRelease, Released
  <2> HIDE DEF code
  <2>4. code \in 1 .. 127 \ {29, 42} /\ scancode_to_ascii[code] = char
    BY <2>1, <2>2, PlainTable DEF LeftCtrl, LeftShift
  <2> QED
    BY <2>3, <2>4
<1> QED
  BY <1>2, <1>3, <1>4

\* The same, by position: what get_char finds when it reads on from the first code.
LEMMA CodesOfChar ==
  ASSUME NEW char \in Decoded
  PROVE  LET codes == Scancodes(char)
         IN  /\ codes \in Seq(0 .. 255) /\ Len(codes) \in {2, 4}
             /\ \A i \in 2 .. Len(codes) : codes[i] \notin {29, 42}
             /\ \/ codes[1] = 29 /\ codes[2] = 32 /\ Len(codes) = 4 /\ char = "^D"
                \/ /\ codes[1] = 42 /\ codes[2] \in 1 .. 127 /\ Len(codes) = 4
                   /\ scancode_to_ascii_shift[codes[2]] = char
                \/ /\ codes[1] \in 1 .. 127 \ {29, 42} /\ Len(codes) = 2
                   /\ scancode_to_ascii[codes[1]] = char
             /\ \A i \in 3 .. Len(codes) : codes[i] >= 128
             /\ codes[1] \notin {29, 42} => codes[2] >= 128
<1> DEFINE codes == Scancodes(char)
<1>1. ASSUME NEW code \in 1 .. 127 \ {29, 42},
             scancode_to_ascii_shift[code] = char, codes = << 42, code, code + 128, 170 >>
      PROVE  /\ codes \in Seq(0 .. 255) /\ Len(codes) = 4
             /\ \A i \in 2 .. Len(codes) : codes[i] \notin {29, 42}
             /\ codes[1] = 42 /\ codes[2] \in 1 .. 127
             /\ scancode_to_ascii_shift[codes[2]] = char
             /\ \A i \in 3 .. Len(codes) : codes[i] >= 128
  <2>1. codes \in Seq(0 .. 255) /\ Len(codes) = 4
    BY <1>1
  <2>2. codes[1] = 42 /\ codes[2] = code /\ codes[3] = code + 128 /\ codes[4] = 170
    BY <1>1
  <2> HIDE DEF codes
  <2>3. \A i \in 2 .. 4 : i \in {2, 3, 4}
    OBVIOUS
  <2> QED
    BY <1>1, <2>1, <2>2, <2>3
<1>2. ASSUME NEW code \in 1 .. 127 \ {29, 42},
             scancode_to_ascii[code] = char, codes = << code, code + 128 >>
      PROVE  /\ codes \in Seq(0 .. 255) /\ Len(codes) = 2
             /\ \A i \in 2 .. Len(codes) : codes[i] \notin {29, 42}
             /\ codes[1] \in 1 .. 127 \ {29, 42}
             /\ scancode_to_ascii[codes[1]] = char
             /\ codes[2] >= 128
  <2>1. codes \in Seq(0 .. 255) /\ Len(codes) = 2
    BY <1>2
  <2>2. codes[1] = code /\ codes[2] = code + 128
    BY <1>2
  <2> HIDE DEF codes
  <2> QED
    BY <1>2, <2>1, <2>2
<1> HIDE DEF codes
<1>3. /\ codes \in Seq(0 .. 255) /\ Len(codes) \in {2, 4}
      /\ \A i \in 2 .. Len(codes) : codes[i] \notin {29, 42}
      /\ \/ codes[1] = 29 /\ codes[2] = 32 /\ Len(codes) = 4 /\ char = "^D"
         \/ /\ codes[1] = 42 /\ codes[2] \in 1 .. 127 /\ Len(codes) = 4
            /\ scancode_to_ascii_shift[codes[2]] = char
         \/ /\ codes[1] \in 1 .. 127 \ {29, 42} /\ Len(codes) = 2
            /\ scancode_to_ascii[codes[1]] = char
      /\ \A i \in 3 .. Len(codes) : codes[i] >= 128
      /\ codes[1] \notin {29, 42} => codes[2] >= 128
  <2>1. CASE char = "^D" /\ codes = << 29, 32, 160, 157 >>
    <3>1. codes \in Seq(0 .. 255) /\ Len(codes) = 4
      BY <2>1
    <3>2. codes[1] = 29 /\ codes[2] = 32 /\ codes[3] = 160 /\ codes[4] = 157
      BY <2>1
    <3>3. \A i \in 2 .. 4 : i \in {2, 3, 4}
      OBVIOUS
    <3>4. char = "^D"
      BY <2>1
    <3> QED
      BY <3>1, <3>2, <3>3, <3>4
  <2>2. CASE \E code \in 1 .. 127 \ {29, 42} :
               /\ scancode_to_ascii_shift[code] = char
               /\ codes = << 42, code, code + 128, 170 >>
    BY <1>1, <2>2
  <2>3. CASE \E code \in 1 .. 127 \ {29, 42} :
               scancode_to_ascii[code] = char /\ codes = << code, code + 128 >>
    BY <1>2, <2>3
  <2> QED
    BY <2>1, <2>2, <2>3, ScancodesAre DEF codes
<1> QED
  BY <1>3 DEF codes

-----------------------------------------------------------------------------
(* What is in the queue *)

\* The scancodes of the n-th character start after the index start[n] of the queue, which
\* is negative when get_char has taken some of them. The ones of the first gone characters
\* may be incomplete: get_char has started with them, or the first was lost.
Layout(queue, last, chars, gone, start) ==
  /\ start \in [1 .. Len(chars) + 1 -> Int]
  /\ start[Len(chars) + 1] = last
  /\ \A n \in gone + 1 .. Len(chars) :
       /\ start[n + 1] = start[n] + Len(Scancodes(chars[n]))
       /\ \A i \in 1 .. Len(Scancodes(chars[n])) :
            start[n] + i >= 1 =>
              start[n] + i <= Len(queue) /\ queue[start[n] + i] = Scancodes(chars[n])[i]

LEMMA BytesOfQueue ==
  ASSUME NEW queue \in Seq(0 .. 255)
  PROVE  \A i \in DOMAIN queue : queue[i] \in 0 .. 255
<1>1. DOMAIN queue = 1 .. Len(queue)
  OBVIOUS
<1> QED
  BY <1>1, ElementOfSeq

AfterRead(queue) == IF queue = << >> THEN << >> ELSE Tail(queue)
OneDown(chars, start) == [n \in 1 .. Len(chars) + 1 |-> start[n] - 1]

\* A read moves everything one place down.
LEMMA QueueAfterRead ==
  ASSUME NEW queue \in Seq(0 .. 255), NEW chars \in Seq(Decoded), NEW gone \in Nat, NEW start,
         Layout(queue, Len(queue), chars, gone, start)
  PROVE  /\ AfterRead(queue) \in Seq(0 .. 255)
         /\ queue # << >> => /\ Len(AfterRead(queue)) = Len(queue) - 1
                             /\ \A i \in 1 .. Len(AfterRead(queue)) : AfterRead(queue)[i] = queue[i + 1]
         /\ \A n \in 1 .. Len(chars) + 1 : OneDown(chars, start)[n] = start[n] - 1
         /\ Layout(AfterRead(queue), Len(queue) - 1, chars, gone, OneDown(chars, start))
         /\ Layout(AfterRead(queue), Len(queue) - 1, chars, gone + 1, OneDown(chars, start))
<1> DEFINE after == AfterRead(queue)
<1>1. after \in Seq(0 .. 255) /\ (queue = << >> => after = << >>) /\ (queue # << >> => after = Tail(queue))
  BY EmptySeq, HeadTailProperties DEF AfterRead
<1> HIDE DEF after
<1>2. queue # << >> => /\ Len(after) = Len(queue) - 1
                       /\ \A i \in 1 .. Len(after) : after[i] = queue[i + 1]
  <2>1. queue # << >> => /\ Len(Tail(queue)) = Len(queue) - 1
                         /\ \A i \in 1 .. Len(Tail(queue)) : Tail(queue)[i] = queue[i + 1]
    BY HeadTailProperties
  <2> QED
    BY <1>1, <2>1, Zenon
<1>3. /\ start \in [1 .. Len(chars) + 1 -> Int] /\ start[Len(chars) + 1] = Len(queue)
      /\ Len(queue) \in Nat /\ Len(chars) \in Nat
  BY DEF Layout
<1>4. \A n \in 1 .. Len(chars) + 1 : start[n] \in Int
  BY <1>3
<1>5. PICK moved : moved = OneDown(chars, start)
  OBVIOUS
<1>6. /\ \A n \in 1 .. Len(chars) + 1 : moved[n] = start[n] - 1
      /\ moved \in [1 .. Len(chars) + 1 -> Int] /\ moved[Len(chars) + 1] = Len(queue) - 1
  <2>1. Len(chars) + 1 \in 1 .. Len(chars) + 1
    BY <1>3
  <2> QED
    BY <1>3, <1>4, <1>5, <2>1 DEF OneDown
<1>7. ASSUME NEW n \in gone + 1 .. Len(chars)
      PROVE  /\ moved[n + 1] = moved[n] + Len(Scancodes(chars[n]))
             /\ \A i \in 1 .. Len(Scancodes(chars[n])) :
                  moved[n] + i >= 1 =>
                    moved[n] + i <= Len(after) /\ after[moved[n] + i] = Scancodes(chars[n])[i]
  <2> DEFINE codes == Scancodes(chars[n])
  <2>1. /\ n \in 1 .. Len(chars) /\ n \in 1 .. Len(chars) + 1 /\ n + 1 \in 1 .. Len(chars) + 1
        /\ chars[n] \in Decoded
    BY <1>3, ElementOfSeq
  <2>2. codes \in Seq(0 .. 255) /\ Len(codes) \in Nat
    BY <2>1, CodesOfChar
  <2>3. /\ start[n + 1] = start[n] + Len(codes)
        /\ \A i \in 1 .. Len(codes) :
             start[n] + i >= 1 => start[n] + i <= Len(queue) /\ queue[start[n] + i] = codes[i]
    BY DEF Layout
  <2> HIDE DEF codes
  <2>4. PICK first \in Int : start[n] = first
    BY <1>4, <2>1
  <2>5. moved[n] = first - 1 /\ moved[n + 1] = start[n + 1] - 1
    BY <1>6, <2>1, <2>4
  <2>6. moved[n + 1] = moved[n] + Len(codes)
    BY <2>2, <2>3, <2>4, <2>5
  <2>7. ASSUME NEW i \in 1 .. Len(codes), (first - 1) + i >= 1
        PROVE  (first - 1) + i <= Len(after) /\ after[(first - 1) + i] = codes[i]
    <3>1. i \in Int /\ first + i >= 2
      BY <2>2, <2>7
    <3>2. first + i <= Len(queue) /\ queue[first + i] = codes[i]
      BY <2>3, <2>4, <3>1
    <3>3. queue # << >>
      BY <1>3, <3>1, <3>2
    <3>4. (first - 1) + i \in 1 .. Len(after) /\ ((first - 1) + i) + 1 = first + i
      BY <1>2, <1>3, <3>1, <3>2, <3>3
    <3> QED
      BY <1>2, <3>2, <3>3, <3>4
  <2>8. \A i \in 1 .. Len(codes) :
          moved[n] + i >= 1 => moved[n] + i <= Len(after) /\ after[moved[n] + i] = codes[i]
    BY <2>5, <2>7
  <2> QED
    BY <2>6, <2>8 DEF codes
<1>8. /\ Layout(after, Len(queue) - 1, chars, gone, moved)
      /\ Layout(after, Len(queue) - 1, chars, gone + 1, moved)
  <2>1. \A n \in (gone + 1) + 1 .. Len(chars) : n \in gone + 1 .. Len(chars)
    BY <1>3
  <2> QED
    BY <1>6, <1>7, <2>1 DEF Layout
<1> QED
  BY <1>1, <1>2, <1>5, <1>6, <1>8 DEF after

\* What is loaded comes after it.
LEMMA LayoutOfLoad ==
  ASSUME NEW queue \in Seq(0 .. 255), NEW chars \in Seq(Decoded), NEW char \in Decoded,
         NEW gone \in Nat, NEW start, Layout(queue, Len(queue), chars, gone, start),
         NEW longer,
         longer \in [1 .. Len(chars) + 2 -> Int],
         \A n \in 1 .. Len(chars) + 1 : longer[n] = start[n],
         longer[Len(chars) + 2] = Len(queue) + Len(Scancodes(char))
  PROVE  Layout(queue \o Scancodes(char), Len(queue) + Len(Scancodes(char)),
                Append(chars, char), gone, longer)
<1> DEFINE new == Scancodes(char)
           all == Append(chars, char)
           after == queue \o new
<1>1. new \in Seq(0 .. 255)
  BY CodesOfChar
<1>2. /\ all \in Seq(Decoded) /\ Len(all) = Len(chars) + 1 /\ all[Len(all)] = char
      /\ \A n \in 1 .. Len(chars) : all[n] = chars[n]
  BY AppendProperties
<1>3. /\ Len(after) = Len(queue) + Len(new)
      /\ \A i \in 1 .. Len(queue) : after[i] = queue[i]
      /\ \A i \in 1 .. Len(new) : after[Len(queue) + i] = new[i]
  <2> HIDE DEF new
  <2> QED
    BY <1>1, ConcatProperties
<1>4. /\ start \in [1 .. Len(chars) + 1 -> Int] /\ start[Len(chars) + 1] = Len(queue)
      /\ Len(chars) \in Nat /\ Len(queue) \in Nat
  BY DEF Layout
<1>5. Len(new) \in Nat
  BY <1>1
<1> HIDE DEF new, all, after
<1>6. /\ longer \in [1 .. Len(all) + 1 -> Int] /\ longer[Len(all) + 1] = Len(queue) + Len(new)
      /\ \A n \in 1 .. Len(chars) + 1 : longer[n] = start[n]
  BY <1>2, <1>4, <1>5 DEF new
<1>7. ASSUME NEW n \in gone + 1 .. Len(all)
      PROVE  /\ longer[n + 1] = longer[n] + Len(Scancodes(all[n]))
             /\ \A i \in 1 .. Len(Scancodes(all[n])) :
                  longer[n] + i >= 1 =>
                    longer[n] + i <= Len(after) /\ after[longer[n] + i] = Scancodes(all[n])[i]
  <2>1. CASE n = Len(all)
    <3>1. Scancodes(all[n]) = new
      BY <1>2, <2>1 DEF new
    <3>2. longer[n] = Len(queue) /\ longer[n + 1] = Len(queue) + Len(new)
      BY <1>2, <1>4, <1>6, <2>1, SMTT(30)
    <3>3. \A i \in 1 .. Len(new) :
            longer[n] + i <= Len(after) /\ after[longer[n] + i] = new[i]
      BY <1>3, <1>4, <1>5, <3>2
    <3>4. longer[n + 1] = longer[n] + Len(new)
      BY <3>2
    <3> QED
      BY <3>1, <3>3, <3>4
  <2>2. CASE n # Len(all)
    <3> DEFINE codes == Scancodes(chars[n])
    <3>1. /\ n \in gone + 1 .. Len(chars) /\ n \in 1 .. Len(chars) /\ n + 1 \in 1 .. Len(chars) + 1
          /\ all[n] = chars[n] /\ chars[n] \in Decoded
      BY <1>2, <1>4, <2>2, ElementOfSeq
    <3>2. codes \in Seq(0 .. 255)
      BY <3>1, CodesOfChar
    <3>3. /\ start[n + 1] = start[n] + Len(codes)
          /\ \A i \in 1 .. Len(codes) :
               start[n] + i >= 1 => start[n] + i <= Len(queue) /\ queue[start[n] + i] = codes[i]
      BY <3>1 DEF Layout
    <3>4. longer[n] = start[n] /\ longer[n + 1] = start[n + 1] /\ start[n] \in Int
      BY <1>4, <1>6, <3>1
    <3> HIDE DEF codes
    <3>5. ASSUME NEW i \in 1 .. Len(codes), longer[n] + i >= 1
          PROVE  longer[n] + i <= Len(after) /\ after[longer[n] + i] = codes[i]
      <4>1. start[n] + i <= Len(queue) /\ queue[start[n] + i] = codes[i]
        BY <3>3, <3>4, <3>5
      <4>2. longer[n] + i \in 1 .. Len(queue) /\ longer[n] + i = start[n] + i
        BY <1>4, <3>2, <3>4, <3>5, <4>1
      <4> QED
        BY <1>3, <1>4, <1>5, <4>1, <4>2, SMTT(30)
    <3>6. longer[n + 1] = longer[n] + Len(codes)
      BY <3>3, <3>4
    <3> QED
      BY <3>1, <3>5, <3>6 DEF codes
  <2> QED
    BY <2>1, <2>2
<1> QED
  BY <1>6, <1>7 DEF Layout, new, all, after

-----------------------------------------------------------------------------
(* The inductive invariant *)

Returnable ==
  {scancode_to_ascii[code] : code \in 0 .. 127} \cup
  {scancode_to_ascii_shift[code] : code \in 0 .. 127} \cup {"^D"}

\* get_char is done with the first gone characters. It reads what is left of them, up to
\* the index start[gone + 1], without taking it for a character, unless a scancode was lost;
\* after the first scancode of the next one it knows which of the others comes.
Place(gone, start) ==
  /\ gone <= Len(typed)
  /\ Layout(KEY_FIFO, key_fifo_i, typed, gone, start)
  /\ \A i \in 1 .. Len(KEY_FIFO) : i <= start[gone + 1] => KEY_FIFO[i] \notin {29, 42}
  /\ pc \in {"out", "get_char"} =>
       start[gone + 1] >= 0 \/ (gone = Len(typed) /\ key_fifo_i = -1)
  /\ pc = "shift" =>
       gone < Len(typed) /\ start[gone + 1] = -1 /\ Scancodes(typed[gone + 1])[1] = 42
  /\ pc = "ctrl" =>
       gone < Len(typed) /\ start[gone + 1] = -1 /\ Scancodes(typed[gone + 1])[1] = 29
  /\ EmptyReads = {} =>
       /\ gone = Len(returned) /\ key_fifo_i >= 0
       /\ \A i \in 1 .. gone : returned[i] = typed[i]
       /\ \A i \in 1 .. Len(KEY_FIFO) : i <= start[gone + 1] => KEY_FIFO[i] >= 128

\* The first read of an empty queue comes after all that was typed.
EmptyReadIsLast ==
  EmptyReads = {Len(returned)} /\ key_fifo_i < 0 =>
    /\ Len(returned) = Len(typed) + 1 /\ returned[Len(typed) + 1] = "NUL"
    /\ \A i \in 1 .. Len(typed) : returned[i] = typed[i]

DataOK == typed \in Seq(Decoded) /\ KEY_FIFO \in Seq(0 .. 255) /\ returned \in Seq(Returnable)

IInv == DataOK /\ TypeOK /\ EmptyReadIsLast /\ \E gone \in Nat : \E start : Place(gone, start)

LEMMA ReturnOf ==
  ASSUME returned \in Seq(Returnable), NEW char \in Returnable, returned' = Append(returned, char)
  PROVE  /\ returned' \in Seq(Returnable) /\ Len(returned') = Len(returned) + 1
         /\ returned'[Len(returned) + 1] = char
         /\ \A i \in 1 .. Len(returned) : returned'[i] = returned[i]
         /\ EmptyReads \subseteq EmptyReads'
         /\ EmptyReads' = {Len(returned')} /\ char = "NUL" => EmptyReads = {}
         /\ char = "NUL" => Len(returned') \in EmptyReads'
<1>1. /\ returned' \in Seq(Returnable) /\ Len(returned') = Len(returned) + 1
      /\ returned'[Len(returned) + 1] = char
      /\ \A i \in 1 .. Len(returned) : returned'[i] = returned[i]
      /\ Len(returned) \in Nat
      /\ DOMAIN returned = 1 .. Len(returned) /\ DOMAIN returned' = 1 .. Len(returned) + 1
  BY AppendProperties
<1>2. EmptyReads \subseteq EmptyReads'
  BY <1>1 DEF EmptyReads
<1>3. Len(returned') \notin EmptyReads
  BY <1>1 DEF EmptyReads
<1>4. char = "NUL" => Len(returned') \in EmptyReads'
  BY <1>1 DEF EmptyReads
<1> QED
  BY <1>1, <1>2, <1>3, <1>4

LEMMA ReturnsTypedOfInductive == IInv => ReturnsTyped
<1> SUFFICES ASSUME IInv PROVE ReturnsTyped
  OBVIOUS
<1>g. PICK gone \in Nat : \E start : Place(gone, start)
  BY DEF IInv
<1> PICK start : Place(gone, start)
  BY <1>g
<1>1. /\ typed \in Seq(Decoded) /\ returned \in Seq(Returnable)
      /\ Len(typed) \in Nat /\ Len(returned) \in Nat
  BY DEF IInv, DataOK
<1>2. ASSUME EmptyReads = {}
      PROVE  Len(returned) <= Len(typed) /\ returned = SubSeq(typed, 1, Len(returned))
  <2>1. Len(returned) <= Len(typed) /\ \A i \in 1 .. Len(returned) : returned[i] = typed[i]
    BY <1>2 DEF Place
  <2>2. SubSeq(typed, 1, Len(returned)) = [i \in 1 .. Len(returned) |-> typed[i]]
    BY <1>1, <2>1
  <2>3. returned = [i \in 1 .. Len(returned) |-> returned[i]]
    BY <1>1
  <2> QED
    BY <2>1, <2>2, <2>3
<1>3. ASSUME EmptyReads = {Len(returned)}, key_fifo_i < 0
      PROVE  returned = Append(typed, "NUL")
  <2>1. /\ Len(returned) = Len(typed) + 1 /\ returned[Len(typed) + 1] = "NUL"
        /\ \A i \in 1 .. Len(typed) : returned[i] = typed[i]
    BY <1>3 DEF IInv, EmptyReadIsLast
  <2> DEFINE S == Decoded \cup Returnable \cup {"NUL"}
             all == Append(typed, "NUL")
  <2>2. typed \in Seq(S) /\ returned \in Seq(S) /\ "NUL" \in S
    BY <1>1
  <2> HIDE DEF S
  <2>3. /\ all \in Seq(S) /\ Len(all) = Len(typed) + 1 /\ all[Len(typed) + 1] = "NUL"
        /\ \A i \in 1 .. Len(typed) : all[i] = typed[i]
    BY <2>2, AppendProperties
  <2> HIDE DEF all
  <2>4. \A i \in 1 .. Len(returned) : returned[i] = all[i]
    BY <1>1, <2>1, <2>3
  <2>5. returned = all
    BY <2>1, <2>2, <2>3, <2>4, SeqEqual
  <2> QED
    BY <2>5 DEF all
<1> QED
  BY <1>2, <1>3 DEF ReturnsTyped

\* What was read so far, and what the next character of the queue is.
LEMMA NextChar ==
  ASSUME DataOK, NEW gone \in Nat, NEW start, Place(gone, start), gone < Len(typed)
  PROVE  LET char == typed[gone + 1]
             codes == Scancodes(char)
         IN  /\ char \in Decoded
             /\ start[gone + 1] \in Int
             /\ start[gone + 2] = start[gone + 1] + Len(codes)
             /\ \A i \in 1 .. Len(codes) :
                  start[gone + 1] + i >= 1 =>
                    /\ start[gone + 1] + i <= Len(KEY_FIFO)
                    /\ KEY_FIFO[start[gone + 1] + i] = codes[i]
<1>1. typed \in Seq(Decoded) /\ Len(typed) \in Nat /\ gone + 1 \in 1 .. Len(typed)
  BY DEF DataOK
<1>2. typed[gone + 1] \in Decoded
  BY <1>1, ElementOfSeq
<1>3. Layout(KEY_FIFO, key_fifo_i, typed, gone, start)
  BY DEF Place
<1>4. start \in [1 .. Len(typed) + 1 -> Int] /\ gone + 1 \in gone + 1 .. Len(typed)
  BY <1>1, <1>3 DEF Layout
<1>5. /\ start[(gone + 1) + 1] = start[gone + 1] + Len(Scancodes(typed[gone + 1]))
      /\ \A i \in 1 .. Len(Scancodes(typed[gone + 1])) :
           start[gone + 1] + i >= 1 =>
             /\ start[gone + 1] + i <= Len(KEY_FIFO)
             /\ KEY_FIFO[start[gone + 1] + i] = Scancodes(typed[gone + 1])[i]
  BY <1>3, <1>4 DEF Layout
<1>6. start[gone + 1] \in Int /\ (gone + 1) + 1 = gone + 2
  BY <1>1, <1>4
<1> QED
  BY <1>2, <1>5, <1>6

\* The j-th scancode of a character tells which it is; the others only let go of the keys.
TellsIt(codes, j) ==
  /\ j \in {1, 2} /\ Len(codes) = 2 * j
  /\ \A i \in j + 1 .. 2 * j : codes[i] \notin {29, 42} /\ codes[i] >= 128

\* get_char took the character: the rest of its scancodes stays in the queue.
LEMMA CharReturned ==
  ASSUME NEW gone \in Nat, NEW start, NEW j \in {1, 2}
  PROVE  /\ IInv /\ key_fifo_i >= 0
         /\ Place(gone, start) /\ gone < Len(typed) /\ start[gone + 1] = 1 - j
         /\ TellsIt(Scancodes(typed[gone + 1]), j)
         /\ typed[gone + 1] \in Returnable
         /\ KEY_FIFO' = IF KEY_FIFO = << >> THEN << >> ELSE Tail(KEY_FIFO)
         /\ key_fifo_i' = key_fifo_i - 1
         /\ pc' = "out" /\ returned' = Append(returned, typed[gone + 1]) /\ UNCHANGED <<typed, sim>>
         => IInv'
<1> DEFINE codes == Scancodes(typed[gone + 1])
<1>0. SUFFICES
        ASSUME IInv, key_fifo_i >= 0,
               Place(gone, start), gone < Len(typed), start[gone + 1] = 1 - j, TellsIt(codes, j),
               typed[gone + 1] \in Returnable,
               KEY_FIFO' = IF KEY_FIFO = << >> THEN << >> ELSE Tail(KEY_FIFO),
               key_fifo_i' = key_fifo_i - 1,
               pc' = "out", returned' = Append(returned, typed[gone + 1]), UNCHANGED <<typed, sim>>
        PROVE  IInv'
  OBVIOUS
<1>1. /\ typed \in Seq(Decoded) /\ KEY_FIFO \in Seq(0 .. 255) /\ returned \in Seq(Returnable)
      /\ DataOK /\ Len(KEY_FIFO) \in Nat /\ Len(typed) \in Nat /\ Len(returned) \in Nat
      /\ key_fifo_i = Len(KEY_FIFO) /\ Len(KEY_FIFO) < QueueLimit
  <2>1. DataOK /\ TypeOK /\ key_fifo_i >= 0
    BY <1>0 DEF IInv
  <2>2. typed \in Seq(Decoded) /\ KEY_FIFO \in Seq(0 .. 255) /\ returned \in Seq(Returnable)
    BY <2>1 DEF DataOK
  <2>3. key_fifo_i = Len(KEY_FIFO) /\ Len(KEY_FIFO) < QueueLimit
    BY <2>1 DEF TypeOK
  <2> QED
    BY <2>1, <2>2, <2>3
<1>a. gone < Len(typed) /\ gone + 1 <= Len(typed) /\ Place(gone, start)
  BY <1>0, <1>1
<1>b. Len(codes) = 2 * j /\ \A i \in j + 1 .. 2 * j : codes[i] \notin {29, 42} /\ codes[i] >= 128
  BY <1>0 DEF TellsIt
<1>c. /\ KEY_FIFO' = IF KEY_FIFO = << >> THEN << >> ELSE Tail(KEY_FIFO)
      /\ key_fifo_i' = Len(KEY_FIFO) - 1 /\ typed' = typed /\ sim' = sim /\ pc' = "out"
  BY <1>0, <1>1
<1>2. /\ start[gone + 2] = j + 1
      /\ \A i \in j .. 2 * j : i + 1 - j <= Len(KEY_FIFO) /\ KEY_FIFO[i + 1 - j] = codes[i]
  <2>1. /\ start[gone + 1] = 1 - j
        /\ start[gone + 2] = start[gone + 1] + Len(codes)
        /\ \A i \in 1 .. Len(codes) :
             start[gone + 1] + i >= 1 =>
               /\ start[gone + 1] + i <= Len(KEY_FIFO)
               /\ KEY_FIFO[start[gone + 1] + i] = codes[i]
    <3>1. start[gone + 1] = 1 - j
      BY <1>0
    <3> QED
      BY <1>1, <1>a, <3>1, NextChar
  <2> HIDE DEF codes
  <2>2. ASSUME NEW i \in j .. 2 * j
        PROVE  i + 1 - j <= Len(KEY_FIFO) /\ KEY_FIFO[i + 1 - j] = codes[i]
    <3>1. i \in 1 .. Len(codes) /\ start[gone + 1] + i = i + 1 - j /\ i + 1 - j >= 1
      BY <1>b, <2>1
    <3> QED
      BY <2>1, <3>1
  <2> QED
    BY <1>b, <2>1, <2>2
<1> HIDE DEF codes
<1>3. KEY_FIFO # << >> /\ Len(KEY_FIFO) >= j + 1
  <2>1. 2 * j \in j .. 2 * j
    OBVIOUS
  <2>2. 2 * j + 1 - j <= Len(KEY_FIFO)
    BY <1>2, <2>1
  <2> QED
    BY <1>1, <2>2
<1>d. Layout(KEY_FIFO, Len(KEY_FIFO), typed, gone, start)
  BY <1>1, <1>a DEF Place
<1>4. /\ KEY_FIFO' \in Seq(0 .. 255)
      /\ Len(KEY_FIFO') = Len(KEY_FIFO) - 1
      /\ \A i \in 1 .. Len(KEY_FIFO') : KEY_FIFO'[i] = KEY_FIFO[i + 1]
  BY <1>1, <1>3, <1>c, <1>d, QueueAfterRead DEF AfterRead
<1>5. PICK moved : /\ \A n \in 1 .. Len(typed) + 1 : moved[n] = start[n] - 1
                   /\ Layout(KEY_FIFO', Len(KEY_FIFO) - 1, typed, gone, moved)
                   /\ Layout(KEY_FIFO', Len(KEY_FIFO) - 1, typed, gone + 1, moved)
  <2>1. KEY_FIFO' = AfterRead(KEY_FIFO)
    BY <1>c DEF AfterRead
  <2>2. typed \in Seq(Decoded) /\ KEY_FIFO \in Seq(0 .. 255)
    BY <1>1
  <2>3. /\ \A n \in 1 .. Len(typed) + 1 : OneDown(typed, start)[n] = start[n] - 1
        /\ Layout(KEY_FIFO', Len(KEY_FIFO) - 1, typed, gone, OneDown(typed, start))
        /\ Layout(KEY_FIFO', Len(KEY_FIFO) - 1, typed, gone + 1, OneDown(typed, start))
    BY <1>d, <2>1, <2>2, QueueAfterRead
  <2> QED
    BY <2>3
<1>6. moved[gone + 2] = j
  <2>1. gone + 2 \in 1 .. Len(typed) + 1
    BY <1>1, <1>a
  <2> QED
    BY <1>2, <1>5, <2>1
<1>7. \A i \in 1 .. Len(KEY_FIFO') : i <= j => KEY_FIFO'[i] \notin {29, 42} /\ KEY_FIFO'[i] >= 128
  <2> SUFFICES ASSUME NEW i \in 1 .. Len(KEY_FIFO'), i <= j
               PROVE  KEY_FIFO'[i] \notin {29, 42} /\ KEY_FIFO'[i] >= 128
    OBVIOUS
  <2>1. i + j \in j + 1 .. 2 * j /\ i + j \in j .. 2 * j /\ (i + j) + 1 - j = i + 1
    BY <1>1, <1>4
  <2>2. KEY_FIFO'[i] = KEY_FIFO[i + 1]
    BY <1>4
  <2>3. KEY_FIFO[i + 1] = codes[i + j]
    BY <1>2, <2>1
  <2> QED
    BY <1>b, <2>1, <2>2, <2>3
<1>8. /\ returned' \in Seq(Returnable) /\ Len(returned') = Len(returned) + 1
      /\ returned'[Len(returned) + 1] = typed[gone + 1]
      /\ \A i \in 1 .. Len(returned) : returned'[i] = returned[i]
      /\ EmptyReads \subseteq EmptyReads'
  BY <1>0, <1>1, ReturnOf
<1>9. DataOK'
  BY <1>1, <1>4, <1>8, <1>c DEF DataOK
<1>10. TypeOK'
  <2>1. \A i \in DOMAIN KEY_FIFO' : KEY_FIFO'[i] \in 0 .. 255
    BY <1>4, BytesOfQueue
  <2>2. Len(KEY_FIFO') < QueueLimit /\ key_fifo_i' = Len(KEY_FIFO')
    BY <1>1, <1>4, <1>c, LimitAssumption
  <2>3. sim' \in {"running", "asserted", "crashed"} /\ pc' \in {"out", "get_char", "shift", "ctrl"}
    BY <1>0, <1>c DEF IInv, TypeOK
  <2> QED
    BY <2>1, <2>2, <2>3 DEF TypeOK
<1>11. EmptyReadIsLast'
  <2>1. ~ key_fifo_i' < 0
    BY <1>1, <1>3, <1>c
  <2> QED
    BY <2>1 DEF EmptyReadIsLast
<1>12. Place(gone + 1, moved)'
  <2>1. gone + 1 <= Len(typed') /\ Layout(KEY_FIFO', key_fifo_i', typed', gone + 1, moved)
    BY <1>5, <1>a, <1>c
  <2>2. moved[gone + 1 + 1] = j /\ j >= 0
    BY <1>6
  <2>3. ASSUME EmptyReads' = {}
        PROVE  /\ gone + 1 = Len(returned') /\ key_fifo_i' >= 0
               /\ \A i \in 1 .. gone + 1 : returned'[i] = typed'[i]
    <3>1. EmptyReads = {}
      BY <1>8, <2>3
    <3>2. gone = Len(returned) /\ \A i \in 1 .. gone : returned[i] = typed[i]
      BY <1>a, <3>1 DEF Place
    <3> QED
      BY <1>1, <1>3, <1>8, <1>c, <3>2, SMTT(30)
  <2>4. \A i \in 1 .. Len(KEY_FIFO') :
          i <= moved[gone + 1 + 1] => KEY_FIFO'[i] \notin {29, 42} /\ KEY_FIFO'[i] >= 128
    BY <1>7, <2>2
  <2> QED
    BY <1>c, <2>1, <2>2, <2>3, <2>4 DEF Place
<1> QED
  BY <1>9, <1>10, <1>11, <1>12 DEF IInv

\* get_char read on without returning a character, or one that was not typed after an empty
\* read: where it is among what was typed stays the same.
LEMMA CodeSkipped ==
  ASSUME NEW gone \in Nat, NEW start
  PROVE  /\ IInv /\ key_fifo_i >= 0 /\ KEY_FIFO # << >>
         /\ Place(gone, start)
         /\ KEY_FIFO' = Tail(KEY_FIFO) /\ key_fifo_i' = key_fifo_i - 1
         /\ pc' \in {"out", "get_char", "shift", "ctrl"}
         /\ pc' \in {"out", "get_char"} => start[gone + 1] >= 1
         /\ pc' = "shift" => /\ gone < Len(typed) /\ start[gone + 1] = 0
                             /\ Scancodes(typed[gone + 1])[1] = 42
         /\ pc' = "ctrl"  => /\ gone < Len(typed) /\ start[gone + 1] = 0
                             /\ Scancodes(typed[gone + 1])[1] = 29
         /\ returned' = returned \/ (/\ EmptyReads # {}
                                     /\ \E char \in Returnable : returned' = Append(returned, char))
         /\ UNCHANGED <<typed, sim>>
         => IInv'
<1>0. SUFFICES
        ASSUME IInv, key_fifo_i >= 0, KEY_FIFO # << >>,
               Place(gone, start),
               KEY_FIFO' = Tail(KEY_FIFO), key_fifo_i' = key_fifo_i - 1,
               pc' \in {"out", "get_char", "shift", "ctrl"},
               pc' \in {"out", "get_char"} => start[gone + 1] >= 1,
               pc' = "shift" => /\ gone < Len(typed) /\ start[gone + 1] = 0
                                /\ Scancodes(typed[gone + 1])[1] = 42,
               pc' = "ctrl"  => /\ gone < Len(typed) /\ start[gone + 1] = 0
                                /\ Scancodes(typed[gone + 1])[1] = 29,
               returned' = returned \/ (/\ EmptyReads # {}
                                        /\ \E char \in Returnable : returned' = Append(returned, char)),
               UNCHANGED <<typed, sim>>
        PROVE  IInv'
  OBVIOUS
<1>1. /\ typed \in Seq(Decoded) /\ KEY_FIFO \in Seq(0 .. 255) /\ returned \in Seq(Returnable)
      /\ Len(KEY_FIFO) \in Nat /\ Len(typed) \in Nat /\ Len(returned) \in Nat
      /\ key_fifo_i = Len(KEY_FIFO) /\ Len(KEY_FIFO) < QueueLimit
  <2>1. DataOK /\ TypeOK /\ key_fifo_i >= 0
    BY <1>0 DEF IInv
  <2>2. typed \in Seq(Decoded) /\ KEY_FIFO \in Seq(0 .. 255) /\ returned \in Seq(Returnable)
    BY <2>1 DEF DataOK
  <2>3. key_fifo_i = Len(KEY_FIFO) /\ Len(KEY_FIFO) < QueueLimit
    BY <2>1 DEF TypeOK
  <2> QED
    BY <2>2, <2>3
<1>2. /\ KEY_FIFO # << >> /\ KEY_FIFO' = IF KEY_FIFO = << >> THEN << >> ELSE Tail(KEY_FIFO)
      /\ key_fifo_i' = Len(KEY_FIFO) - 1 /\ typed' = typed /\ sim' = sim
      /\ Place(gone, start) /\ gone <= Len(typed)
  BY <1>0, <1>1 DEF Place
<1>3. Layout(KEY_FIFO, Len(KEY_FIFO), typed, gone, start)
  BY <1>1, <1>2 DEF Place
<1>4. /\ KEY_FIFO' \in Seq(0 .. 255)
      /\ Len(KEY_FIFO') = Len(KEY_FIFO) - 1
      /\ \A i \in 1 .. Len(KEY_FIFO') : KEY_FIFO'[i] = KEY_FIFO[i + 1]
  <2>1. KEY_FIFO' = AfterRead(KEY_FIFO)
    BY <1>2 DEF AfterRead
  <2> QED
    BY <1>1, <1>2, <1>3, <2>1, QueueAfterRead
<1>5. PICK moved : /\ \A n \in 1 .. Len(typed) + 1 : moved[n] = start[n] - 1
                   /\ Layout(KEY_FIFO', Len(KEY_FIFO) - 1, typed, gone, moved)
                   /\ Layout(KEY_FIFO', Len(KEY_FIFO) - 1, typed, gone + 1, moved)
  <2>1. KEY_FIFO' = AfterRead(KEY_FIFO)
    BY <1>2 DEF AfterRead
  <2>2. /\ \A n \in 1 .. Len(typed) + 1 : OneDown(typed, start)[n] = start[n] - 1
        /\ Layout(KEY_FIFO', Len(KEY_FIFO) - 1, typed, gone, OneDown(typed, start))
        /\ Layout(KEY_FIFO', Len(KEY_FIFO) - 1, typed, gone + 1, OneDown(typed, start))
    BY <1>1, <1>3, <2>1, QueueAfterRead
  <2> QED
    BY <2>2
<1>6. PICK first \in Int : start[gone + 1] = first /\ moved[gone + 1] = first - 1
  <2>1. gone + 1 \in 1 .. Len(typed) + 1 /\ start \in [1 .. Len(typed) + 1 -> Int]
    BY <1>1, <1>2, <1>3 DEF Layout
  <2> QED
    BY <1>5, <2>1
<1>7. /\ returned' \in Seq(Returnable)
      /\ EmptyReads' = {} => EmptyReads = {} /\ returned' = returned
  <2>1. CASE returned' = returned
    BY <1>1, <2>1 DEF EmptyReads
  <2>2. CASE EmptyReads # {} /\ \E char \in Returnable : returned' = Append(returned, char)
    <3>1. PICK char \in Returnable : returned' = Append(returned, char)
      BY <2>2
    <3>2. returned' \in Seq(Returnable) /\ EmptyReads \subseteq EmptyReads'
      BY <1>1, <3>1, ReturnOf
    <3> QED
      BY <2>2, <3>2
  <2> QED
    BY <1>0, <2>1, <2>2
<1>8. DataOK'
  BY <1>1, <1>2, <1>4, <1>7 DEF DataOK
<1>9. TypeOK'
  <2>1. \A i \in DOMAIN KEY_FIFO' : KEY_FIFO'[i] \in 0 .. 255
    BY <1>4, BytesOfQueue
  <2>2. Len(KEY_FIFO') < QueueLimit /\ key_fifo_i' = Len(KEY_FIFO')
    BY <1>1, <1>2, <1>4, LimitAssumption
  <2>3. sim' \in {"running", "asserted", "crashed"} /\ pc' \in {"out", "get_char", "shift", "ctrl"}
    BY <1>0, <1>2 DEF IInv, TypeOK
  <2> QED
    BY <2>1, <2>2, <2>3 DEF TypeOK
<1>10. EmptyReadIsLast'
  <2>1. ~ key_fifo_i' < 0
    BY <1>1, <1>2, <1>4
  <2> QED
    BY <2>1 DEF EmptyReadIsLast
<1>11. Place(gone, moved)'
  <2>1. gone <= Len(typed') /\ Layout(KEY_FIFO', key_fifo_i', typed', gone, moved)
    BY <1>2, <1>5
  <2>2. \A i \in 1 .. Len(KEY_FIFO') :
          i <= moved[gone + 1] =>
            i + 1 \in 1 .. Len(KEY_FIFO) /\ i + 1 <= start[gone + 1] /\ KEY_FIFO'[i] = KEY_FIFO[i + 1]
    BY <1>1, <1>4, <1>6
  <2>3. \A i \in 1 .. Len(KEY_FIFO') : i <= moved[gone + 1] => KEY_FIFO'[i] \notin {29, 42}
    BY <1>2, <2>2 DEF Place
  <2>4. pc' \in {"out", "get_char"} => moved[gone + 1] >= 0
    BY <1>0, <1>6
  <2>5. /\ pc' = "shift" => /\ gone < Len(typed') /\ moved[gone + 1] = -1
                            /\ Scancodes(typed'[gone + 1])[1] = 42
        /\ pc' = "ctrl"  => /\ gone < Len(typed') /\ moved[gone + 1] = -1
                            /\ Scancodes(typed'[gone + 1])[1] = 29
    BY <1>0, <1>2, <1>6
  <2>6. ASSUME EmptyReads' = {}
        PROVE  /\ gone = Len(returned') /\ key_fifo_i' >= 0
               /\ \A i \in 1 .. gone : returned'[i] = typed'[i]
               /\ \A i \in 1 .. Len(KEY_FIFO') : i <= moved[gone + 1] => KEY_FIFO'[i] >= 128
    <3>1. EmptyReads = {} /\ returned' = returned
      BY <1>7, <2>6
    <3>2. /\ gone = Len(returned) /\ \A i \in 1 .. gone : returned[i] = typed[i]
          /\ \A i \in 1 .. Len(KEY_FIFO) : i <= start[gone + 1] => KEY_FIFO[i] >= 128
      BY <1>2, <3>1 DEF Place
    <3>3. key_fifo_i' >= 0
      BY <1>1, <1>2, <1>4
    <3> QED
      BY <1>2, <2>2, <3>1, <3>2, <3>3
  <2> QED
    BY <2>1, <2>3, <2>4, <2>5, <2>6 DEF Place
<1> QED
  BY <1>8, <1>9, <1>10, <1>11 DEF IInv

-----------------------------------------------------------------------------
(* The steps *)

LEMMA AllInQueue ==
  ASSUME NEW gone \in Nat, NEW start
  PROVE  /\ IInv /\ Place(gone, start)
         =>
         /\ gone = Len(typed) => start[gone + 1] = key_fifo_i
         /\ gone < Len(typed) =>
              LET codes == Scancodes(typed[gone + 1])
              IN  /\ typed[gone + 1] \in Decoded
                  /\ start[gone + 1] = 0 => KEY_FIFO # << >> /\ Head(KEY_FIFO) = codes[1]
                  /\ start[gone + 1] = -1 => KEY_FIFO # << >> /\ Head(KEY_FIFO) = codes[2]
                  /\ start[gone + 1] > 0 => KEY_FIFO # << >>
         /\ start[gone + 1] \in Int
<1>0. SUFFICES ASSUME IInv, Place(gone, start)
               PROVE  /\ gone = Len(typed) => start[gone + 1] = key_fifo_i
                      /\ gone < Len(typed) =>
                           LET codes == Scancodes(typed[gone + 1])
                           IN  /\ typed[gone + 1] \in Decoded
                               /\ start[gone + 1] = 0 => KEY_FIFO # << >> /\ Head(KEY_FIFO) = codes[1]
                               /\ start[gone + 1] = -1 => KEY_FIFO # << >> /\ Head(KEY_FIFO) = codes[2]
                               /\ start[gone + 1] > 0 => KEY_FIFO # << >>
                      /\ start[gone + 1] \in Int
  OBVIOUS
<1>1. /\ typed \in Seq(Decoded) /\ KEY_FIFO \in Seq(0 .. 255) /\ DataOK
      /\ Len(typed) \in Nat /\ Len(KEY_FIFO) \in Nat
  BY <1>0 DEF IInv, DataOK
<1>2. gone <= Len(typed) /\ Layout(KEY_FIFO, key_fifo_i, typed, gone, start) /\ Place(gone, start)
  BY <1>0 DEF Place
<1>3. start[gone + 1] \in Int /\ (gone = Len(typed) => start[gone + 1] = key_fifo_i)
  <2>1. gone + 1 \in 1 .. Len(typed) + 1
    BY <1>1, <1>2
  <2> QED
    BY <1>2, <2>1 DEF Layout
<1>4. ASSUME gone < Len(typed)
      PROVE  LET codes == Scancodes(typed[gone + 1])
             IN  /\ typed[gone + 1] \in Decoded
                 /\ start[gone + 1] = 0 => KEY_FIFO # << >> /\ Head(KEY_FIFO) = codes[1]
                 /\ start[gone + 1] = -1 => KEY_FIFO # << >> /\ Head(KEY_FIFO) = codes[2]
                 /\ start[gone + 1] > 0 => KEY_FIFO # << >>
  <2> DEFINE codes == Scancodes(typed[gone + 1])
  <2>1. /\ typed[gone + 1] \in Decoded
        /\ \A i \in 1 .. Len(codes) :
             start[gone + 1] + i >= 1 =>
               /\ start[gone + 1] + i <= Len(KEY_FIFO)
               /\ KEY_FIFO[start[gone + 1] + i] = codes[i]
    BY <1>1, <1>2, <1>4, NextChar
  <2>2. Len(codes) \in {2, 4}
    BY <2>1, CodesOfChar
  <2> HIDE DEF codes
  <2>3. start[gone + 1] = 0 => 1 <= Len(KEY_FIFO) /\ KEY_FIFO[1] = codes[1]
    BY <2>1, <2>2
  <2>4. start[gone + 1] = -1 => 1 <= Len(KEY_FIFO) /\ KEY_FIFO[1] = codes[2]
    BY <2>1, <2>2
  <2>5. start[gone + 1] > 0 => 1 <= Len(KEY_FIFO)
    <3>1. 1 \in 1 .. Len(codes)
      BY <2>2
    <3>2. start[gone + 1] > 0 => start[gone + 1] + 1 <= Len(KEY_FIFO)
      BY <1>3, <2>1, <3>1
    <3> QED
      BY <1>1, <1>3, <3>2
  <2>6. 1 <= Len(KEY_FIFO) => KEY_FIFO # << >> /\ Head(KEY_FIFO) = KEY_FIFO[1]
    BY <1>1
  <2> QED
    BY <2>1, <2>3, <2>4, <2>5, <2>6 DEF codes
<1> QED
  BY <1>3, <1>4

LEMMA ShiftRead == IInv /\ shift => IInv'
<1> SUFFICES ASSUME IInv, shift PROVE IInv'
  OBVIOUS
<1>g. PICK gone \in Nat : \E start : Place(gone, start)
  BY DEF IInv
<1>1. PICK start : Place(gone, start)
  BY <1>g
<1> DEFINE char == typed[gone + 1]
           codes == Scancodes(char)
<1>2. gone < Len(typed) /\ start[gone + 1] = -1 /\ codes[1] = 42
  BY <1>1 DEF shift, Place
<1>3. char \in Decoded /\ KEY_FIFO # << >> /\ Head(KEY_FIFO) = codes[2]
  BY <1>1, <1>2, AllInQueue
<1>4. codes[2] \in 1 .. 127 /\ scancode_to_ascii_shift[codes[2]] = char /\ TellsIt(codes, 2)
  <2>1. /\ codes[2] \in 1 .. 127 /\ Len(codes) = 4 /\ scancode_to_ascii_shift[codes[2]] = char
        /\ \A i \in 2 .. Len(codes) : codes[i] \notin {29, 42}
        /\ \A i \in 3 .. Len(codes) : codes[i] >= 128
    BY <1>2, <1>3, CodesOfChar
  <2> HIDE DEF codes, char
  <2> QED
    BY <2>1 DEF TellsIt
<1> HIDE DEF codes, char
<1>5. key_fifo_i = Len(KEY_FIFO) /\ key_fifo_i >= 0
  BY <1>3 DEF IInv, TypeOK, DataOK
<1>6. /\ KEY_FIFO' = IF KEY_FIFO = << >> THEN << >> ELSE Tail(KEY_FIFO)
      /\ key_fifo_i' = key_fifo_i - 1
      /\ pc' = "out" /\ returned' = Append(returned, scancode_to_ascii_shift[codes[2]])
      /\ UNCHANGED <<typed, sim>>
  BY <1>3, <1>5 DEF shift, KEY_A, ShiftedCode, Return
<1>7. scancode_to_ascii_shift[codes[2]] \in Returnable
  BY <1>4 DEF Returnable
<1>8. start[gone + 1] = 1 - 2 /\ 2 \in {1, 2}
  BY <1>2
<1> QED
  BY <1>1, <1>2, <1>4, <1>5, <1>6, <1>7, <1>8, CharReturned DEF codes, char

LEMMA ControlRead == IInv /\ ctrl => IInv'
<1> SUFFICES ASSUME IInv, ctrl PROVE IInv'
  OBVIOUS
<1>g. PICK gone \in Nat : \E start : Place(gone, start)
  BY DEF IInv
<1>1. PICK start : Place(gone, start)
  BY <1>g
<1> DEFINE char == typed[gone + 1]
           codes == Scancodes(char)
<1>2. gone < Len(typed) /\ start[gone + 1] = -1 /\ codes[1] = 29
  BY <1>1 DEF ctrl, Place
<1>3. char \in Decoded /\ KEY_FIFO # << >> /\ Head(KEY_FIFO) = codes[2]
  BY <1>1, <1>2, AllInQueue
<1>4. codes[2] = 32 /\ char = "^D" /\ TellsIt(codes, 2)
  <2>1. /\ codes[2] = 32 /\ Len(codes) = 4 /\ char = "^D"
        /\ \A i \in 2 .. Len(codes) : codes[i] \notin {29, 42}
        /\ \A i \in 3 .. Len(codes) : codes[i] >= 128
    BY <1>2, <1>3, CodesOfChar
  <2> HIDE DEF codes, char
  <2> QED
    BY <2>1 DEF TellsIt
<1> HIDE DEF codes, char
<1>5. key_fifo_i = Len(KEY_FIFO) /\ key_fifo_i >= 0
  BY <1>3 DEF IInv, TypeOK, DataOK
<1>6. /\ KEY_FIFO' = IF KEY_FIFO = << >> THEN << >> ELSE Tail(KEY_FIFO)
      /\ key_fifo_i' = key_fifo_i - 1
      /\ pc' = "out" /\ returned' = Append(returned, "^D")
      /\ UNCHANGED <<typed, sim>>
  BY <1>3, <1>4, <1>5 DEF ctrl, KEY_A, ControlCode, Return
<1>7. "^D" \in Returnable
  BY DEF Returnable
<1>8. start[gone + 1] = 1 - 2 /\ 2 \in {1, 2}
  BY <1>2
<1> QED
  BY <1>1, <1>2, <1>4, <1>5, <1>6, <1>7, <1>8, CharReturned DEF codes, char

\* A call of get_char, and the end of the simulator, leave the queue alone.
LEMMA QueueLeftAlone ==
  /\ IInv /\ UNCHANGED <<KEY_FIFO, key_fifo_i, typed, returned>>
  /\ pc' = pc \/ (pc = "out" /\ pc' = "get_char")
  /\ sim' \in {"running", "asserted", "crashed"}
  => IInv'
<1>0. SUFFICES ASSUME IInv, UNCHANGED <<KEY_FIFO, key_fifo_i, typed, returned>>,
                      pc' = pc \/ (pc = "out" /\ pc' = "get_char"),
                      sim' \in {"running", "asserted", "crashed"}
               PROVE  IInv'
  OBVIOUS
<1>g. PICK gone \in Nat : \E start : Place(gone, start)
  BY <1>0 DEF IInv
<1>1. PICK start : Place(gone, start)
  BY <1>g
<1>2. EmptyReads' = EmptyReads
  BY <1>0 DEF EmptyReads
<1>3. DataOK' /\ TypeOK' /\ EmptyReadIsLast'
  BY <1>0, <1>2 DEF IInv, DataOK, TypeOK, EmptyReadIsLast
<1>4. Place(gone, start)'
  BY <1>0, <1>1, <1>2 DEF Place
<1> QED
  BY <1>3, <1>4 DEF IInv

\* get_char finds the queue empty when all that was typed is gone.
LEMMA EmptyRead ==
  ASSUME NEW gone \in Nat, NEW start
  PROVE  /\ IInv /\ Place(gone, start) /\ KEY_FIFO = << >> /\ key_fifo_i >= 0
         /\ gone = Len(typed)
         /\ KEY_FIFO' = << >> /\ key_fifo_i' = key_fifo_i - 1
         /\ pc' = "out" /\ returned' = Append(returned, "NUL") /\ "NUL" \in Returnable
         /\ UNCHANGED <<typed, sim>>
         => IInv'
<1>0. SUFFICES ASSUME IInv, Place(gone, start), KEY_FIFO = << >>, key_fifo_i >= 0,
                      gone = Len(typed),
                      KEY_FIFO' = << >>, key_fifo_i' = key_fifo_i - 1,
                      pc' = "out", returned' = Append(returned, "NUL"), "NUL" \in Returnable,
                      UNCHANGED <<typed, sim>>
               PROVE  IInv'
  OBVIOUS
<1>1. /\ typed \in Seq(Decoded) /\ returned \in Seq(Returnable) /\ KEY_FIFO \in Seq(0 .. 255)
      /\ Len(typed) \in Nat /\ Len(returned) \in Nat
  BY <1>0 DEF IInv, DataOK
<1>2. key_fifo_i = 0 /\ key_fifo_i' = -1
  BY <1>0 DEF IInv, TypeOK
<1>3. /\ returned' \in Seq(Returnable) /\ Len(returned') = Len(returned) + 1
      /\ returned'[Len(returned) + 1] = "NUL"
      /\ \A i \in 1 .. Len(returned) : returned'[i] = returned[i]
      /\ EmptyReads' = {Len(returned')} => EmptyReads = {}
      /\ EmptyReads' # {}
  BY <1>0, <1>1, ReturnOf
<1>4. DataOK'
  BY <1>0, <1>1, <1>3 DEF DataOK
<1>5. TypeOK'
  BY <1>0, <1>2, LimitAssumption DEF IInv, TypeOK
<1>6. EmptyReadIsLast'
  <2>1. ASSUME EmptyReads' = {Len(returned')}
        PROVE  /\ Len(returned') = Len(typed') + 1 /\ returned'[Len(typed') + 1] = "NUL"
               /\ \A i \in 1 .. Len(typed') : returned'[i] = typed'[i]
    <3>1. EmptyReads = {}
      BY <1>3, <2>1
    <3>2. Len(typed) = Len(returned) /\ \A i \in 1 .. Len(typed) : returned[i] = typed[i]
      BY <1>0, <3>1 DEF Place
    <3> QED
      BY <1>0, <1>3, <3>2
  <2> QED
    BY <2>1 DEF EmptyReadIsLast
<1>7. \E moved : Place(gone, moved)'
  <2>3. PICK moved : moved = [n \in 1 .. Len(typed) + 1 |-> -1]
    OBVIOUS
  <2>1. moved \in [1 .. Len(typed) + 1 -> Int] /\ moved[Len(typed) + 1] = -1
    BY <1>1, <2>3
  <2>2. gone + 1 .. Len(typed) = {}
    BY <1>0, <1>1
  <2>4. Layout(KEY_FIFO', key_fifo_i', typed', gone, moved)
    <3>1. Layout(KEY_FIFO', -1, typed, gone, moved)
      BY <2>1, <2>2 DEF Layout
    <3> QED
      BY <1>0, <1>2, <3>1
  <2>5. gone <= Len(typed') /\ gone = Len(typed') /\ 1 .. Len(KEY_FIFO') = {}
    BY <1>0, <1>1
  <2>6. Place(gone, moved)'
    BY <1>0, <1>2, <1>3, <2>4, <2>5 DEF Place
  <2> QED
    BY <2>6
<1> QED
  BY <1>4, <1>5, <1>6, <1>7 DEF IInv

LEMMA GetCharRead == IInv /\ get_char => IInv'
<1>0. SUFFICES ASSUME IInv, get_char PROVE IInv'
  OBVIOUS
<1>1. CASE key_fifo_i < 0
  <2>1. /\ UNCHANGED <<KEY_FIFO, key_fifo_i, typed, returned>> /\ pc' = pc /\ sim' = "crashed"
    BY <1>0, <1>1 DEF get_char, KEY_A
  <2> QED
    BY <1>0, <2>1, QueueLeftAlone
<1>2. CASE ~ key_fifo_i < 0
  <2>g. PICK gone \in Nat : \E start : Place(gone, start)
    BY <1>0 DEF IInv
  <2>1. PICK start : Place(gone, start)
    BY <2>g
  <2>2. /\ KEY_FIFO \in Seq(0 .. 255) /\ key_fifo_i = Len(KEY_FIFO) /\ key_fifo_i >= 0
        /\ Len(typed) \in Nat /\ gone <= Len(typed)
    BY <1>0, <1>2, <2>1 DEF IInv, DataOK, TypeOK, Place
  <2>3. /\ start[gone + 1] \in Int
        /\ gone = Len(typed) => start[gone + 1] = key_fifo_i
    BY <1>0, <2>1, AllInQueue
  <2>4. start[gone + 1] >= 0
    BY <1>0, <2>1, <2>2 DEF get_char, Place
  <2> DEFINE code == IF KEY_FIFO = << >> THEN 0 ELSE Head(KEY_FIFO)
  <2>5. /\ KEY_FIFO' = IF KEY_FIFO = << >> THEN << >> ELSE Tail(KEY_FIFO)
        /\ key_fifo_i' = key_fifo_i - 1 /\ UNCHANGED <<typed, sim>>
        /\ FirstCode(code)
    BY <1>0, <1>2 DEF get_char, KEY_A
  <2>6. \/ code = 29 /\ pc' = "ctrl" /\ returned' = returned
        \/ code = 42 /\ pc' = "shift" /\ returned' = returned
        \/ code \notin {29, 42} /\ code >= 128 /\ pc' = "get_char" /\ returned' = returned
        \/ /\ code \notin {29, 42} /\ ~ code >= 128
           /\ pc' = "out" /\ returned' = Append(returned, scancode_to_ascii[code])
    BY <2>5 DEF FirstCode, GoTo, Return, LeftCtrl, LeftShift, Released
  <2>7. code \in 0 .. 255
    BY <2>2
  <2> HIDE DEF code
  <2>8. CASE KEY_FIFO = << >>
    <3>1. gone = Len(typed)
      BY <1>0, <2>1, <2>2, <2>3, <2>4, <2>8, AllInQueue
    <3>2. code = 0
      BY <2>8 DEF code
    <3>3. scancode_to_ascii[0] = "NUL" /\ "NUL" \in Returnable
      BY PlainTable DEF Returnable
    <3>4. pc' = "out" /\ returned' = Append(returned, "NUL")
      BY <2>6, <3>2, <3>3
    <3> QED
      BY <1>0, <2>1, <2>2, <2>5, <2>8, <3>1, <3>3, <3>4, EmptyRead
  <2>9. CASE KEY_FIFO # << >> /\ start[gone + 1] >= 1
    <3>1. 1 \in 1 .. Len(KEY_FIFO) /\ KEY_FIFO[1] = code
      BY <2>2, <2>9 DEF code
    <3>2. code \notin {29, 42} /\ (EmptyReads = {} => code >= 128)
      BY <2>1, <2>9, <3>1 DEF Place
    <3>3. pc' = "get_char" \/ pc' = "out"
      BY <2>6, <3>2
    <3>4. ~ code >= 128 => scancode_to_ascii[code] \in Returnable
      BY <2>7 DEF Returnable
    <3>5. returned' = returned \/ (/\ EmptyReads # {}
                                   /\ \E char \in Returnable : returned' = Append(returned, char))
      BY <2>6, <3>2, <3>4
    <3> QED
      BY <1>0, <2>1, <2>2, <2>5, <2>9, <3>3, <3>5, CodeSkipped
  <2>10. CASE KEY_FIFO # << >> /\ start[gone + 1] = 0
    <3>1. gone < Len(typed)
      BY <2>2, <2>3, <2>10
    <3> DEFINE char == typed[gone + 1]
               codes == Scancodes(char)
    <3>2. char \in Decoded /\ code = codes[1]
      BY <1>0, <2>1, <2>10, <3>1, AllInQueue DEF code
    <3>3. \/ codes[1] = 29
          \/ codes[1] = 42
          \/ /\ codes[1] \in 1 .. 127 \ {29, 42} /\ scancode_to_ascii[codes[1]] = char
             /\ TellsIt(codes, 1)
      <4>1. \/ codes[1] = 29
            \/ codes[1] = 42
            \/ /\ codes[1] \in 1 .. 127 \ {29, 42} /\ Len(codes) = 2
               /\ scancode_to_ascii[codes[1]] = char
               /\ codes[2] \notin {29, 42} /\ codes[2] >= 128
        BY <3>2, CodesOfChar
      <4> HIDE DEF codes, char
      <4>2. \A i \in 1 + 1 .. 2 * 1 : i = 2
        OBVIOUS
      <4> QED
        BY <4>1, <4>2 DEF TellsIt
    <3> HIDE DEF codes, char
    <3>4. CASE codes[1] = 29
      <4>1. pc' = "ctrl" /\ returned' = returned
        BY <2>6, <3>2, <3>4
      <4> QED
        BY <1>0, <2>1, <2>2, <2>5, <2>10, <3>1, <3>4, <4>1, CodeSkipped DEF codes, char
    <3>5. CASE codes[1] = 42
      <4>1. pc' = "shift" /\ returned' = returned
        BY <2>6, <3>2, <3>5
      <4> QED
        BY <1>0, <2>1, <2>2, <2>5, <2>10, <3>1, <3>5, <4>1, CodeSkipped DEF codes, char
    <3>6. CASE /\ codes[1] \in 1 .. 127 \ {29, 42} /\ scancode_to_ascii[codes[1]] = char
               /\ TellsIt(codes, 1)
      <4>1. pc' = "out" /\ returned' = Append(returned, char)
        <5>1. code \notin {29, 42} /\ ~ code >= 128 /\ scancode_to_ascii[code] = char
          BY <3>2, <3>6
        <5> QED
          BY <2>6, <5>1
      <4>2. char \in Returnable
        BY <3>6 DEF Returnable
      <4>3. start[gone + 1] = 1 - 1 /\ 1 \in {1, 2}
        BY <2>10
      <4> QED
        BY <1>0, <2>1, <2>2, <2>5, <3>1, <3>6, <4>1, <4>2, <4>3, CharReturned DEF codes, char
    <3> QED
      BY <3>3, <3>4, <3>5, <3>6
  <2> QED
    BY <2>3, <2>4, <2>8, <2>9, <2>10
<1> QED
  BY <1>1, <1>2

LEMMA LoadKeeps == ASSUME NEW char \in Decoded PROVE IInv /\ Load(char) => IInv'
<1>0. SUFFICES ASSUME IInv, Load(char) PROVE IInv'
  OBVIOUS
<1> DEFINE codes == Scancodes(char)
<1>g. PICK gone \in Nat : \E start : Place(gone, start)
  BY <1>0 DEF IInv
<1>1. PICK start : Place(gone, start)
  BY <1>g
<1>2. /\ typed \in Seq(Decoded) /\ KEY_FIFO \in Seq(0 .. 255) /\ returned \in Seq(Returnable)
      /\ Len(typed) \in Nat /\ Len(KEY_FIFO) \in Nat
      /\ key_fifo_i = Len(KEY_FIFO) \/ (KEY_FIFO = << >> /\ key_fifo_i = -1)
      /\ sim = "running" /\ pc \in {"out", "get_char", "shift", "ctrl"}
  BY <1>0 DEF IInv, DataOK, TypeOK, Load
<1>3. /\ codes \in Seq(0 .. 255) /\ Len(codes) \in {2, 4}
      /\ \A i \in 2 .. Len(codes) : codes[i] \notin {29, 42}
  BY CodesOfChar
<1>4. Len(codes) = 2 \/ Len(codes) = 4
  BY <1>3
<1>5. Len(KEY_FIFO) \in Nat
  BY <1>2
<1>6. CASE ~ HasRoom(codes)
  <2>1. UNCHANGED <<KEY_FIFO, key_fifo_i, typed, returned, pc>> /\ sim' = "asserted"
    BY <1>0, <1>6 DEF Load
  <2> QED
    BY <1>0, <2>1, QueueLeftAlone
<1>7. CASE HasRoom(codes)
  <2>1. /\ KEY_FIFO' = KEY_FIFO \o (IF key_fifo_i < 0 THEN Tail(codes) ELSE codes)
        /\ key_fifo_i' = key_fifo_i + Len(codes) /\ typed' = Append(typed, char)
        /\ UNCHANGED <<sim, pc, returned>>
        /\ key_fifo_i + Len(codes) < QueueLimit
    BY <1>0, <1>7 DEF Load, Queued, HasRoom
  <2> HIDE DEF codes
  <2>2. /\ typed' \in Seq(Decoded) /\ Len(typed') = Len(typed) + 1 /\ typed'[Len(typed) + 1] = char
        /\ \A i \in 1 .. Len(typed) : typed'[i] = typed[i]
    BY <1>2, <2>1, AppendProperties
  <2>3. EmptyReads' = EmptyReads
    BY <2>1 DEF EmptyReads
  <2>4. CASE key_fifo_i = Len(KEY_FIFO)
    <3>1. KEY_FIFO' = KEY_FIFO \o codes
      BY <1>2, <2>1, <2>4
    <3>2. /\ KEY_FIFO' \in Seq(0 .. 255) /\ Len(KEY_FIFO') = Len(KEY_FIFO) + Len(codes)
          /\ \A i \in 1 .. Len(KEY_FIFO) : KEY_FIFO'[i] = KEY_FIFO[i]
      BY <1>2, <1>3, <3>1, ConcatProperties
    <3>3. key_fifo_i' = Len(KEY_FIFO') /\ Len(KEY_FIFO') < QueueLimit /\ key_fifo_i' >= 2
      <4>1. key_fifo_i' = Len(KEY_FIFO')
        BY <2>1, <2>4, <3>2
      <4>2. key_fifo_i' < QueueLimit
        BY <2>1
      <4>3. Len(KEY_FIFO) + Len(codes) >= 2
        BY <1>4, <1>5
      <4> QED
        BY <3>2, <4>1, <4>2, <4>3
    <3>4. DataOK'
      BY <1>2, <2>1, <2>2, <3>2 DEF DataOK
    <3>5. TypeOK'
      <4>1. \A i \in DOMAIN KEY_FIFO' : KEY_FIFO'[i] \in 0 .. 255
        BY <3>2, BytesOfQueue
      <4> QED
        BY <1>2, <2>1, <3>3, <4>1 DEF TypeOK
    <3>6. EmptyReadIsLast'
      BY <3>3 DEF EmptyReadIsLast
    <3>7. Layout(KEY_FIFO, Len(KEY_FIFO), typed, gone, start)
      BY <1>1, <2>4 DEF Place
    <3>8. PICK longer : longer = [n \in 1 .. Len(typed) + 2 |->
                                    IF n <= Len(typed) + 1 THEN start[n] ELSE Len(KEY_FIFO) + Len(codes)]
      OBVIOUS
    <3>9. /\ longer \in [1 .. Len(typed) + 2 -> Int]
          /\ \A n \in 1 .. Len(typed) + 1 : longer[n] = start[n]
          /\ longer[Len(typed) + 2] = Len(KEY_FIFO) + Len(codes)
      <4>1. start \in [1 .. Len(typed) + 1 -> Int]
        BY <3>7 DEF Layout
      <4>2. \A n \in 1 .. Len(typed) + 2 :
              n <= Len(typed) + 1 => n \in 1 .. Len(typed) + 1 /\ start[n] \in Int
        <5>1. \A n \in 1 .. Len(typed) + 2 : n <= Len(typed) + 1 => n \in 1 .. Len(typed) + 1
          BY <1>2
        <5> QED
          BY <4>1, <5>1
      <4>3. Len(KEY_FIFO) + Len(codes) \in Int
        BY <1>2, <1>3
      <4> QED
        BY <1>2, <3>8, <4>2, <4>3
    <3>10. Layout(KEY_FIFO \o codes, Len(KEY_FIFO) + Len(codes), Append(typed, char), gone, longer)
      BY <1>2, <3>7, <3>9, LayoutOfLoad DEF codes
    <3>11. Layout(KEY_FIFO', key_fifo_i', typed', gone, longer)
      BY <2>1, <2>4, <3>1, <3>10
    <3>12. gone <= Len(typed) /\ gone + 1 \in 1 .. Len(typed) + 1 /\ longer[gone + 1] = start[gone + 1]
      BY <1>1, <1>2, <3>9 DEF Place
    <3>13. start[gone + 1] \in Int /\ start[gone + 1] <= Len(KEY_FIFO)
      <4>1. start[gone + 1] \in Int
        BY <3>7, <3>12 DEF Layout
      <4>2. CASE gone = Len(typed)
        BY <1>0, <1>1, <1>2, <2>4, <4>2, AllInQueue
      <4>3. CASE gone < Len(typed)
        <5>1. /\ typed[gone + 1] \in Decoded
              /\ \A i \in 1 .. Len(Scancodes(typed[gone + 1])) :
                   start[gone + 1] + i >= 1 => start[gone + 1] + i <= Len(KEY_FIFO)
          BY <1>0, <1>1, <4>3, NextChar DEF IInv
        <5>2. 1 \in 1 .. Len(Scancodes(typed[gone + 1]))
          BY <5>1, CodesOfChar
        <5> QED
          BY <1>2, <4>1, <5>1, <5>2
      <4> QED
        BY <1>2, <3>12, <4>1, <4>2, <4>3
    <3>14. \A i \in 1 .. Len(KEY_FIFO') :
             i <= longer[gone + 1] =>
               i \in 1 .. Len(KEY_FIFO) /\ i <= start[gone + 1] /\ KEY_FIFO'[i] = KEY_FIFO[i]
      BY <1>2, <1>3, <3>2, <3>12, <3>13
    <3>15. gone < Len(typed) => typed'[gone + 1] = typed[gone + 1] /\ gone < Len(typed')
      BY <1>2, <2>2, <3>12, SMTT(30)
    <3>16. Place(gone, longer)'
      <4>1. gone <= Len(typed')
        BY <1>2, <2>2, <3>12
      <4>2. \A i \in 1 .. Len(KEY_FIFO') : i <= longer[gone + 1] => KEY_FIFO'[i] \notin {29, 42}
        BY <1>1, <3>14 DEF Place
      <4>3. pc' \in {"out", "get_char"} => longer[gone + 1] >= 0
        BY <1>1, <1>2, <2>1, <2>4, <3>12 DEF Place
      <4>4. /\ pc' = "shift" => /\ gone < Len(typed') /\ longer[gone + 1] = -1
                                /\ Scancodes(typed'[gone + 1])[1] = 42
            /\ pc' = "ctrl"  => /\ gone < Len(typed') /\ longer[gone + 1] = -1
                                /\ Scancodes(typed'[gone + 1])[1] = 29
        BY <1>1, <2>1, <3>12, <3>15 DEF Place
      <4>5. ASSUME EmptyReads' = {}
            PROVE  /\ gone = Len(returned') /\ key_fifo_i' >= 0
                   /\ \A i \in 1 .. gone : returned'[i] = typed'[i]
                   /\ \A i \in 1 .. Len(KEY_FIFO') : i <= longer[gone + 1] => KEY_FIFO'[i] >= 128
        <5>1. /\ gone = Len(returned) /\ \A i \in 1 .. gone : returned[i] = typed[i]
              /\ \A i \in 1 .. Len(KEY_FIFO) : i <= start[gone + 1] => KEY_FIFO[i] >= 128
          BY <1>1, <2>3, <4>5 DEF Place
        <5>2. \A i \in 1 .. gone : typed'[i] = typed[i]
          BY <1>2, <2>2, <3>12
        <5>3. \A i \in 1 .. Len(KEY_FIFO') : i <= longer[gone + 1] => KEY_FIFO'[i] >= 128
          BY <3>14, <5>1
        <5>4. gone = Len(returned') /\ \A i \in 1 .. gone : returned'[i] = typed'[i]
          BY <2>1, <5>1, <5>2
        <5>5. key_fifo_i' >= 0
          BY <3>2, <3>3
        <5> QED
          BY <5>3, <5>4, <5>5
      <4> QED
        BY <3>11, <4>1, <4>2, <4>3, <4>4, <4>5 DEF Place
    <3> QED
      BY <3>4, <3>5, <3>6, <3>16 DEF IInv
  <2>5. CASE KEY_FIFO = << >> /\ key_fifo_i = -1
    <3>1. KEY_FIFO' = Tail(codes)
      BY <1>2, <1>3, <2>1, <2>5
    <3>2. /\ KEY_FIFO' \in Seq(0 .. 255) /\ Len(KEY_FIFO') = Len(codes) - 1
          /\ \A i \in 1 .. Len(KEY_FIFO') : KEY_FIFO'[i] = codes[i + 1]
      <4>1. codes # << >>
        <5>1. Len(codes) # 0
          BY <1>4
        <5> QED
          BY <5>1
      <4> QED
        BY <1>3, <3>1, <4>1, HeadTailProperties
    <3>3. key_fifo_i' = Len(KEY_FIFO') /\ Len(KEY_FIFO') < QueueLimit /\ key_fifo_i' >= 1
      BY <1>3, <2>1, <2>5, <3>2
    <3>4. DataOK'
      BY <1>2, <2>1, <2>2, <3>2 DEF DataOK
    <3>5. TypeOK'
      <4>1. \A i \in DOMAIN KEY_FIFO' : KEY_FIFO'[i] \in 0 .. 255
        BY <3>2, BytesOfQueue
      <4> QED
        BY <1>2, <2>1, <3>3, <4>1 DEF TypeOK
    <3>6. EmptyReadIsLast'
      BY <3>3 DEF EmptyReadIsLast
    <3>7. pc \in {"out", "get_char"}
      <4>1. pc \in {"shift", "ctrl"} => gone < Len(typed) /\ start[gone + 1] = -1
        BY <1>1 DEF Place
      <4>2. ~ (gone < Len(typed) /\ start[gone + 1] = -1)
        BY <1>0, <1>1, <2>5, AllInQueue
      <4> QED
        BY <1>2, <4>1, <4>2
    <3>8. EmptyReads # {}
      BY <1>1, <2>5 DEF Place
    <3>9. PICK moved : moved = [n \in 1 .. Len(typed') + 1 |-> key_fifo_i']
      OBVIOUS
    <3>10. /\ moved \in [1 .. Len(typed') + 1 -> Int] /\ moved[Len(typed') + 1] = key_fifo_i'
           /\ Len(typed') \in Nat /\ Len(typed') + 1 .. Len(typed') = {}
      BY <1>2, <2>2, <3>2, <3>3, <3>9
    <3>11. PICK all \in Nat : all = Len(typed')
      BY <3>10
    <3>12. Layout(KEY_FIFO', key_fifo_i', typed', all, moved)
      BY <3>10, <3>11 DEF Layout
    <3>13. \A i \in 1 .. Len(KEY_FIFO') : KEY_FIFO'[i] \notin {29, 42}
      BY <1>3, <3>2
    <3>14. Place(all, moved)'
      BY <2>1, <2>3, <3>3, <3>7, <3>8, <3>10, <3>11, <3>12, <3>13, SMTT(30) DEF Place
    <3> QED
      BY <3>4, <3>5, <3>6, <3>14 DEF IInv
  <2> QED
    BY <1>2, <2>4, <2>5
<1> QED
  BY <1>6, <1>7

LEMMA InvInit == Init => IInv
<1> SUFFICES ASSUME Init PROVE IInv
  OBVIOUS
<1>1. KEY_FIFO = << >> /\ typed = << >> /\ returned = << >> /\ key_fifo_i = 0
  BY DEF Init
<1>2. DataOK
  BY <1>1 DEF DataOK
<1>3. TypeOK
  BY <1>1, LimitAssumption DEF Init, TypeOK
<1>4. EmptyReadIsLast
  BY <1>1 DEF EmptyReadIsLast
<1>5. Place(0, [n \in 1 .. 1 |-> 0])
  <2>1. Layout(KEY_FIFO, key_fifo_i, typed, 0, [n \in 1 .. 1 |-> 0])
    BY <1>1 DEF Layout
  <2> QED
    BY <1>1, <2>1 DEF Init, Place
<1> QED
  BY <1>2, <1>3, <1>4, <1>5 DEF IInv

LEMMA InvNext == IInv /\ [Next]_vars => IInv'
<1> SUFFICES ASSUME IInv, [Next]_vars PROVE IInv'
  OBVIOUS
<1>1. CASE Len(typed) < Len(Chars) /\ \E char \in Chars[Len(typed) + 1] : Load(char)
  <2>1. Len(typed) \in Nat
    BY DEF IInv, DataOK
  <2>2. Chars[Len(typed) + 1] \subseteq Decoded
    <3>1. Len(typed) + 1 \in 1 .. Len(Chars)
      BY <1>1, <2>1, CharsAssumption
    <3> QED
      BY <3>1, CharsAssumption, ElementOfSeq
  <2> QED
    BY <1>1, <2>2, LoadKeeps
<1>2. CASE Call
  <2>1. UNCHANGED <<KEY_FIFO, key_fifo_i, typed, returned, sim>> /\ pc = "out" /\ pc' = "get_char"
    BY <1>2 DEF Call, GoTo
  <2> QED
    BY <2>1, QueueLeftAlone DEF IInv, TypeOK
<1>3. CASE UNCHANGED vars
  <2>1. UNCHANGED <<KEY_FIFO, key_fifo_i, typed, returned, sim, pc>>
    BY <1>3 DEF vars
  <2> QED
    BY <2>1, QueueLeftAlone DEF IInv, TypeOK
<1> QED
  BY <1>1, <1>2, <1>3, GetCharRead, ShiftRead, ControlRead DEF Next

\* Every reachable state satisfies the inductive invariant.
THEOREM Inductive == Spec => []IInv
  BY InvInit, InvNext, PTL DEF Spec

\* The index of the queue is the number of scancodes in it, or -1 after an empty read
\* (load_input_string, KEY_A), for any characters and any length of the queue.
THEOREM TypeCorrect == Spec => []TypeOK
<1>1. IInv => TypeOK
  BY DEF IInv
<1> QED
  BY <1>1, Inductive, PTL

\* get_char returns what load_input_string queued, each character once and in order, up to
\* the first read of an empty queue, which comes after all of them.
THEOREM GetsWhatWasTyped == Spec => []ReturnsTyped
  BY Inductive, ReturnsTypedOfInductive, PTL
=============================================================================
