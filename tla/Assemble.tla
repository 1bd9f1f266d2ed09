------------------------------ MODULE Assemble ------------------------------
(***************************************************************************)
(* The assembler (src/assemble.c): from the tokens of a source file to its *)
(* statements, and from those to an object. Macros are expanded by the     *)
(* tokenizer, when they are used and when other macros mention them. A     *)
(* token is                                                                *)
(*   kind   its asm_token_kind_t, "NONE" at the end of the file            *)
(*   image  the name of a symbol, the bytes of a string                    *)
(*   n      the number or the instruction                                  *)
(*   arg    of an instruction, the kind of its argument                    *)
(* "ERROR" and "ASSERT" stand for the exits of the tool. Statements are    *)
(* the bytecodes of asm_parse_bytecode, told apart by what they do to the  *)
(* object:                                                                 *)
(*   bytes    BINST, BINSTHEX, BHEX, BHEX2, BSTRING and BDB                *)
(*   word     BINSTHEX2, an instruction with a word as argument            *)
(*   label    BINSTLABEL, an instruction with the address of a label       *)
(*   rel      BINSTRELLABEL, one with the distance to a label              *)
(*   set, global, extern, align   the declarations and ALIGN               *)
(* Numbers keep the layout of the machine, words of two bytes with the low *)
(* one first; BYTE stands for 256. Positions count from 0.                 *)
(***************************************************************************)
EXTENDS Integers, Sequences

LOCAL INSTANCE SequencesExt

CONSTANTS
  BYTE, ASM_TOKENS_MACRO_MAX, ASM_MACROS_MAX,
  GLOBAL_MAX_COUNT, EXTERN_MAX_COUNT, RELOC_MAX_COUNT,
  INTERN_RELOC_MAX_COUNT, SYMBOL_MAX_COUNT,
  ASM_ALLOWED_INST_AS_ARG   \* -a inst-as-arg: an opcode may be the argument of an instruction

ASSUME ByteAssumption == BYTE \in Nat /\ BYTE > 1
ASSUME AllowedAssumption == ASM_ALLOWED_INST_AS_ARG \in BOOLEAN
ASSUME MaxAssumption ==
  {GLOBAL_MAX_COUNT, EXTERN_MAX_COUNT, RELOC_MAX_COUNT, INTERN_RELOC_MAX_COUNT, SYMBOL_MAX_COUNT} \subseteq Nat

NoToken == [kind |-> "NONE", image |-> << >>, n |-> 0, arg |-> "none"]
Exit(kind) == [NoToken EXCEPT !.kind = kind]

\* macros: name and tokens; current: the macro being expanded, 0 if none, at its token index.
asm_tokenizer_init(text) == [buffer |-> text, macros |-> << >>, current |-> 0, index |-> 1]

-----------------------------------------------------------------------------
InMacro(tok) == tok.current # 0 /\ tok.index <= Len(tok.macros[tok.current].tokens)

MacrosNamed(tok, token) == {j \in DOMAIN tok.macros : token.kind = "SYM" /\ tok.macros[j].name = token.image}

FirstOf(indices) == CHOOSE j \in indices : \A k \in indices : j <= k

RECURSIVE asm_token_next(_)
RECURSIVE MacroBody(_, _)

\* The tokens of macro j, up to the closing brace; what follows it. Macros defined within
\* it come behind it in the list.
MacroBody(tok, j) ==
  LET next == asm_token_next(tok)
  IN  CASE next.token.kind = "MACROC" -> asm_token_next(next.tok)
        [] next.token.kind \in {"ERROR", "ASSERT"} -> next
        [] next.token.kind \notin {"MACROC", "ERROR", "ASSERT"} /\ Len(next.tok.macros[j].tokens) + 1 >= ASM_TOKENS_MACRO_MAX ->
             [token |-> Exit("ASSERT"), tok |-> tok]
        [] OTHER -> MacroBody([next.tok EXCEPT !.macros[j].tokens = Append(@, next.token)], j)

MacroDefinition(tok) ==
  LET name == asm_token_next(tok)
      j    == Len(name.tok.macros) + 1
  IN  CASE name.token.kind = "ASSERT" -> name
        [] name.token.kind \notin {"SYM", "ASSERT"} -> [token |-> Exit("ERROR"), tok |-> tok]
        [] name.token.kind = "SYM" /\ j >= ASM_MACROS_MAX -> [token |-> Exit("ASSERT"), tok |-> tok]
        [] OTHER -> MacroBody([name.tok EXCEPT !.macros = Append(@, [name |-> name.token.image, tokens |-> << >>])], j)

\* The next token, and the tokenizer behind it.
asm_token_next(tok) ==
  IF InMacro(tok)
  THEN [token |-> tok.macros[tok.current].tokens[tok.index], tok |-> [tok EXCEPT !.index = @ + 1]]
  ELSE IF tok.buffer = << >> THEN [token |-> NoToken, tok |-> tok]
  ELSE LET token  == Head(tok.buffer)
           behind == [tok EXCEPT !.buffer = Tail(@), !.current = 0]
       IN  CASE token.kind = "MACROO" -> MacroDefinition(behind)
             [] MacrosNamed(tok, token) # {} ->
                  asm_token_next([behind EXCEPT !.current = FirstOf(MacrosNamed(tok, token)), !.index = 1])
             [] OTHER -> [token |-> token, tok |-> behind]

-----------------------------------------------------------------------------
(* asm_parse_bytecode *)

Statement(kind, image, bytes) == [kind |-> kind, image |-> image, bytes |-> bytes]
Invalid == Statement("invalid", << >>, << >>)
NoStatement == Statement("none", << >>, << >>)

TwoBytes(n) == << n % BYTE, (n \div BYTE) % BYTE >>

\* PEEKAR and PUSHAR take an even byte.
TakesByte(inst, byte) == inst.arg = "8bits" \/ (inst.arg = "even" /\ byte % 2 = 0)

\* A number written with two digits or with bits, or an opcode where that is allowed.
IsByte(arg) == arg.kind \in {"HEX", "BIN"} \/ (arg.kind = "INST" /\ ASM_ALLOWED_INST_AS_ARG)

\* arg is the token behind the instruction, name the one behind that.
WithArgument(inst, arg, name) ==
  CASE IsByte(arg) /\ TakesByte(inst, arg.n) -> Statement("bytes", << >>, << inst.n, arg.n >>)
    [] arg.kind = "STRING" /\ Len(arg.image) = 1 /\ TakesByte(inst, arg.image[1]) ->
         Statement("bytes", << >>, << inst.n >> \o arg.image)
    [] inst.arg = "16bits" /\ arg.kind = "HEX2" -> Statement("word", << >>, << inst.n >> \o TwoBytes(arg.n))
    [] inst.arg = "16bits" /\ arg.kind = "STRING" /\ Len(arg.image) = 2 -> Statement("word", << >>, << inst.n >> \o arg.image)
    [] inst.arg \in {"16bits", "label"} /\ arg.kind = "SYM" -> Statement("label", arg.image, << inst.n >>)
    [] inst.arg = "rel" /\ arg.kind = "REL" /\ name.kind = "SYM" -> Statement("rel", name.image, << inst.n >>)
    [] OTHER -> Invalid

asm_parse_bytecode(tok) ==
  LET first  == asm_token_next(tok)
      second == asm_token_next(first.tok)
      third  == asm_token_next(second.tok)
      token  == first.token
  IN  CASE token.kind = "NONE"   -> [bc |-> NoStatement, tok |-> first.tok]
        [] token.kind = "INST" /\ token.arg = "none" -> [bc |-> Statement("bytes", << >>, << token.n >>), tok |-> first.tok]
        [] token.kind = "INST" /\ token.arg # "none" ->
             [bc |-> WithArgument(token, second.token, third.token), tok |-> IF token.arg = "rel" THEN third.tok ELSE second.tok]
        [] token.kind = "SYM" /\ second.token.kind = "COLON" -> [bc |-> Statement("set", token.image, << >>), tok |-> second.tok]
        [] token.kind \in {"GLOBAL", "EXTERN"} /\ second.token.kind = "SYM" ->
             [bc |-> Statement(IF token.kind = "GLOBAL" THEN "global" ELSE "extern", second.token.image, << >>), tok |-> second.tok]
        [] token.kind = "ALIGN"  -> [bc |-> Statement("align", << >>, << >>), tok |-> first.tok]
        [] token.kind = "DB" /\ second.token.kind = "INT" ->
             [bc |-> Statement("bytes", << >>, [i \in 1 .. second.token.n |-> 0]), tok |-> second.tok]
        [] token.kind \in {"HEX", "BIN"} -> [bc |-> Statement("bytes", << >>, << token.n >>), tok |-> first.tok]
        [] token.kind = "HEX2"   -> [bc |-> Statement("bytes", << >>, TwoBytes(token.n)), tok |-> first.tok]
        [] token.kind = "STRING" -> [bc |-> Statement("bytes", << >>, token.image), tok |-> first.tok]
        [] OTHER -> [bc |-> Invalid, tok |-> first.tok]

RECURSIVE Statements(_, _)
Statements(tok, list) ==
  LET next == asm_parse_bytecode(tok)
  IN  CASE next.bc = NoStatement -> [statements |-> list, status |-> "ok"]
        [] next.bc = Invalid -> [statements |-> << >>, status |-> "error"]
        [] OTHER -> Statements(next.tok, Append(list, next.bc))

Parsed(text) == Statements(asm_tokenizer_init(text), << >>)

-----------------------------------------------------------------------------
(* compile *)

Word == BYTE * BYTE
Unset == Word - 1      \* pos of a symbol that is only used or declared, 0xFFFF
NOP == 0

WordBytes(n) == << n % BYTE, (n \div BYTE) % BYTE >>

\* A word written into code at a position, as two bytes.
Patched(code, reloc) ==
  [code EXCEPT ![reloc.where + 1] = reloc.what % BYTE,
               ![reloc.where + 2] = (reloc.what \div BYTE) % BYTE]

PatchedAll(code, relocs) == FoldLeft(Patched, code, relocs)

Indexed(symbols, image) == {i \in DOMAIN symbols : symbols[i].image = image}

\* Every array of an object, or of what is linked, is shorter than its limit: an
\* assertion stops the tool before.
WithinLimits(obj) ==
  /\ Len(obj.globals) < GLOBAL_MAX_COUNT
  /\ Len(obj.externs) < EXTERN_MAX_COUNT
  /\ Len(obj.relocs) < RELOC_MAX_COUNT
  /\ Len(obj.symbols) < SYMBOL_MAX_COUNT
  /\ \A i \in DOMAIN obj.symbols :
       Len(obj.symbols[i].relocs) < INTERN_RELOC_MAX_COUNT /\ Len(obj.symbols[i].relrelocs) < INTERN_RELOC_MAX_COUNT

EmptyObject ==
  [code |-> << >>, relocs |-> << >>, globals |-> << >>, externs |-> << >>, symbols |-> << >>,
   status |-> "ok"]

-----------------------------------------------------------------------------
(* symbols *)

obj_add_symbol(obj, image, pos) ==
  LET known == Indexed(obj.symbols, image)
      i     == CHOOSE i \in known : TRUE
  IN  CASE known = {} ->
             [obj EXCEPT !.symbols =
                Append(@, [image |-> image, pos |-> pos, relocs |-> << >>, relrelocs |-> << >>])]
        [] known # {} /\ obj.symbols[i].pos # Unset -> [obj EXCEPT !.status = "error"]
        [] OTHER -> [obj EXCEPT !.symbols[i].pos = pos]

SymbolOf(obj, image) == CHOOSE i \in Indexed(obj.symbols, image) : TRUE

Known(obj, image) ==
  IF Indexed(obj.symbols, image) = {} THEN obj_add_symbol(obj, image, Unset) ELSE obj

obj_add_symbol_reloc(obj, image) ==
  LET o == Known(obj, image)
  IN  [o EXCEPT !.symbols[SymbolOf(o, image)].relocs = Append(@, Len(o.code))]

obj_add_symbol_relreloc(obj, image) ==
  LET o == Known(obj, image)
  IN  [o EXCEPT !.symbols[SymbolOf(o, image)].relrelocs = Append(@, Len(o.code))]

-----------------------------------------------------------------------------
(* statements *)

Emit(obj, bytes) == [obj EXCEPT !.code = @ \o bytes]

\* The argument of an instruction is a word and lies at an even position.
PaddedForWord(obj) == IF Len(obj.code) % 2 = 0 THEN Emit(obj, << NOP >>) ELSE obj

Declared(obj, bc, list) ==
  LET o == obj_add_symbol(obj, bc.image, Unset)
  IN  IF o.status = "ok" THEN [o EXCEPT ![list] = Append(@, SymbolOf(o, bc.image))] ELSE o

obj_compile_bytecode(obj, bc) ==
  CASE bc.kind = "bytes"  -> Emit(obj, bc.bytes)
    [] bc.kind = "word"   -> Emit(PaddedForWord(obj), bc.bytes)
    [] bc.kind = "label"  -> Emit(obj_add_symbol_reloc(Emit(PaddedForWord(obj), bc.bytes), bc.image), <<0, 0>>)
    [] bc.kind = "rel"    -> Emit(obj_add_symbol_relreloc(Emit(PaddedForWord(obj), bc.bytes), bc.image), <<0, 0>>)
    [] bc.kind = "set"    -> obj_add_symbol(obj, bc.image, Len(obj.code))
    [] bc.kind = "global" -> Declared(obj, bc, "globals")
    [] bc.kind = "extern" -> Declared(obj, bc, "externs")
    [] bc.kind = "align"  -> IF Len(obj.code) % 2 = 1 THEN Emit(obj, <<0>>) ELSE obj

Compiled(source) ==
  FoldLeft(LAMBDA obj, bc : IF obj.status = "ok" THEN obj_compile_bytecode(obj, bc) ELSE obj,
           EmptyObject, source)

-----------------------------------------------------------------------------
(* obj_check: the references of a finished object *)

Locals(obj) == {i \in DOMAIN obj.symbols : \A j \in DOMAIN obj.externs : obj.externs[j] # i}

FromPlace(where, s) == (s.pos - where) % Word

\* Words that hold the distance to their label, those that hold the address of a
\* label of the file, and those that wait for the linker.
Distances(obj) ==
  FlattenSeq([i \in DOMAIN obj.symbols |-> LET s == obj.symbols[i] IN
    [j \in DOMAIN s.relrelocs |-> [where |-> s.relrelocs[j], what |-> FromPlace(s.relrelocs[j], s)]]])

AddressesOf(obj, indices) ==
  FlattenSeq([i \in DOMAIN obj.symbols |-> LET s == obj.symbols[i] IN
    IF i \in indices THEN [j \in DOMAIN s.relocs |-> [where |-> s.relocs[j], what |-> s.pos]] ELSE << >>])

Addresses(obj) == AddressesOf(obj, Locals(obj))
Waiting(obj)   == AddressesOf(obj, DOMAIN obj.symbols \ Locals(obj))

\* Without debug information an object keeps the symbols that other files see; of a
\* global it forgets where the distances to it are.
Stripped(obj) ==
  [obj EXCEPT
     !.globals = [i \in DOMAIN @ |-> i],
     !.externs = [i \in DOMAIN @ |-> Len(obj.globals) + i],
     !.symbols = [i \in DOMAIN obj.globals |-> [obj.symbols[obj.globals[i]] EXCEPT !.relrelocs = << >>]] \o
                 [i \in DOMAIN obj.externs |-> obj.symbols[obj.externs[i]]]]

AssertsHold(obj) ==
  /\ WithinLimits([obj EXCEPT !.relocs = Addresses(obj)])
  /\ \A j \in DOMAIN obj.externs :
       LET s == obj.symbols[obj.externs[j]] IN s.pos = Unset /\ s.relrelocs = << >>
  /\ \A i \in DOMAIN obj.symbols : \A j \in DOMAIN obj.symbols[i].relocs :
       obj.symbols[i].relocs[j] % 2 = 0

obj_check(obj, debug_info) ==
  CASE obj.status # "ok" -> obj
    [] ~AssertsHold(obj) -> [obj EXCEPT !.status = "aborted"]
    [] AssertsHold(obj) /\ \E i \in Locals(obj) : obj.symbols[i].pos = Unset -> [obj EXCEPT !.status = "error"]
    [] OTHER ->
         LET checked ==
               [obj EXCEPT !.code   = PatchedAll(@, Waiting(obj) \o Distances(obj) \o Addresses(obj)),
                           !.relocs = Addresses(obj)]
         IN  IF debug_info THEN checked ELSE Stripped(checked)

assemble(text, debug_info) ==
  LET parsed == Parsed(text)
  IN  IF parsed.status = "ok" THEN obj_check(Compiled(parsed.statements), debug_info)
                              ELSE [EmptyObject EXCEPT !.status = parsed.status]

=============================================================================
