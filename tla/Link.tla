-------------------------------- MODULE Link --------------------------------
(***************************************************************************)
(* The linker (src/link.c): objects are put one behind the other, the      *)
(* positions they mention move with them, and at the end every name that   *)
(* an object declared EXTERN becomes an address in the same file or, left  *)
(* to the loader, in the library. What is linked is an executable, a       *)
(* library or bare code, with or without debug information (the names of   *)
(* the labels that only one file sees).                                    *)
(***************************************************************************)
EXTENDS ObjectFiles

LOCAL INSTANCE SequencesExt

\* Any code of an instruction that is not NOP will do.
JMP == 1

\* so: the symbols the library defines; {} without a library.
EmptyExe ==
  [code |-> << >>, relocs |-> << >>, globals |-> << >>, externs |-> << >>, symbols |-> << >>,
   dynamics |-> << >>, so |-> {}, so_count |-> 0, obj_count |-> 0, status |-> "ok"]

Asserted(state) ==
  IF state.status = "ok" /\ ~(WithinLimits(state) /\ \A i \in DOMAIN state.dynamics : Len(state.dynamics[i]) < INTERN_RELOC_MAX_COUNT)
  THEN [state EXCEPT !.status = "aborted"]
  ELSE state

-----------------------------------------------------------------------------
(* exe_link_obj *)

ShiftedAll(positions, offset) == [j \in DOMAIN positions |-> positions[j] + offset]

\* Moved by offset, the way exe_add_symbol_offset copies a symbol.
Moved(s, offset) ==
  [image  |-> s.image,
   pos    |-> IF s.pos = Unset THEN Unset ELSE s.pos + offset,
   relocs |-> ShiftedAll(s.relocs, offset),
   relrelocs |-> ShiftedAll(s.relrelocs, offset)]

exe_find_symbol(state, image) == Indexed(state.symbols, image)

LinkExtern(state, s) ==
  LET known == exe_find_symbol(state, s.image)
      i     == CHOOSE i \in known : TRUE
  IN  IF known = {}
      THEN [state EXCEPT !.externs = Append(@, Len(state.symbols) + 1), !.symbols = Append(@, s)]
      ELSE [state EXCEPT !.externs = Append(@, i), !.symbols[i].relocs = @ \o s.relocs]

LinkGlobal(state, s, debug_info) ==
  LET known == exe_find_symbol(state, s.image)
      i     == CHOOSE i \in known : TRUE
  IN  CASE known = {} ->
             [state EXCEPT !.globals = Append(@, Len(state.symbols) + 1), !.symbols = Append(@, s)]
        [] known # {} /\ state.symbols[i].pos # Unset -> [state EXCEPT !.status = "error"]
        [] OTHER ->
             [state EXCEPT !.globals = Append(@, i),
                           !.symbols[i] = [@ EXCEPT !.pos = s.pos, !.relocs = @ \o s.relocs,
                                                   !.relrelocs = IF debug_info THEN @ \o s.relrelocs ELSE @]]

KeptName(state, s) == s

\* A label of one file gets the number of the file in front of its name.
OwnName(state, s) == [s EXCEPT !.image = << ToString(state.obj_count) >> \o @]

LinkLocal(state, s) == [state EXCEPT !.symbols = Append(@, OwnName(state, s))]

LinkAll(Link(_, _), state, obj, indices, offset) ==
  FoldLeft(LAMBDA st, i : IF st.status = "ok" THEN Asserted(Link(st, Moved(obj.symbols[i], offset))) ELSE st,
           state, indices)

\* An object starts at an even position.
Unpadded(code) == code

PaddedToWord(code) == IF Len(code) % 2 = 1 THEN Append(code, 0) ELSE code

OnlySeenInFile(obj) ==
  SelectSeq([i \in DOMAIN obj.symbols |-> i],
            LAMBDA i : \A j \in DOMAIN (obj.globals \o obj.externs) : (obj.globals \o obj.externs)[j] # i)

exe_link_obj(state, obj, debug_info) ==
  LET offset == Len(state.code)
      placed == [state EXCEPT
                   !.code   = @ \o PaddedToWord(obj.code),
                   !.relocs = @ \o [j \in DOMAIN obj.relocs |->
                                     [where |-> obj.relocs[j].where + offset, what |-> obj.relocs[j].what + offset]]]
      externs == LinkAll(LinkExtern, Asserted(placed), obj, obj.externs, offset)
      globals == LinkAll(LAMBDA st, s : LinkGlobal(st, s, debug_info), externs, obj, obj.globals, offset)
      locals  == IF debug_info THEN LinkAll(LinkLocal, globals, obj, OnlySeenInFile(obj), offset) ELSE globals
  IN  [locals EXCEPT !.obj_count = @ + 1]

\* NOP and JMP to _start, at the start of an executable.
Boilerplate ==
  [EmptyObject EXCEPT
     !.code    = << NOP, JMP, 0, 0 >>,
     !.externs = << 1 >>,
     !.symbols = << [image |-> << "_start" >>, pos |-> Unset, relocs |-> << 2 >>, relrelocs |-> << >>] >>]

exe_link_boilerplate(state, debug_info) == exe_link_obj(state, Boilerplate, debug_info)

\* DYNAMIC_MAX_COUNT leaves room for one library.
exe_link_so(state, so) ==
  IF state.so_count = 0
  THEN [state EXCEPT !.so = {so.symbols[so.globals[i]] : i \in DOMAIN so.globals}, !.so_count = 1]
  ELSE [state EXCEPT !.status = "aborted"]

-----------------------------------------------------------------------------
(* exe_state_check_exe *)

LibraryBeforeObjects(state) ==
  {j \in DOMAIN state.externs : \E name \in state.so : name.image = state.symbols[state.externs[j]].image}

\* externs of the state that the library defines and no object does.
FromLibrary(state) ==
  {j \in DOMAIN state.externs :
     LET s == state.symbols[state.externs[j]]
     IN  s.pos = Unset /\ \E name \in state.so : name.image = s.image}

EntriesFor(s, pos) == [k \in DOMAIN s.relocs |-> [where |-> s.relocs[k], what |-> pos]]

LibraryEntries(state) ==
  FlattenSeq([j \in DOMAIN state.externs |->
    IF j \in FromLibrary(state)
    THEN LET s == state.symbols[state.externs[j]]
         IN  EntriesFor(s, (CHOOSE name \in state.so : name.image = s.image).pos)
    ELSE << >>])

GlobalsNamed(state, image) == {i \in DOMAIN state.globals : state.symbols[state.globals[i]].image = image}

Undefined(state) ==
  {j \in DOMAIN state.externs \ FromLibrary(state) :
     LET s == state.symbols[state.externs[j]]
     IN  \A i \in GlobalsNamed(state, s.image) : state.symbols[state.globals[i]].pos = Unset}

StaticEntries(state) ==
  FlattenSeq([j \in DOMAIN state.externs |->
    LET s == state.symbols[state.externs[j]]
    IN  IF s.pos = Unset THEN << >> ELSE EntriesFor(s, s.pos)])

exe_state_check_exe(state) ==
  CASE state.status # "ok" -> state
    [] state.status = "ok" /\ Undefined(state) # {} -> [state EXCEPT !.status = "error"]
    [] OTHER ->
         LET linked == [state EXCEPT !.relocs   = @ \o StaticEntries(state),
                                     !.dynamics = IF FromLibrary(state) = {} THEN << >>
                                                  ELSE << LibraryEntries(state) >>]
         IN  [Asserted(linked) EXCEPT !.code = PatchedAll(@, linked.relocs)]

=============================================================================
