----------------------------------- MODULE Rc -----------------------------------
(* The in-kernel compiler src/src/rc: parse.rs, a recursive-descent parser that  *)
(* emits code as it reads, over the symbol table of sym.rs and the code buffer   *)
(* of emit.rs.  It keeps no syntax tree: every parse function below takes the    *)
(* compiler's state (a record, one field per static of the source) and returns   *)
(* the state after it has consumed its tokens and emitted its instructions.      *)
(*                                                                               *)
(* Data is abstracted: a source file is its sequence of tokens (lex.rs turns     *)
(* characters into them), an instruction is one unit long, every element is a    *)
(* dword (u8 pointers and string literals are left out).  Backpatching, the      *)
(* stack discipline and every limit of the tables are kept.                      *)
EXTENDS Integers, Sequences, SequencesExt

CONSTANTS
  MAX_SYMBOLS,      \* size of the symbol table (sym.rs)
  MAX_LOOP_DEPTH,   \* size of the loop stack
  MAX_BREAKS,       \* break_patches of one loop context
  MAX_ARMS,         \* break_patches of one match
  MAX_FIXUPS,       \* forward references
  MAX_GLOBAL_INITS, \* static initialisers
  MAX_TYPEDEFS, MAX_STRUCT_DEFS, MAX_STRUCT_FIELDS,
  CODE_MAX,         \* CC_CODE_MAX: the code buffer; the globals follow it
  KernelFuncs       \* names sym_init enters as kernel functions

ASSUME LimitsAssumption ==
  /\ MAX_SYMBOLS \in Nat /\ MAX_LOOP_DEPTH \in Nat /\ MAX_BREAKS \in Nat
  /\ MAX_ARMS \in Nat /\ MAX_FIXUPS \in Nat /\ MAX_GLOBAL_INITS \in Nat
  /\ MAX_TYPEDEFS \in Nat /\ MAX_STRUCT_DEFS \in Nat /\ MAX_STRUCT_FIELDS \in Nat
  /\ CODE_MAX \in Nat

(* Tokens: a name or a number has a value, any other token is its text.          *)
Tok(t) == [t |-> t, v |-> 0]
Id(n) == [t |-> "id", v |-> n]
Num(v) == [t |-> "num", v |-> v]
Dword == 4

(* An instruction: operation, register (or condition), second register, and an   *)
(* immediate, offset or displacement.                                            *)
Ins(op, r, s, v) == [op |-> op, r |-> r, s |-> s, v |-> v]
mov_reg_imm(r, v) == Ins("movi", r, "", v)
mov_reg_reg(r, s) == Ins("mov", r, s, 0)
load_local(r, off) == Ins("load", r, "", off)
store_local(off, r) == Ins("store", r, "", off)
lea(off) == Ins("lea", "eax", "", off)
load_indirect == Ins("ldi", "eax", "eax", 0)
store_indirect == Ins("sti", "ecx", "eax", 0)
push_reg(r) == Ins("push", r, "", 0)
pop_reg(r) == Ins("pop", r, "", 0)
alu(op, r, s) == Ins(op, r, s, 0)
cmp(r, s) == Ins("cmp", r, s, 0)
cmp_eax_imm == Ins("cmp0", "eax", "", 0)
setcc(cc) == Ins("setcc", cc, "", 0)
jcc(cc) == Ins("jcc", cc, "", 0)
jmp(d) == Ins("jmp", "", "", d)
call(d) == Ins("call", "", "", d)
call_abs(f) == Ins("kcall", f, "", 0)
add_esp(v) == Ins("addesp", "", "", v)
ret == Ins("ret", "", "", 0)
prologue == <<push_reg("ebp"), mov_reg_reg("ebp", "esp"), add_esp(0)>>
epilogue == <<mov_reg_reg("esp", "ebp"), pop_reg("ebp"), ret>>

(* What the source's comments call SYM_LOCAL, SYM_PARAM, ... ; at is the offset, *)
(* the address or the value; st is the structure's name or "".                   *)
Symbol(n, kind, at, ptr, st, depth) ==
  [n |-> n, kind |-> kind, at |-> at, ptr |-> ptr, st |-> st, depth |-> depth]

(* The compiler's state when parse_program starts: lex, sym and emit have just   *)
(* been initialised.  odd, low, fn and marks are not in the source: the limits   *)
(* and corner cases the compilation ran into, the lowest offset the function     *)
(* gave out, where the function starts, and where each statement's code starts.  *)
Fresh(toks) ==
  [toks |-> toks, at |-> 1, lexerr |-> FALSE, err |-> FALSE, code |-> <<>>,
   syms |-> SetToSeq({Symbol(f, "kern", 0, FALSE, "", 0) : f \in KernelFuncs}),
   scope |-> 0, structs |-> <<>>, types |-> <<>>, fixups |-> <<>>, inits |-> <<>>,
   loops |-> <<>>, off |-> 0, goff |-> 0, scale |-> 0, est |-> "", eptr |-> FALSE,
   ekind |-> "", eat |-> 0, odd |-> {}, low |-> 0, fn |-> 0,
   marks |-> {}]

peek(c) == IF c.at <= Len(c.toks) THEN c.toks[c.at] ELSE Tok("eof")
tok_is(c, t) == peek(c).t = t
next(c) == [c EXCEPT !.at = @ + 1]
rc_error(c) == [c EXCEPT !.err = TRUE]
(* A token that is not the expected one is reported and skipped all the same.    *)
expect(c, t) == next([c EXCEPT !.lexerr = @ \/ ~tok_is(c, t)])
skip_if(c, t) == IF tok_is(c, t) THEN next(c) ELSE c
Odd(c, what, cond) == IF cond THEN [c EXCEPT !.odd = @ \cup {what}] ELSE c
More(c, close) == ~tok_is(c, close) /\ ~tok_is(c, "eof") /\ ~c.err

pos(c) == Len(c.code)
emit(c, is) == [c EXCEPT !.code = @ \o is]
(* patch_dword(at, pos() - (at + 4)): the jump emitted at "at" comes here.       *)
patch_here(c, at) == [c EXCEPT !.code[at + 1].v = pos(c) - (at + 1)]
(* jmp_rel and the call of a known function: back to a position already emitted. *)
jmp_back(c, target) == emit(c, <<jmp(target - (pos(c) + 1))>>)

sym_add(c, n, kind, at, ptr, st) ==
  IF Len(c.syms) >= MAX_SYMBOLS
  THEN Odd(c, "symbols", TRUE)
  ELSE [c EXCEPT !.syms = Append(@, Symbol(n, kind, at, ptr, st, c.scope))]
lookup(c, n) ==
  LET hits == {i \in DOMAIN c.syms : c.syms[i].n = n}
  IN  IF hits = {} THEN 0 ELSE CHOOSE i \in hits : \A j \in hits : j <= i
enter_scope(c) == [c EXCEPT !.scope = @ + 1]
LeaveScopeOnly(c) == [c EXCEPT !.scope = @ - 1]
leave_scope(c) ==
  [c EXCEPT !.syms = SelectSeq(@, LAMBDA s : s.depth < c.scope),
            !.scope = IF @ > 0 THEN @ - 1 ELSE 0]
struct_def_lookup(c, n) ==
  LET hits == {i \in DOMAIN c.structs : c.structs[i].n = n}
  IN  IF hits = {} THEN 0 ELSE CHOOSE i \in hits : \A j \in hits : i <= j
struct_field_lookup(c, st, f) ==
  LET def == struct_def_lookup(c, st)
      hits == IF def = 0 THEN {}
              ELSE {i \in DOMAIN c.structs[def].fields : c.structs[def].fields[i].n = f}
  IN  IF hits = {} THEN 0 ELSE CHOOSE i \in hits : \A j \in hits : i <= j

add_fixup(c, n, at) ==
  IF Len(c.fixups) < MAX_FIXUPS
  THEN [c EXCEPT !.fixups = Append(@, [n |-> n, at |-> at])]
  ELSE rc_error(c)

(* A loop deeper than the stack is not entered, and its end pops the context of  *)
(* the loop around it.                                                           *)
loop_push(c, target) ==
  IF Len(c.loops) < MAX_LOOP_DEPTH
  THEN [c EXCEPT !.loops = Append(@, [cont |-> target, breaks |-> <<>>])]
  ELSE Odd(c, "loops", TRUE)
RECURSIVE PatchAll(_, _)
PatchAll(c, ps) == IF ps = <<>> THEN c ELSE PatchAll(patch_here(c, Head(ps)), Tail(ps))
loop_pop(c) ==
  IF c.loops = <<>> THEN c
  ELSE PatchAll([c EXCEPT !.loops = Front(@)], Last(c.loops).breaks)
loop_add_break(c, at) ==
  IF c.loops = <<>> THEN rc_error(c)
  ELSE IF Len(Last(c.loops).breaks) < MAX_BREAKS
  THEN [c EXCEPT !.loops[Len(c.loops)].breaks = Append(@, at)]
  ELSE Odd(c, "breaks", TRUE)

(* parse_type: a type is a pointer or not, names a structure or not, and may be  *)
(* an array of arr elements (arrays count as pointers).                          *)
Ty(ptr, st, arr) == [ptr |-> ptr, st |-> st, arr |-> arr]
NoType == Ty(FALSE, "", -1)
find_typedef(c, n) ==
  LET hits == {i \in DOMAIN c.types : c.types[i].n = n}
  IN  IF hits = {} THEN 0 ELSE CHOOSE i \in hits : \A j \in hits : i <= j
RECURSIVE parse_type(_)
parse_type(c) ==
  CASE tok_is(c, "*") \/ tok_is(c, "&") ->
         LET in == parse_type(skip_if(next(c), "mut"))
         IN  [c |-> in.c, ty |-> [in.ty EXCEPT !.ptr = TRUE]]
    [] tok_is(c, "[") ->
         LET in == parse_type(next(c))
             c1 == expect(in.c, ";")
         IN  IF ~tok_is(c1, "num") THEN [c |-> rc_error(c1), ty |-> NoType]
             ELSE [c |-> expect(next(c1), "]"), ty |-> Ty(TRUE, in.ty.st, peek(c1).v)]
    [] tok_is(c, "i32") -> [c |-> next(c), ty |-> Ty(FALSE, "", 0)]
    [] tok_is(c, "id") /\ find_typedef(c, peek(c).v) # 0 ->
         [c |-> next(c), ty |-> Ty(c.types[find_typedef(c, peek(c).v)].ptr, "", 0)]
    [] tok_is(c, "id") /\ find_typedef(c, peek(c).v) = 0
                       /\ struct_def_lookup(c, peek(c).v) # 0 ->
         [c |-> next(c), ty |-> Ty(FALSE, peek(c).v, 0)]
    [] OTHER -> [c |-> c, ty |-> NoType]
IsType(r) == r.ty.arr >= 0

ScaleOf(ptr) == IF ptr THEN Dword ELSE 0

(* emit_load_sym leaves in EXPR_PTR_SCALE and EXPR_STRUCT_* what it has loaded.  *)
emit_load_sym(c, s) ==
  LET c1 == [c EXCEPT !.scale = IF s.kind = "const" THEN 0 ELSE ScaleOf(s.ptr),
                      !.est = s.st, !.eptr = s.ptr, !.ekind = s.kind, !.eat = s.at]
  IN  emit(c1, CASE s.kind = "const" -> <<mov_reg_imm("eax", s.at)>>
                 [] s.kind \in {"local", "param"} -> <<load_local("eax", s.at)>>
                 [] s.kind = "global" -> <<Ins("loadg", "eax", "", s.at)>>
                 [] OTHER -> <<mov_reg_imm("eax", s.at)>>)
emit_store_sym(c, s) ==
  emit(c, CASE s.kind \in {"local", "param"} -> <<store_local(s.at, "eax")>>
            [] s.kind = "global" -> <<Ins("storeg", "eax", "", s.at)>>
            [] OTHER -> <<>>)
address_of(kind, at) ==
  CASE kind \in {"local", "param"} -> <<lea(at)>>
    [] kind = "global" -> <<mov_reg_imm("eax", at)>>
    [] OTHER -> <<>>

(* Arguments are pushed left to right; the callee expects the first on top.      *)
LeaveArgsReversed(argc) == <<>>
emit_reverse_args(argc) ==
  [i \in 1..(argc \div 2) |-> Ins("swap", "", "", <<(i - 1) * Dword, (argc - i) * Dword>>)]
KeepArgs(argc) == <<>>
drop_args(argc) == IF argc > 0 THEN <<add_esp(argc * Dword)>> ELSE <<>>

(* The parse functions call each other all around: Parse(what, c) is parse_what  *)
(* of c, the one operator through which the recursion between them goes.         *)
RECURSIVE Parse(_, _), parse_level(_, _), parse_levels(_, _, _), parse_rest(_, _),
          parse_binops(_), parse_postfix_ops(_), parse_args(_, _)

emit_func_call(c, n, i) ==
  LET a == IF tok_is(c, ")") THEN [c |-> c, argc |-> 0] ELSE parse_args(c, 1)
      c1 == expect(emit(a.c, emit_reverse_args(a.argc)), ")")
      kind == IF i = 0 THEN "none" ELSE c.syms[i].kind
      c2 == CASE kind = "kern" -> emit(c1, <<call_abs(n)>>)
              [] kind = "func" -> emit(c1, <<call(c.syms[i].at - (pos(c1) + 1))>>)
              [] OTHER -> add_fixup(emit(c1, <<call(0)>>), n, pos(c1))
  IN  [emit(c2, drop_args(a.argc)) EXCEPT !.scale = 0, !.est = ""]
parse_args(c, n) ==
  LET c1 == emit(Parse("expr", c), <<push_reg("eax")>>)
  IN  IF tok_is(c1, ",") /\ ~c1.err THEN parse_args(next(c1), n + 1)
      ELSE [c |-> c1, argc |-> n]

(* The precedence chain parse_or, parse_and_expr, ..., parse_mul, parse_unary is *)
(* one operator here, by the level of the operators it consumes: the operand,    *)
(* then the operators of each level from the tightest down to the one asked for. *)
Level(t) == CASE t = "||" -> 1 [] t = "&&" -> 2 [] t = "|" -> 3 [] t = "^" -> 4
              [] t = "&" -> 5 [] t \in {"==", "!="} -> 6
              [] t \in {"<", ">", "<=", ">="} -> 7 [] t \in {"<<", ">>"} -> 8
              [] t \in {"+", "-"} -> 9 [] t \in {"*", "/", "%"} -> 10 [] OTHER -> 0
UNARY == 11

(* The right operand of || or &&: the left one is in eax, already tested.        *)
truth == <<cmp_eax_imm, setcc("!=")>>
logical_or(c, n) ==
  LET skip == pos(c) + 1
      c1 == emit(parse_level(emit(next(c), <<cmp_eax_imm, jcc("!=")>>), n), truth)
      end == pos(c1)
      c2 == patch_here(emit(c1, <<jmp(0)>>), skip)
  IN  patch_here(emit(c2, <<mov_reg_imm("eax", 1)>>), end)
logical_and(c, n) ==
  LET skip == pos(c) + 1
  IN  patch_here(emit(parse_level(emit(next(c), <<cmp_eax_imm, jcc("==")>>), n), truth), skip)

(* Any other operator: the left operand waits on the stack for the right one.    *)
operate(op) ==
  CASE op = "|" -> <<alu("or", "eax", "ecx")>>
    [] op = "^" -> <<alu("xor", "eax", "ecx")>>
    [] op = "&" -> <<alu("and", "eax", "ecx")>>
    [] op \in {"==", "!=", "<", ">", "<=", ">="} -> <<cmp("eax", "ecx"), setcc(op)>>
    [] op = "<<" -> <<alu("shl", "eax", "ecx")>>
    [] op = ">>" -> <<alu("shr", "eax", "ecx")>>
    [] op = "+" -> <<alu("add", "eax", "ecx")>>
    [] op = "-" -> <<alu("sub", "eax", "ecx")>>
    [] op = "*" -> <<alu("imul", "eax", "ecx")>>
    [] op = "/" -> <<alu("idiv", "eax", "ecx")>>
    [] op = "%" -> <<alu("idiv", "eax", "ecx"), mov_reg_reg("eax", "edx")>>
(* Only + and - look at pointers: the right operand of a pointer is scaled, and  *)
(* the sum is a pointer still.                                                   *)
rescale(scale) == <<mov_reg_imm("edx", scale), alu("imul", "eax", "edx")>>
binary(c, op, n) ==
  LET ptr == Level(op) = 9 /\ c.scale # 0
      c0 == IF Level(op) = 9 THEN [c EXCEPT !.scale = 0] ELSE c
      c1 == parse_level(emit(next(c0), <<push_reg("eax")>>), n)
      c2 == emit(c1, (IF ptr THEN rescale(c.scale) ELSE <<>>)
                     \o <<mov_reg_reg("ecx", "eax"), pop_reg("eax")>> \o operate(op))
  IN  IF ptr THEN [c2 EXCEPT !.scale = c.scale] ELSE c2
one_op(c, n) ==
  CASE tok_is(c, "||") -> logical_or(c, n)
    [] tok_is(c, "&&") -> logical_and(c, n)
    [] OTHER -> binary(c, peek(c).t, n)

parse_rest(c, n) ==
  IF c.err \/ Level(peek(c).t) # n THEN c ELSE parse_rest(one_op(c, n + 1), n)
parse_levels(c, k, n) ==
  IF c.err \/ k < n THEN c ELSE parse_levels(parse_rest(c, k), k - 1, n)
parse_level(c, n) == parse_levels(Parse("unary", c), UNARY - 1, n)
(* After an expression that began with a name or a *: one flat loop, in which    *)
(* the right operand of ||, && and | takes in operators of its own level.        *)
operand_level(n) == IF n <= 3 THEN n ELSE n + 1
parse_binops(c) ==
  LET n == Level(peek(c).t)
  IN  IF c.err \/ n = 0 THEN c ELSE parse_binops(one_op(c, operand_level(n)))

(* Field access: the structure's address is in eax.                              *)
field_address(c, i) == IF i = 1 THEN c
                       ELSE emit(c, <<mov_reg_imm("ecx", (i - 1) * Dword), alu("add", "eax", "ecx")>>)
assign_through(c) ==
  emit(Parse("expr", emit(next(c), <<push_reg("eax")>>)), <<pop_reg("ecx"), store_indirect>>)
load_field(c, st, i) ==
  [emit(c, <<load_indirect>>) EXCEPT
     !.scale = ScaleOf(c.structs[struct_def_lookup(c, st)].fields[i].ptr)]

parse_primary(c) ==
  CASE tok_is(c, "num") ->
         [next(emit(c, <<mov_reg_imm("eax", peek(c).v)>>)) EXCEPT !.scale = 0, !.est = ""]
    [] tok_is(c, "true") \/ tok_is(c, "false") ->
         [next(emit(c, <<mov_reg_imm("eax", IF tok_is(c, "true") THEN 1 ELSE 0)>>))
            EXCEPT !.scale = 0, !.est = ""]
    [] tok_is(c, "id") ->
         LET n == peek(c).v
             i == lookup(c, n)
             c1 == next(c)
         IN  IF tok_is(c1, "(") THEN emit_func_call(next(c1), n, i)
             ELSE IF i # 0 THEN emit_load_sym(c1, c.syms[i])
             ELSE rc_error(c1)
    [] tok_is(c, "(") -> expect(Parse("expr", next(c)), ")")
    [] OTHER -> rc_error(c)

(* parse_postfix is parse_primary followed by this loop.                         *)
parse_postfix_ops(c) ==
  IF c.err THEN c
  ELSE CASE tok_is(c, "[") ->
              LET c1 == expect(Parse("expr", emit(next(c), <<push_reg("eax")>>)), "]")
                  scaled == IF c.scale > 1
                            THEN <<mov_reg_imm("ecx", c.scale), alu("imul", "eax", "ecx")>>
                            ELSE <<>>
              IN  parse_postfix_ops(emit(c1, scaled \o
                    <<mov_reg_reg("ecx", "eax"), pop_reg("eax"), alu("add", "eax", "ecx"),
                      load_indirect>>))
         [] (tok_is(c, "->") /\ c.est # "" /\ c.eptr)
            \/ (tok_is(c, ".") /\ c.est # "" /\ ~c.eptr) ->
              LET c1 == next(c)
                  i == IF tok_is(c1, "id") THEN struct_field_lookup(c, c.est, peek(c1).v) ELSE 0
                  c2 == IF c.eptr THEN next(c1) ELSE emit(next(c1), address_of(c.ekind, c.eat))
              IN  IF i = 0 THEN rc_error(c1)
                  ELSE parse_postfix_ops([load_field(field_address(c2, i), c.est, i)
                                            EXCEPT !.est = ""])
         [] tok_is(c, "as") ->
              LET r == parse_type(next(c))
              IN  parse_postfix_ops([r.c EXCEPT !.scale = ScaleOf(r.ty.ptr)])
         [] OTHER -> c

parse_unary(c) ==
  CASE c.err -> c
    [] tok_is(c, "-") /\ ~c.err -> emit(Parse("unary", next(c)), <<alu("neg", "eax", "")>>)
    [] tok_is(c, "!") /\ ~c.err -> emit(Parse("unary", next(c)), <<alu("not", "eax", "")>>)
    [] tok_is(c, "*") /\ ~c.err ->
         [emit(Parse("unary", next(c)), <<load_indirect>>) EXCEPT !.scale = 0]
    [] tok_is(c, "&") /\ ~c.err ->
         LET c1 == skip_if(next(c), "mut")
             i == IF tok_is(c1, "id") THEN lookup(c1, peek(c1).v) ELSE 0
         IN  IF i = 0 THEN rc_error(c1)
             ELSE emit(next(c1), address_of(c.syms[i].kind, c.syms[i].at))
    [] OTHER -> parse_postfix_ops(parse_primary(c))

(* An expression that begins with a declared name, which is symbol i.            *)
OP_ASSIGN == [t \in {"+=", "-=", "*=", "/="} |->
                CASE t = "+=" -> "+" [] t = "-=" -> "-" [] t = "*=" -> "*" [] t = "/=" -> "/"]
parse_member(c, s) ==
  LET c1 == next(c)
      i == IF tok_is(c1, "id") THEN struct_field_lookup(c, s.st, peek(c1).v) ELSE 0
      c2 == IF tok_is(c, ".") THEN emit(next(c1), address_of(s.kind, s.at))
            ELSE emit_load_sym(next(c1), s)
      c3 == field_address(c2, i)
  IN  IF i = 0 THEN rc_error(c1)
      ELSE IF tok_is(c3, "=") THEN assign_through(c3)
      ELSE parse_binops(load_field(c3, s.st, i))
parse_op_assign(c, s) ==
  LET op == OP_ASSIGN[peek(c).t]
      c1 == Parse("expr", emit(emit_load_sym(next(c), s), <<push_reg("eax")>>))
      scaled == IF s.ptr /\ op \in {"+", "-"}
                THEN <<mov_reg_imm("edx", Dword), alu("imul", "ecx", "edx")>> ELSE <<>>
  IN  emit_store_sym(emit(c1, <<mov_reg_reg("ecx", "eax"), pop_reg("eax")>>
                              \o scaled \o operate(op)), s)
(* An array is marked is_ptr, so its base is loaded and not computed.            *)
parse_index(c, s) ==
  LET base == IF s.ptr THEN emit_load_sym(c, s)
              ELSE emit(c, <<lea(s.at)>>)
      c1 == expect(Parse("expr", next(emit(base, <<push_reg("eax")>>))), "]")
      c2 == emit(c1, <<mov_reg_imm("ecx", Dword), alu("imul", "eax", "ecx"),
                       mov_reg_reg("ecx", "eax"), pop_reg("eax"), alu("add", "eax", "ecx")>>)
  IN  IF tok_is(c2, "=") THEN assign_through(c2)
      ELSE parse_binops(emit(c2, <<load_indirect>>))
parse_ident(c, n, s, i) ==
  CASE tok_is(c, "=") -> emit_store_sym(Parse("expr", next(c)), s)
    [] (tok_is(c, ".") \/ tok_is(c, "->")) /\ s.st # "" -> parse_member(c, s)
    [] peek(c).t \in DOMAIN OP_ASSIGN -> parse_op_assign(c, s)
    [] tok_is(c, "[") -> parse_index(c, s)
    [] tok_is(c, "(") -> parse_binops(emit_func_call(next(c), n, i))
    [] OTHER -> parse_binops(emit_load_sym(c, s))

(* An expression that begins with a *: store through a pointer, or load.         *)
parse_deref(c) ==
  LET i == IF tok_is(c, "id") THEN lookup(c, peek(c).v) ELSE 0
      c1 == IF i = 0 THEN Parse("unary", c) ELSE emit_load_sym(next(c), c.syms[i])
  IN  IF tok_is(c1, "=") THEN assign_through(c1)
      ELSE parse_binops([emit(c1, <<load_indirect>>) EXCEPT !.scale = 0])

parse_expr(c) ==
  CASE c.err -> c
    [] tok_is(c, "*") /\ ~c.err -> parse_deref(next(c))
    [] tok_is(c, "id") /\ ~c.err ->
         LET n == peek(c).v
             i == lookup(c, n)
             c1 == next(c)
         IN  IF i # 0 THEN parse_ident(c1, n, c.syms[i], i)
             ELSE IF tok_is(c1, "(") THEN parse_binops(emit_func_call(next(c1), n, 0))
             ELSE rc_error(c1)
    [] OTHER -> parse_level(c, 1)

(* ---- Statements ---- *)
(* enum [Name] { A [= v], B, ... }: constants numbered from the last value.      *)
RECURSIVE parse_enumerators(_, _)
parse_enumerators(c, value) ==
  LET c1 == next(c)
      given == tok_is(c1, "=")
      c2 == IF given THEN next(c1) ELSE c1
      v == IF given THEN peek(c2).v ELSE value
      c3 == sym_add(IF given THEN next(c2) ELSE c2, peek(c).v, "const", v, FALSE, "")
  IN  IF ~More(c, "}") THEN expect(c, "}")
      ELSE IF ~tok_is(c, "id") \/ (given /\ ~tok_is(c2, "num")) THEN rc_error(c)
      ELSE parse_enumerators(skip_if(c3, ","), v + 1)
parse_enum(c) == parse_enumerators(expect(skip_if(next(c), "id"), "{"), 0)

RECURSIVE parse_stmts(_), parse_arms(_, _, _, _), parse_elements(_, _, _)

(* LOCAL_OFFSET only grows downwards within a function, except across a match.   *)
new_local(c, bytes) == [c EXCEPT !.off = @ - bytes,
                                 !.low = IF c.off - bytes < @ THEN c.off - bytes ELSE @]
Mentions(c, c1, n) == \E k \in c.at..(c1.at - 1) : k <= Len(c.toks) /\ c.toks[k].t = "id" /\ c.toks[k].v = n
(* An initialiser that uses an outer variable of the name being declared.        *)
OuterUse(c, c1, n, before) == Odd(c1, "own name", lookup(before, n) # 0 /\ Mentions(c, c1, n))

parse_elements(c, base, i) ==
  IF ~More(c, "]") THEN expect(c, "]")
  ELSE parse_elements(skip_if(emit(Parse("expr", c), <<store_local(base + i * Dword, "eax")>>), ","),
                      base, i + 1)
(* The name is entered before its initialiser is read.                           *)
local_size(c, ty) ==
  LET def == struct_def_lookup(c, ty.st)
  IN  IF ty.arr > 0 THEN ty.arr * Dword
      ELSE IF ~ty.ptr /\ def # 0 THEN Len(c.structs[def].fields) * Dword
      ELSE Dword
declare_local(c, n, ty) ==
  sym_add(c, n, "local", c.off, ty.ptr, IF ty.arr > 0 THEN "" ELSE ty.st)
array_init(c) ==
  CASE ~tok_is(c, "=") -> c
    [] tok_is(c, "=") /\ tok_is(next(c), "[") -> parse_elements(next(next(c)), c.off, 0)
    [] OTHER -> rc_error(c)
local_init(c, n, ty, before) ==
  CASE ty.arr > 0 -> array_init(Odd(c, "array", TRUE))
    [] ty.arr = 0 /\ tok_is(c, "=") /\ (ty.st = "" \/ ty.ptr) ->
         emit(OuterUse(c, Parse("expr", next(c)), n, before), <<store_local(c.off, "eax")>>)
    [] OTHER -> c
parse_let(c) ==
  LET c1 == skip_if(next(c), "mut")
      n == peek(c1).v
      r == parse_type(expect(next(c1), ":"))
  IN  IF ~tok_is(c1, "id") \/ ~IsType(r) THEN rc_error(c1)
      ELSE expect(local_init(declare_local(new_local(r.c, local_size(r.c, r.ty)), n, r.ty),
                             n, r.ty, r.c), ";")

(* Each arm tests the saved value and jumps to the next arm or past the match;   *)
(* jump is the skip of the arm before, -1 when there is none.                    *)
parse_arms(c, saved, jump, ends) ==
  LET c1 == IF jump >= 0 THEN patch_here(c, jump) ELSE c
      default == tok_is(c1, "_")
      c2 == IF default THEN next(c1)
            ELSE emit(Parse("expr", c1), <<load_local("ecx", saved), cmp("ecx", "eax"), jcc("!=")>>)
      c3 == expect(c2, "=>")
      c4 == skip_if(IF tok_is(c3, "{") THEN Parse("block", c3) ELSE Parse("stmt", c3), ",")
      full == Len(ends) >= MAX_ARMS
      c5 == IF full THEN Odd(c4, "arms", TRUE) ELSE emit(c4, <<jmp(0)>>)
  IN  IF ~More(c, "}")
      THEN PatchAll(IF jump >= 0 THEN patch_here(expect(c, "}"), jump) ELSE expect(c, "}"), ends)
      ELSE parse_arms(c5, saved, IF default THEN -1 ELSE pos(c2) - 1,
                      IF full THEN ends ELSE Append(ends, pos(c4)))
parse_match(c) ==
  LET c1 == new_local(Parse("expr", next(c)), Dword)
      c2 == expect(emit(c1, <<store_local(c1.off, "eax")>>), "{")
  IN  [parse_arms(c2, c1.off, -1, <<>>) EXCEPT !.off = c.off]

parse_loop(c) ==
  LET start == pos(c)
  IN  loop_pop(jmp_back(Parse("block", loop_push(next(c), start)), start))
parse_while(c) ==
  LET start == pos(c)
      c1 == emit(Parse("expr", next(c)), <<cmp_eax_imm, jcc("==")>>)
      exit == pos(c1) - 1
  IN  loop_pop(patch_here(jmp_back(Parse("block", loop_push(c1, start)), start), exit))

(* for i in a..b: condition, then the increment, then the body; continue goes to *)
(* the increment.                                                                *)
ContinueToCondition(cond, update) == cond
continue_target(cond, update) == update
parse_for(c) ==
  LET c1 == enter_scope(next(c))
      n == peek(c1).v
      c2 == new_local(Parse("expr", expect(next(c1), "in")), Dword)
      iter == c2.off
      c3 == expect(emit(sym_add(c2, n, "local", iter, FALSE, ""), <<store_local(iter, "eax")>>), "..")
      c4 == new_local(OuterUse(c3, Parse("expr", c3), n, c2), Dword)
      cond == pos(c4) + 1
      c5 == emit(c4, <<store_local(c4.off, "eax"), load_local("eax", iter), push_reg("eax"),
                       load_local("eax", c4.off), mov_reg_reg("ecx", "eax"), pop_reg("eax"),
                       cmp("eax", "ecx"), jcc(">="), jmp(0)>>)
      update == pos(c5)
      c6 == emit(c5, <<load_local("eax", iter), mov_reg_imm("ecx", 1), alu("add", "eax", "ecx"),
                       store_local(iter, "eax")>>)
      c7 == patch_here(jmp_back(c6, cond), update - 1)
      c8 == Parse("block", loop_push(c7, continue_target(cond, update)))
      c9 == patch_here(jmp_back(c8, update), update - 2)
  IN  IF ~tok_is(c1, "id") THEN rc_error(c1) ELSE leave_scope(loop_pop(c9))

parse_if(c) ==
  LET c1 == emit(Parse("expr", next(c)), <<cmp_eax_imm, jcc("==")>>)
      false == pos(c1) - 1
      c2 == Parse("block", c1)
      end == pos(c2)
      c3 == patch_here(emit(next(c2), <<jmp(0)>>), false)
  IN  IF tok_is(c2, "else")
      THEN patch_here(IF tok_is(c3, "if") THEN Parse("if", c3) ELSE Parse("block", c3), end)
      ELSE patch_here(c2, false)

parse_return(c) ==
  LET c1 == next(c)
  IN  expect(emit(IF tok_is(c1, ";") THEN c1 ELSE Parse("expr", c1), epilogue), ";")
parse_break(c) == expect(loop_add_break(emit(next(c), <<jmp(0)>>), pos(c)), ";")
parse_continue(c) ==
  expect(IF c.loops = <<>> THEN rc_error(next(c)) ELSE jmp_back(next(c), Last(c.loops).cont), ";")

parse_stmt(c0) ==
  LET c == [c0 EXCEPT !.marks = @ \cup {<<pos(c0), c0.fn>>}]
  IN  CASE c.err -> c0
        [] tok_is(c, "{") /\ ~c.err -> Parse("block", c)
        [] tok_is(c, "return") /\ ~c.err -> parse_return(c)
        [] tok_is(c, "if") /\ ~c.err -> Parse("if", c)
        [] tok_is(c, "while") /\ ~c.err -> parse_while(c)
        [] tok_is(c, "loop") /\ ~c.err -> parse_loop(c)
        [] tok_is(c, "for") /\ ~c.err -> parse_for(c)
        [] tok_is(c, "match") /\ ~c.err -> parse_match(c)
        [] tok_is(c, "let") /\ ~c.err -> parse_let(c)
        [] tok_is(c, "break") /\ ~c.err -> parse_break(c)
        [] tok_is(c, "continue") /\ ~c.err -> parse_continue(c)
        [] tok_is(c, "unsafe") /\ ~c.err -> Parse("block", next(c))
        [] tok_is(c, "enum") /\ ~c.err -> parse_enum(c)
        [] OTHER -> expect(Parse("expr", c), ";")
parse_stmts(c) == IF More(c, "}") THEN parse_stmts(Parse("stmt", c)) ELSE c
parse_block(c) ==
  IF c.err THEN c ELSE expect(leave_scope(parse_stmts(enter_scope(expect(c, "{")))), "}")

Parse(what, c) ==
  CASE what = "expr" -> parse_expr(c)
    [] what = "unary" -> parse_unary(c)
    [] what = "stmt" -> parse_stmt(c)
    [] what = "if" -> parse_if(c)
    [] what = "block" -> parse_block(c)

(* ---- Top level ---- *)
global_data_base == CODE_MAX

RECURSIVE parse_params(_, _)
parse_params(c, n) ==
  LET r == parse_type(expect(next(c), ":"))
      c1 == sym_add(r.c, peek(c).v, "param", 2 * Dword + n * Dword, r.ty.ptr, r.ty.st)
  IN  IF ~More(c, ")") THEN expect(c, ")")
      ELSE IF ~tok_is(c, "id") \/ ~IsType(r) THEN rc_error(c)
      ELSE parse_params(skip_if(c1, ","), n + 1)

(* The frame is sized when the body has been parsed, from the offset it ends at. *)
frame_size(off) == ((-off + 15) \div 16) * 16
begin_function(c) == [emit(c, prologue) EXCEPT !.off = 0, !.low = 0, !.fn = pos(c)]
end_function(c, at) ==
  LET size == frame_size(c.off)
  IN  leave_scope(Odd([emit(c, <<mov_reg_imm("eax", 0)>> \o epilogue) EXCEPT !.code[at].v = -size],
                      "frame", size < -c.low))
parse_body(c) == end_function(Parse("block", c), pos(c))
parse_function(c) ==
  LET c1 == next(c)
      c2 == sym_add(next(c1), peek(c1).v, "func", pos(c), FALSE, "")
      c3 == parse_params(enter_scope(expect(c2, "(")), 0)
  IN  IF ~tok_is(c1, "id") THEN rc_error(c1)
      ELSE parse_body(begin_function(IF tok_is(c3, "->") THEN parse_type(next(c3)).c ELSE c3))

(* A static takes a dword of the area after the code, whatever its type.         *)
parse_global_static(c) ==
  LET c1 == skip_if(next(c), "mut")
      r == parse_type(expect(next(c1), ":"))
      addr == global_data_base + r.c.goff
      c2 == sym_add([r.c EXCEPT !.goff = @ + Dword], peek(c1).v, "global", addr, r.ty.ptr, r.ty.st)
      c3 == next(c2)
      neg == tok_is(c3, "-")
      c4 == skip_if(c3, "-")
      c5 == IF Len(c4.inits) < MAX_GLOBAL_INITS
            THEN [next(c4) EXCEPT !.inits = Append(@, <<addr, IF neg THEN -peek(c4).v ELSE peek(c4).v>>)]
            ELSE Odd(next(c4), "inits", TRUE)
      wide == r.ty.arr > 0 \/ (r.ty.st # "" /\ ~r.ty.ptr)
      done == IF ~tok_is(c2, "=") THEN c2 ELSE IF tok_is(c4, "num") THEN c5 ELSE rc_error(c4)
  IN  IF ~tok_is(c1, "id") \/ ~IsType(r) THEN rc_error(c1)
      ELSE expect(Odd(done, "wide static", wide), ";")
parse_global_const(c) ==
  LET c1 == next(c)
      r == parse_type(expect(next(c1), ":"))
      c2 == expect(r.c, "=")
      c3 == skip_if(c2, "-")
      v == IF tok_is(c2, "-") THEN -peek(c3).v ELSE peek(c3).v
  IN  IF ~tok_is(c1, "id") \/ ~IsType(r) \/ ~tok_is(c3, "num") THEN rc_error(c1)
      ELSE expect(sym_add(next(c3), peek(c1).v, "const", v, r.ty.ptr, ""), ";")
parse_type_alias(c) ==
  LET c1 == next(c)
      r == parse_type(expect(next(c1), "="))
  IN  IF ~tok_is(c1, "id") \/ ~IsType(r) THEN rc_error(c1)
      ELSE IF Len(c.types) >= MAX_TYPEDEFS THEN expect(Odd(r.c, "types", TRUE), ";")
      ELSE expect([r.c EXCEPT !.types = Append(@, [n |-> peek(c1).v, ptr |-> r.ty.ptr])], ";")

RECURSIVE parse_fields(_, _)
parse_fields(c, def) ==
  LET r == parse_type(expect(next(c), ":"))
      field == [n |-> peek(c).v, ptr |-> r.ty.ptr]
  IN  IF ~More(c, "}") THEN expect(c, "}")
      ELSE IF ~tok_is(c, "id") \/ ~IsType(r) THEN rc_error(c)
      ELSE IF Len(c.structs[def].fields) >= MAX_STRUCT_FIELDS THEN rc_error(Odd(c, "fields", TRUE))
      ELSE parse_fields(skip_if([r.c EXCEPT !.structs[def].fields = Append(@, field)], ","), def)
parse_struct_def(c) ==
  LET c1 == next(c)
      c2 == [next(c1) EXCEPT !.structs = Append(@, [n |-> peek(c1).v, fields |-> <<>>])]
  IN  IF ~tok_is(c1, "id") THEN rc_error(c1)
      ELSE IF Len(c.structs) >= MAX_STRUCT_DEFS THEN Odd(next(c1), "structs", TRUE)
      ELSE parse_fields(expect(c2, "{"), Len(c2.structs))

RECURSIVE parse_decls(_)
parse_decls(c) ==
  IF tok_is(c, "eof") \/ c.err THEN c
  ELSE parse_decls(CASE tok_is(c, "fn") -> parse_function(c)
                     [] tok_is(c, "struct") -> parse_struct_def(c)
                     [] tok_is(c, "enum") -> parse_enum(c)
                     [] tok_is(c, "static") -> parse_global_static(c)
                     [] tok_is(c, "const") -> parse_global_const(c)
                     [] tok_is(c, "type") -> parse_type_alias(c)
                     [] tok_is(c, "unsafe") -> next(c)
                     [] OTHER -> rc_error(c))

RECURSIVE resolve_fixups(_, _)
resolve_fixups(c, fs) ==
  LET i == lookup(c, Head(fs).n)
  IN  IF fs = <<>> \/ c.err THEN c
      ELSE IF i = 0 THEN rc_error(c)
      ELSE resolve_fixups([c EXCEPT !.code[Head(fs).at + 1].v = c.syms[i].at - (Head(fs).at + 1)],
                          Tail(fs))

(* Code starts with a jump to the initialisers and the call of main, emitted     *)
(* last.  A failed compilation leaves err set.                                   *)
init_stores(inits) ==
  FlattenSeq([i \in DOMAIN inits |->
    <<mov_reg_imm("eax", inits[i][2]), Ins("storeg", "eax", "", inits[i][1])>>])
call_main(c) ==
  LET main == lookup(c, "main")
  IN  IF c.err \/ main = 0 THEN rc_error(c)
      ELSE emit(c, <<call(c.syms[main].at - (pos(c) + 1)), ret>>)
link(c) ==
  IF c.err \/ c.lexerr THEN rc_error(c)
  ELSE call_main(emit(patch_here(resolve_fixups(c, c.fixups), 0), init_stores(c.inits)))
parse_program(toks) == link(parse_decls(emit(Fresh(toks), <<jmp(0)>>)))
================================================================================
