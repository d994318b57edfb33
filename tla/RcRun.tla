--------------------------------- MODULE RcRun ---------------------------------
(* What a program compiled by rc does when it runs, against what its source      *)
(* means.  Rc's parse_program translates; this module has the driver (mod.rs:    *)
(* rc_compile, run_program), the 32-bit processor the code is emitted for        *)
(* (external), and a reference semantics of the source language: a syntax tree,  *)
(* its tokens with as few parentheses as the grammar allows, and an evaluator    *)
(* that knows nothing of registers, stacks or jumps.                             *)
EXTENDS Rc, Bitwise

CONSTANTS
  BITS,      \* width of a machine word
  Programs,  \* the source files: syntax trees
  Fuel       \* loop iterations and calls after which a source counts as endless

ASSUME MachineAssumption ==
  /\ BITS \in Nat \ {0} /\ Fuel \in Nat
  /\ CODE_MAX % Dword = 0 /\ CODE_MAX < 2 ^ BITS

VARIABLES
  prog,    \* the source file in hand
  image,   \* what the output file holds: code, and the compiler's remarks on it
  status,  \* "source", "compiled", "rejected", "running", "halted", "fault", "refused"
  want,    \* what the source means (history)
  pc, rg, fl, mem, out   \* the processor, and what the program has printed

vars == <<prog, image, status, want, pc, rg, fl, mem, out>>

WORD == 2 ^ BITS
Word(v) == v % WORD
Signed(v) == IF v >= WORD \div 2 THEN v - WORD ELSE v
Abs(v) == IF v < 0 THEN -v ELSE v
(* idiv truncates towards zero; the remainder has the sign of the dividend.      *)
Quot(a, b) == LET q == Abs(a) \div Abs(b) IN IF (a < 0) = (b < 0) THEN q ELSE -q
Bool(b) == IF b THEN 1 ELSE 0
Compare(op, a, b) ==
  CASE op = "==" -> a = b [] op = "!=" -> a # b
    [] op = "<" -> Signed(a) < Signed(b) [] op = ">" -> Signed(a) > Signed(b)
    [] op = "<=" -> Signed(a) <= Signed(b) [] op = ">=" -> Signed(a) >= Signed(b)
Shifted(n) == IF n % 32 >= BITS THEN WORD ELSE 2 ^ (n % 32)

--------------------------------------------------------------------------------
(* The source language.  Trees are records tagged k; Source writes a program as  *)
(* tokens.                                                                       *)
TypeToks(ty) == CASE ty = "i32" -> <<Tok("i32")>>
                  [] ty = "*i32" -> <<Tok("*"), Tok("mut"), Tok("i32")>>
                  [] ty = "S" -> <<Id("S")>>
                  [] ty = "*S" -> <<Tok("*"), Tok("mut"), Id("S")>>
                  [] ty = "T" -> <<Id("T")>>
T(ts) == [i \in DOMAIN ts |-> Tok(ts[i])]
RECURSIVE ExprToks(_, _), ArgToks(_), StmtToks(_), BodyToks(_), ArmToks(_)
(* The tokens of e as an operand at precedence level n.                          *)
ExprToks(e, n) ==
  CASE e.k = "num" -> <<Num(e.v)>>
    [] e.k = "var" -> <<Id(e.n)>>
    [] e.k = "neg" -> <<Tok("-")>> \o ExprToks(e.e, UNARY)
    [] e.k = "not" -> <<Tok("!")>> \o ExprToks(e.e, UNARY)
    [] e.k = "addr" -> <<Tok("&"), Id(e.n)>>
    [] e.k = "deref" -> <<Tok("*")>> \o ExprToks(e.e, UNARY)
    [] e.k = "index" -> <<Id(e.n), Tok("[")>> \o ExprToks(e.e, 1) \o <<Tok("]")>>
    [] e.k = "field" -> <<Id(e.n), Tok("."), Id(e.f)>>
    [] e.k = "arrow" -> <<Id(e.n), Tok("->"), Id(e.f)>>
    [] e.k = "cast" -> <<Tok("(")>> \o ExprToks(e.e, 1) \o T(<<")", "as", "i32">>)
    [] e.k = "call" -> <<Id(e.n), Tok("(")>> \o ArgToks(e.args) \o <<Tok(")")>>
    [] e.k = "bin" ->
         LET l == Level(e.op)
             ts == ExprToks(e.l, l) \o <<Tok(e.op)>> \o ExprToks(e.r, l + 1)
         IN  IF l < n THEN <<Tok("(")>> \o ts \o <<Tok(")")>> ELSE ts
ArgToks(es) == IF es = <<>> THEN <<>>
               ELSE ExprToks(Head(es), 1)
                    \o (IF Len(es) = 1 THEN <<>> ELSE <<Tok(",")>> \o ArgToks(Tail(es)))
BlockToks(b) == <<Tok("{")>> \o BodyToks(b) \o <<Tok("}")>>
BodyToks(b) == IF b = <<>> THEN <<>> ELSE StmtToks(Head(b)) \o BodyToks(Tail(b))
ArmToks(as) ==
  IF as = <<>> THEN <<>>
  ELSE <<Num(Head(as).v), Tok("=>")>> \o BlockToks(Head(as).b) \o <<Tok(",")>> \o ArmToks(Tail(as))
StmtToks(s) ==
  CASE s.k = "let" -> <<Tok("let"), Tok("mut"), Id(s.n), Tok(":")>> \o TypeToks(s.ty)
                      \o <<Tok("=")>> \o ExprToks(s.e, 1) \o <<Tok(";")>>
    [] s.k = "decl" -> <<Tok("let"), Id(s.n), Tok(":")>> \o TypeToks(s.ty) \o <<Tok(";")>>
    [] s.k = "set" -> ExprToks(s.to, UNARY) \o <<Tok(s.op)>> \o ExprToks(s.e, 1) \o <<Tok(";")>>
    [] s.k = "expr" -> ExprToks(s.e, 1) \o <<Tok(";")>>
    [] s.k = "return" -> <<Tok("return")>> \o ExprToks(s.e, 1) \o <<Tok(";")>>
    [] s.k \in {"break", "continue"} -> T(<<s.k, ";">>)
    [] s.k = "block" -> BlockToks(s.b)
    [] s.k = "unsafe" -> <<Tok("unsafe")>> \o BlockToks(s.b)
    [] s.k = "if" -> <<Tok("if")>> \o ExprToks(s.e, 1) \o BlockToks(s.b)
                     \o (IF s.c = <<>> THEN <<>>
                         ELSE <<Tok("else")>> \o (IF Len(s.c) = 1 /\ s.c[1].k = "if"
                                                  THEN StmtToks(s.c[1]) ELSE BlockToks(s.c)))
    [] s.k = "while" -> <<Tok("while")>> \o ExprToks(s.e, 1) \o BlockToks(s.b)
    [] s.k = "loop" -> <<Tok("loop")>> \o BlockToks(s.b)
    [] s.k = "for" -> <<Tok("for"), Id(s.n), Tok("in")>> \o ExprToks(s.e, 1) \o <<Tok("..")>>
                      \o ExprToks(s.to, 1) \o BlockToks(s.b)
    [] s.k = "match" -> <<Tok("match")>> \o ExprToks(s.e, 1) \o <<Tok("{")>> \o ArmToks(s.arms)
                        \o T(<<"_", "=>">>) \o BlockToks(s.c) \o <<Tok("}")>>
DeclToks(d) ==
  CASE d.k = "struct" -> <<Tok("struct"), Id(d.n), Tok("{")>>
                         \o FlattenSeq([i \in DOMAIN d.fields |->
                              <<Id(d.fields[i]), Tok(":"), Tok("i32"), Tok(",")>>]) \o <<Tok("}")>>
    [] d.k = "static" -> T(<<"static", "mut">>) \o <<Id(d.n)>> \o T(<<":", "i32", "=">>)
                         \o (IF d.v < 0 THEN <<Tok("-"), Num(-d.v)>> ELSE <<Num(d.v)>>) \o <<Tok(";")>>
    [] d.k = "const" -> <<Tok("const"), Id(d.n)>> \o T(<<":", "i32", "=">>)
                        \o (IF d.v < 0 THEN <<Tok("-"), Num(-d.v)>> ELSE <<Num(d.v)>>) \o <<Tok(";")>>
    [] d.k = "enum" -> <<Tok("enum"), Id("E"), Tok("{"), Id(d.n), Tok("="), Num(d.v), Tok(","),
                         Id(d.next), Tok("}")>>
    [] d.k = "type" -> <<Tok("type"), Id(d.n)>> \o T(<<"=", "*", "mut", "i32", ";">>)
    [] d.k = "fn" -> <<Tok("fn"), Id(d.n), Tok("(")>>
                     \o FlattenSeq([i \in DOMAIN d.params |->
                          <<Id(d.params[i].n), Tok(":")>> \o TypeToks(d.params[i].ty) \o <<Tok(",")>>])
                     \o T(<<")", "->", "i32">>) \o BlockToks(d.b)
Source(p) == FlattenSeq([i \in DOMAIN p |-> DeclToks(p[i])])

(* The meaning of a tree.  A state has the variables in scope (env: name and     *)
(* location, the last one found first), the value of every location, what was    *)
(* printed, the fuel left, and how control leaves the statement.                 *)
Loc(s, n) == s.env[CHOOSE i \in DOMAIN s.env :
                     s.env[i].n = n /\ \A j \in DOMAIN s.env : s.env[j].n = n => j <= i].l
Bind(s, n, vs) == [s EXCEPT !.env = Append(@, [n |-> n, l |-> Len(s.store) + 1]), !.store = @ \o vs]
Apply(op, a, b) ==
  CASE op = "|" -> a | b [] op = "^" -> a ^^ b [] op = "&" -> a & b
    [] op = "+" -> Word(a + b) [] op = "-" -> Word(a - b) [] op = "*" -> Word(a * b)
    [] op = "/" -> Word(Quot(Signed(a), Signed(b)))
    [] op = "%" -> Word(Signed(a) - Signed(b) * Quot(Signed(a), Signed(b)))
    [] op = "<<" -> Word(a * Shifted(b)) [] op = ">>" -> a \div Shifted(b)
    [] OTHER -> Bool(Compare(op, a, b))
FieldAt(p, f) == LET d == CHOOSE i \in DOMAIN p : p[i].k = "struct"
                 IN  CHOOSE i \in DOMAIN p[d].fields : p[d].fields[i] = f
Function(p, n) == p[CHOOSE i \in DOMAIN p : p[i].k = "fn" /\ p[i].n = n]
Burn(s) == IF s.fuel = 0 THEN [s EXCEPT !.flow = "endless"] ELSE [s EXCEPT !.fuel = @ - 1]

RECURSIVE Ev(_, _, _), EvArgs(_, _, _), Place(_, _, _), Call(_, _, _, _), Ex(_, _, _),
          ExBody(_, _, _), Repeat(_, _, _), Count(_, _, _, _)
(* The location an expression denotes.                                           *)
Place(p, e, s) ==
  CASE e.k = "var" -> [v |-> Loc(s, e.n), s |-> s]
    [] e.k = "deref" -> Ev(p, e.e, s)
    [] e.k = "index" -> LET i == Ev(p, e.e, s) IN [v |-> s.store[Loc(s, e.n)] + i.v, s |-> i.s]
    [] e.k = "field" -> [v |-> Loc(s, e.n) + FieldAt(p, e.f) - 1, s |-> s]
    [] e.k = "arrow" -> [v |-> s.store[Loc(s, e.n)] + FieldAt(p, e.f) - 1, s |-> s]
Ev(p, e, s) ==
  IF s.flow # "go" THEN [v |-> 0, s |-> s]
  ELSE CASE e.k = "num" -> [v |-> e.v, s |-> s]
         [] e.k = "neg" -> LET r == Ev(p, e.e, s) IN [v |-> Word(-r.v), s |-> r.s]
         [] e.k = "not" -> LET r == Ev(p, e.e, s) IN [v |-> WORD - 1 - r.v, s |-> r.s]
         [] e.k = "addr" -> [v |-> Loc(s, e.n), s |-> s]
         [] e.k = "cast" -> Ev(p, e.e, s)
         [] e.k = "call" -> LET a == EvArgs(p, e.args, s) IN Call(p, e.n, a.v, a.s)
         [] e.k = "bin" ->
              LET a == Ev(p, e.l, s)
                  b == Ev(p, e.r, a.s)
                  short == (e.op = "||" /\ a.v # 0) \/ (e.op = "&&" /\ a.v = 0)
              IN  CASE e.op \in {"||", "&&"} /\ short -> [v |-> Bool(a.v # 0), s |-> a.s]
                    [] e.op \in {"||", "&&"} /\ ~short -> [v |-> Bool(b.v # 0), s |-> b.s]
                    [] e.op \in {"/", "%"} /\ b.v = 0 -> [v |-> 0, s |-> [b.s EXCEPT !.flow = "trap"]]
                    [] OTHER -> [v |-> Apply(e.op, a.v, b.v), s |-> b.s]
         [] OTHER -> LET r == Place(p, e, s) IN [v |-> r.s.store[r.v], s |-> r.s]
EvArgs(p, es, s) ==
  IF es = <<>> THEN [v |-> <<>>, s |-> s]
  ELSE LET a == Ev(p, Head(es), s)
           r == EvArgs(p, Tail(es), a.s)
       IN  [v |-> <<a.v>> \o r.v, s |-> r.s]
Call(p, n, args, s) ==
  IF s.flow # "go" THEN [v |-> 0, s |-> s]
  ELSE IF n \in KernelFuncs THEN [v |-> 0, s |-> [s EXCEPT !.out = @ \o args]]
  ELSE LET f == Function(p, n)
           s1 == Burn([s EXCEPT !.env = SubSeq(@, 1, s.globals)
                                \o [i \in DOMAIN args |-> [n |-> f.params[i].n, l |-> Len(s.store) + i]],
                                !.store = @ \o args])
           s2 == ExBody(p, f.b, s1)
       IN  [v |-> IF s2.flow = "return" THEN s2.value ELSE 0,
            s |-> [s2 EXCEPT !.env = s.env,
                             !.flow = IF @ = "return" THEN "go" ELSE @]]
InScope(s, s1) == [s1 EXCEPT !.env = s.env]
ExBody(p, b, s) ==
  IF b = <<>> \/ s.flow # "go" THEN s ELSE ExBody(p, Tail(b), Ex(p, Head(b), s))
(* One round of a loop's body, and what break and continue do to it.             *)
Round(p, b, s) ==
  LET s1 == InScope(s, ExBody(p, b, Burn(s)))
  IN  IF s1.flow = "continue" THEN [s1 EXCEPT !.flow = "go"] ELSE s1
Left(s) == IF s.flow = "break" THEN [s EXCEPT !.flow = "go"] ELSE s
Repeat(p, st, s) ==
  LET t == IF st.k = "loop" THEN [v |-> 1, s |-> s] ELSE Ev(p, st.e, s)
      s1 == Round(p, st.b, t.s)
  IN  IF t.s.flow # "go" \/ t.v = 0 THEN t.s
      ELSE IF s1.flow # "go" THEN Left(s1)
      ELSE Repeat(p, st, s1)
Count(p, st, to, s) ==
  LET l == Loc(s, st.n)
      s1 == Round(p, st.b, s)
  IN  IF s.flow # "go" \/ Signed(s.store[l]) >= Signed(to) THEN s
      ELSE IF s1.flow # "go" THEN Left(s1)
      ELSE Count(p, st, to, [s1 EXCEPT !.store[l] = Word(@ + 1)])
Ex(p, st, s) ==
  CASE st.k = "let" -> LET r == Ev(p, st.e, s) IN Bind(r.s, st.n, <<r.v>>)
    [] st.k = "decl" -> Bind(s, st.n, IF st.ty = "S" THEN <<0, 0>> ELSE <<0>>)
    [] st.k = "set" ->
         LET l == Place(p, st.to, s)
             r == Ev(p, st.e, l.s)
             op == OP_ASSIGN[st.op]
             trap == st.op = "/=" /\ r.v = 0
         IN  IF r.s.flow # "go" THEN r.s
             ELSE IF trap THEN [r.s EXCEPT !.flow = "trap"]
             ELSE [r.s EXCEPT !.store[l.v] = IF st.op = "=" THEN r.v
                                             ELSE Apply(op, s.store[l.v], r.v)]
    [] st.k = "expr" -> Ev(p, st.e, s).s
    [] st.k = "return" -> LET r == Ev(p, st.e, s)
                          IN  IF r.s.flow # "go" THEN r.s
                              ELSE [r.s EXCEPT !.flow = "return", !.value = r.v]
    [] st.k \in {"break", "continue"} -> [s EXCEPT !.flow = st.k]
    [] st.k \in {"block", "unsafe"} -> InScope(s, ExBody(p, st.b, s))
    [] st.k = "if" -> LET r == Ev(p, st.e, s)
                      IN  InScope(s, ExBody(p, IF r.v # 0 THEN st.b ELSE st.c, r.s))
    [] st.k \in {"while", "loop"} -> InScope(s, Repeat(p, st, s))
    [] st.k = "for" -> LET a == Ev(p, st.e, s)
                           b == Ev(p, st.to, a.s)
                       IN  InScope(s, Count(p, st, b.v, Bind(b.s, st.n, <<a.v>>)))
    [] st.k = "match" ->
         LET r == Ev(p, st.e, s)
             hits == {i \in DOMAIN st.arms : st.arms[i].v = r.v}
             arm == IF hits = {} THEN st.c
                    ELSE st.arms[CHOOSE i \in hits : \A j \in hits : i <= j].b
         IN  InScope(s, ExBody(p, arm, r.s))

Values(p) == SelectSeq(p, LAMBDA d : d.k \in {"static", "const"})
Enums(p) == SelectSeq(p, LAMBDA d : d.k = "enum")
Globals(p) ==
  LET ds == Values(p)
  IN  [i \in DOMAIN ds |-> <<ds[i].n, Word(ds[i].v)>>]
      \o FlattenSeq([i \in DOMAIN Enums(p) |-> <<<<Enums(p)[i].n, Enums(p)[i].v>>,
                                                 <<Enums(p)[i].next, Enums(p)[i].v + 1>>>>])
Meaning(p) ==
  LET gs == Globals(p)
  IN  Call(p, "main", <<>>,
           [env |-> [i \in DOMAIN gs |-> [n |-> gs[i][1], l |-> i]],
            store |-> [i \in DOMAIN gs |-> gs[i][2]], globals |-> Len(gs),
            out |-> <<>>, fuel |-> Fuel, flow |-> "go", value |-> 0])

(* Sources that come to an end within the fuel.                                  *)
Ends(p) == Meaning(p).s.flow # "endless"

(* Which trees are programs: every name declared before its use and in scope,    *)
(* every function called defined somewhere, break and continue inside a loop,    *)
(* and a compound assignment to a plain variable only.                           *)
FunctionNames(p) == {p[i].n : i \in {j \in DOMAIN p : p[j].k = "fn"}} \cup KernelFuncs
RECURSIVE ScopedExpr(_, _, _), ScopedBody(_, _, _, _), Scoped(_, _, _, _)
ScopedExpr(p, e, ns) ==
  CASE e.k = "num" -> TRUE
    [] e.k \in {"var", "addr", "field", "arrow"} -> e.n \in ns
    [] e.k \in {"neg", "not", "deref", "cast"} -> ScopedExpr(p, e.e, ns)
    [] e.k = "index" -> e.n \in ns /\ ScopedExpr(p, e.e, ns)
    [] e.k = "call" -> /\ e.n \in FunctionNames(p)
                       /\ \A i \in DOMAIN e.args : ScopedExpr(p, e.args[i], ns)
    [] e.k = "bin" -> ScopedExpr(p, e.l, ns) /\ ScopedExpr(p, e.r, ns)
ScopedBody(p, b, ns, loop) ==
  \/ b = <<>>
  \/ /\ Scoped(p, Head(b), ns, loop)
     /\ ScopedBody(p, Tail(b), IF Head(b).k \in {"let", "decl"} THEN ns \cup {Head(b).n} ELSE ns, loop)
Scoped(p, s, ns, loop) ==
  /\ s.k \in {"let", "expr", "return", "if", "while", "match", "for", "set"} => ScopedExpr(p, s.e, ns)
  /\ s.k \in {"for", "set"} => ScopedExpr(p, s.to, ns)
  /\ s.k = "set" /\ s.op # "=" => s.to.k = "var"
  /\ s.k \in {"break", "continue"} => loop
  /\ s.k \in {"block", "unsafe", "if"} => ScopedBody(p, s.b, ns, loop)
  /\ s.k \in {"if", "match"} => ScopedBody(p, s.c, ns, loop)
  /\ s.k \in {"while", "loop"} => ScopedBody(p, s.b, ns, TRUE)
  /\ s.k = "for" => ScopedBody(p, s.b, ns \cup {s.n}, TRUE)
  /\ s.k = "match" => \A i \in DOMAIN s.arms : ScopedBody(p, s.arms[i].b, ns, loop)
WellFormed(p) ==
  LET gs == Globals(p)
      named == {gs[i][1] : i \in DOMAIN gs}
  IN  /\ "main" \in FunctionNames(p)
      /\ \A i \in DOMAIN p : p[i].k = "fn" =>
           ScopedBody(p, p[i].b, named \cup {p[i].params[j].n : j \in DOMAIN p[i].params}, FALSE)

--------------------------------------------------------------------------------
(* The driver.  rc_compile compiles one file; what parse_program made of it is   *)
(* written to the output file, and the result of that write is not looked at.    *)
NoImage == [code |-> <<>>, odd |-> {}, marks |-> {}]
NoMeaning == [flow |-> "go", v |-> 0, out |-> <<>>]
HALT == WORD - 1
Top == WORD - Dword
Junk == 85
Slots == (CODE_MAX \div Dword)..(WORD \div Dword - 1)

Init ==
  /\ prog \in Programs
  /\ image = NoImage /\ status = "source" /\ want = NoMeaning
  /\ pc = 0 /\ rg = [r \in {"eax", "ecx", "edx", "esp", "ebp"} |-> Junk]
  /\ fl = <<0, 0>> /\ mem = [a \in Slots |-> Junk] /\ out = <<>>

machine == <<pc, rg, fl, mem, out>>
too_much(c) == Odd(c, "code", Len(c.code) > CODE_MAX)
WriteImage(c) ==
  IF c.err \/ "code" \in c.odd
  THEN status' = "rejected" /\ image' = [NoImage EXCEPT !.odd = c.odd]
  ELSE /\ status' = "compiled"
       /\ \/ image' = [code |-> c.code, odd |-> c.odd, marks |-> c.marks]
          \/ image' = NoImage   \* vfs::write wrote nothing
MeaningOf(m) == [flow |-> m.s.flow, v |-> m.v, out |-> m.s.out]
rc_compile ==
  /\ status = "source"
  /\ WriteImage(too_much(parse_program(Source(prog))))
  /\ want' = IF WellFormed(prog) THEN MeaningOf(Meaning(prog)) ELSE NoMeaning
  /\ UNCHANGED <<prog, machine>>
(* No source file, no memory, a read error, no output file.                      *)
CompileFails ==
  /\ status = "source" /\ status' = "refused" /\ UNCHANGED <<prog, image, want, machine>>

(* run_program calls the image through run_protected; an empty file is refused.  *)
Store(m, addr, v) == [m EXCEPT ![addr \div Dword] = Word(v)]
run_program ==
  /\ status = "compiled"
  /\ IF image.code = <<>>
     THEN status' = "refused" /\ UNCHANGED <<rg, mem>>
     ELSE /\ status' = "running" /\ rg' = [rg EXCEPT !["esp"] = Top]
          /\ mem' = Store(mem, Top, HALT)
  /\ pc' = 0 /\ UNCHANGED <<prog, image, want, fl, out>>

(* The processor (external): one action per kind of instruction.                 *)
At(i) == CASE i.op \in {"load", "store"} -> Word(rg.ebp + i.v)
           [] i.op \in {"loadg", "storeg"} -> i.v
           [] i.op \in {"ldi", "sti"} -> rg[i.r]
           [] i.op \in {"push", "call"} -> Word(rg.esp - Dword)
           [] i.op \in {"pop", "ret", "kcall"} -> rg.esp
           [] i.op = "swap" -> Word(rg.esp + i.v[2])
           [] OTHER -> Top
Mapped(a) == a % Dword = 0 /\ a \div Dword \in Slots
Traps(i) == ~Mapped(At(i)) \/ (i.op = "idiv" /\ rg.ecx = 0)
Fetch(ops) == /\ status = "running" /\ pc < Len(image.code)
              /\ image.code[pc + 1].op \in ops /\ ~Traps(image.code[pc + 1])
I == image.code[pc + 1]
Advance == pc' = pc + 1 /\ UNCHANGED <<prog, image, status, want>>
Result(i) ==
  LET a == rg[i.r]
      b == IF i.s = "" THEN 0 ELSE rg[i.s]
  IN  CASE i.op = "movi" -> Word(i.v) [] i.op = "mov" -> b
        [] i.op = "add" -> Apply("+", a, b) [] i.op = "sub" -> Apply("-", a, b)
        [] i.op = "imul" -> Apply("*", a, b) [] i.op = "or" -> Apply("|", a, b)
        [] i.op = "xor" -> Apply("^", a, b) [] i.op = "and" -> Apply("&", a, b)
        [] i.op = "shl" -> Apply("<<", a, b) [] i.op = "shr" -> Apply(">>", a, b)
        [] i.op = "neg" -> Word(-a) [] i.op = "not" -> WORD - 1 - a
        [] i.op = "lea" -> Word(rg.ebp + i.v)
Compute ==
  /\ Fetch({"movi", "mov", "add", "sub", "imul", "or", "xor", "and", "shl", "shr", "neg", "not", "lea"})
  /\ rg' = [rg EXCEPT ![I.r] = Result(I)] /\ Advance /\ UNCHANGED <<fl, mem, out>>
AddEsp ==
  /\ Fetch({"addesp"}) /\ rg' = [rg EXCEPT !["esp"] = Word(@ + I.v)]
  /\ Advance /\ UNCHANGED <<fl, mem, out>>
Divide ==
  /\ Fetch({"idiv"})
  /\ rg' = [rg EXCEPT !["eax"] = Apply("/", @, rg.ecx), !["edx"] = Apply("%", rg.eax, rg.ecx)]
  /\ Advance /\ UNCHANGED <<fl, mem, out>>
CompareRegs ==
  /\ Fetch({"cmp", "cmp0"}) /\ fl' = <<rg[I.r], IF I.op = "cmp0" THEN 0 ELSE rg[I.s]>>
  /\ Advance /\ UNCHANGED <<rg, mem, out>>
SetCc ==
  /\ Fetch({"setcc"}) /\ rg' = [rg EXCEPT !["eax"] = Bool(Compare(I.r, fl[1], fl[2]))]
  /\ Advance /\ UNCHANGED <<fl, mem, out>>
Load ==
  /\ Fetch({"load", "loadg", "ldi"}) /\ rg' = [rg EXCEPT ![I.r] = mem[At(I) \div Dword]]
  /\ Advance /\ UNCHANGED <<fl, mem, out>>
StoreTo ==
  /\ Fetch({"store", "storeg", "sti"})
  /\ mem' = Store(mem, At(I), IF I.op = "sti" THEN rg.eax ELSE rg[I.r])
  /\ Advance /\ UNCHANGED <<rg, fl, out>>
Push ==
  /\ Fetch({"push"}) /\ mem' = Store(mem, At(I), rg[I.r]) /\ rg' = [rg EXCEPT !["esp"] = At(I)]
  /\ Advance /\ UNCHANGED <<fl, out>>
Pop ==
  /\ Fetch({"pop"})
  /\ rg' = [rg EXCEPT !["esp"] = Word(@ + Dword), ![I.r] = mem[At(I) \div Dword]]
  /\ Advance /\ UNCHANGED <<fl, mem, out>>
Swap ==
  /\ Fetch({"swap"})
  /\ LET lo == Word(rg.esp + I.v[1]) \div Dword
         hi == At(I) \div Dword
     IN  /\ mem' = [mem EXCEPT ![lo] = mem[hi], ![hi] = mem[lo]]
         /\ rg' = [rg EXCEPT !["eax"] = mem[lo], !["ecx"] = mem[hi]]
  /\ Advance /\ UNCHANGED <<fl, out>>
Jump ==
  /\ Fetch({"jmp", "jcc"})
  /\ pc' = pc + 1 + (IF I.op = "jmp" \/ Compare(I.r, fl[1], fl[2]) THEN I.v ELSE 0)
  /\ UNCHANGED <<prog, image, status, want, rg, fl, mem, out>>
CallNear ==
  /\ Fetch({"call"}) /\ mem' = Store(mem, At(I), pc + 1) /\ rg' = [rg EXCEPT !["esp"] = At(I)]
  /\ pc' = pc + 1 + I.v /\ UNCHANGED <<prog, image, status, want, fl, out>>
(* A kernel function of one argument prints it and keeps ebx, esp and ebp only.  *)
CallKernel ==
  /\ Fetch({"kcall"}) /\ out' = Append(out, mem[rg.esp \div Dword])
  /\ rg' = [rg EXCEPT !["eax"] = Junk, !["ecx"] = Junk, !["edx"] = Junk]
  /\ Advance /\ UNCHANGED <<fl, mem>>
Ret ==
  /\ Fetch({"ret"}) /\ pc' = mem[rg.esp \div Dword] /\ rg' = [rg EXCEPT !["esp"] = Word(@ + Dword)]
  /\ status' = IF pc' = HALT THEN "halted" ELSE status
  /\ UNCHANGED <<prog, image, want, fl, mem, out>>
Fault ==
  /\ status = "running" /\ (pc >= Len(image.code) \/ Traps(image.code[pc + 1]))
  /\ status' = "fault" /\ UNCHANGED <<prog, image, want, machine>>

Step == Compute \/ AddEsp \/ Divide \/ CompareRegs \/ SetCc \/ Load \/ StoreTo \/ Push \/ Pop
        \/ Swap \/ Jump \/ CallNear \/ CallKernel \/ Ret \/ Fault
Next == rc_compile \/ CompileFails \/ run_program \/ Step
Spec == Init /\ [][Next]_vars
(* Nothing preempts a running program for good: run_program is one call.         *)
FairSpec == Spec /\ WF_vars(run_program) /\ WF_vars(Step)

--------------------------------------------------------------------------------
(* Outside the limits and corner cases the compiler's state records, a program   *)
(* that halts has returned and printed what its source says, and one that traps  *)
(* divides by zero in the source as well: precedence, the saved operands, the    *)
(* order of arguments, scopes, backpatched jumps and frames are all right.       *)
ResultRight ==
  image.odd = {} =>
    /\ status = "halted" => want.flow = "go" /\ want.v = rg.eax /\ want.out = out
    /\ status = "fault" => want.flow = "trap"

(* At the start of every statement the stack pointer is exactly the frame below  *)
(* ebp: no expression, call, break or continue leaves anything on the stack,     *)
(* however often the statement is reached.                                       *)
Balanced ==
  \A m \in image.marks :
    status = "running" /\ pc = m[1] => rg.esp = Word(rg.ebp + image.code[m[2] + 3].v)

(* Within the limits, the size of the code included, rc accepts exactly the      *)
(* programs: it rejects a name out of scope, a function never defined, a break   *)
(* or continue outside a loop, and nothing else, whatever the forward references *)
(* and nesting.                                                                  *)
AcceptsExactly ==
  image.odd = {} =>
    /\ status = "compiled" => WellFormed(prog)
    /\ status = "rejected" => ~WellFormed(prog)

(* A program that runs (its source comes to an end) halts or traps: every jump   *)
(* was patched to where its loop, arm or branch really continues.                *)
Terminates == (status = "running" /\ image.odd = {}) ~> (status \in {"halted", "fault"})
================================================================================
