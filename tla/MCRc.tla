---------------------------------- MODULE MCRc ----------------------------------
(* Source files for RcRun: every pair of operators in both shapes, statements    *)
(* nested two deep in every loop and branch, and programs with functions,        *)
(* statics, constants, pointers and structures.                                  *)
EXTENDS RcRun

N(v) == [k |-> "num", v |-> v]
V(n) == [k |-> "var", n |-> n]
B(op, l, r) == [k |-> "bin", op |-> op, l |-> l, r |-> r]
Neg(e) == [k |-> "neg", e |-> e]
Inv(e) == [k |-> "not", e |-> e]
Cast(e) == [k |-> "cast", e |-> e]
Deref(e) == [k |-> "deref", e |-> e]
Addr(n) == [k |-> "addr", n |-> n]
At0(n) == [k |-> "index", n |-> n, e |-> N(0)]
Dot(n, f) == [k |-> "field", n |-> n, f |-> f]
Arrow(n, f) == [k |-> "arrow", n |-> n, f |-> f]
F(n, args) == [k |-> "call", n |-> n, args |-> args]

Let(n, ty, e) == [k |-> "let", n |-> n, ty |-> ty, e |-> e]
Decl(n, ty) == [k |-> "decl", n |-> n, ty |-> ty]
Assign(to, op, e) == [k |-> "set", to |-> to, op |-> op, e |-> e]
Do(e) == [k |-> "expr", e |-> e]
Return(e) == [k |-> "return", e |-> e]
Break == [k |-> "break"]
Continue == [k |-> "continue"]
Block(b) == [k |-> "block", b |-> b]
Unsafe(b) == [k |-> "unsafe", b |-> b]
If(e, b, c) == [k |-> "if", e |-> e, b |-> b, c |-> c]
While(e, b) == [k |-> "while", e |-> e, b |-> b]
Loop(b) == [k |-> "loop", b |-> b]
For(n, e, to, b) == [k |-> "for", n |-> n, e |-> e, to |-> to, b |-> b]
Match(e, arms, c) == [k |-> "match", e |-> e, arms |-> arms, c |-> c]
Arm(v, b) == [v |-> v, b |-> b]
Fn(n, params, b) == [k |-> "fn", n |-> n, params |-> params, b |-> b]
P(n, ty) == [n |-> n, ty |-> ty]

(* a op b op' c in both shapes, from a name and from a number.                   *)
Ops == {"||", "&&", "|", "^", "&", "==", "!=", "<", ">=", "<<", ">>", "+", "-", "*", "/", "%"}
Pairs == {B(o, B(p, a, N(2)), V("x")) : o \in Ops, p \in Ops, a \in {V("x"), N(5)}}
         \cup {B(o, a, B(p, N(2), V("x"))) : o \in Ops, p \in Ops, a \in {V("x"), N(5)}}
Prefixed == {B(o, g, N(2)) : o \in Ops, g \in {Neg(V("x")), Inv(N(1)), Neg(Inv(V("x"))), Cast(V("x")),
                                               N(0), Neg(B("+", V("x"), N(1)))}}
            \cup {B(o, V("x"), g) : o \in {"+", "<", "/", "&&"}, g \in {Neg(N(2)), N(0), Cast(B("-", N(1), V("x")))}}
ExprPrograms == {<<Fn("main", <<>>, <<Let("x", "i32", N(3)), Return(e)>>)>> : e \in Pairs \cup Prefixed}

(* Statements over x, nested in one another.                                     *)
X == V("x")
Inc == Assign(X, "+=", N(1))
Show(e) == Do(F("putchar", <<e>>))
Simple == {Inc, Break, Continue, Return(B("+", X, N(7))), Let("x", "i32", N(9)), Show(X),
           Assign(X, "=", F("sub", <<N(4), X>>)), Assign(X, "=", V("y"))}
Wraps(S) ==
  UNION {{<<If(B("==", X, N(1)), <<s>>, <<>>)>>, <<If(B("<", X, N(1)), <<Inc>>, <<s, Inc>>)>>,
          <<While(B("<", X, N(3)), <<Inc, s, Show(X)>>)>>,
          <<Loop(<<Inc, s, If(B(">=", X, N(3)), <<Break>>, <<>>)>>)>>,
          <<For("i", N(0), N(2), <<s, Assign(X, "+=", V("i"))>>)>>,
          <<Match(X, <<Arm(0, <<Inc>>), Arm(1, <<s>>)>>, <<Show(N(4))>>)>>,
          <<Match(X, <<Arm(2, <<Inc>>)>>, <<s>>)>>,
          <<Block(<<Let("y", "i32", B("+", X, N(1))), s>>)>>} : s \in S}
Once == Wraps(Simple)
Twice == Wraps({Block(b) : b \in Once})
Sub == Fn("sub", <<P("a", "i32"), P("b", "i32")>>, <<Return(B("-", V("a"), V("b")))>>)
Body(b) == <<Let("x", "i32", N(1))>> \o b \o <<Show(X), Return(X)>>
Pair == LET W == Wraps({Inc, Break, Show(X), Let("x", "i32", N(9))}) IN {a \o b : a \in W, b \in W}
After == {b \o <<Assign(X, "=", V("y"))>> : b \in Once}
StmtPrograms == {<<Fn("main", <<>>, Body(b)), Sub>> : b \in Once \cup Twice \cup Pair \cup After}

(* Functions before and after their callers, recursion, nested calls, arguments  *)
(* that print, statics, constants, enums, aliases, pointers and structures.      *)
ST == [k |-> "struct", n |-> "S", fields |-> <<"a", "b">>]
TD == [k |-> "type", n |-> "T"]
G(n, v) == [k |-> "static", n |-> n, v |-> v]
K(n, v) == [k |-> "const", n |-> n, v |-> v]
Two == Fn("two", <<P("a", "i32")>>, <<Show(V("a")), Return(B("+", V("a"), N(1)))>>)
Fact == Fn("fact", <<P("n", "i32")>>,
           <<If(B("<", V("n"), N(2)), <<Return(N(1))>>, <<>>),
             Return(B("*", V("n"), F("fact", <<B("-", V("n"), N(1))>>)))>>)
Put == Fn("put", <<P("p", "*S"), P("v", "i32"), P("w", "i32")>>,
          <<Assign(Arrow("p", "a"), "=", V("v")), Assign(Arrow("p", "b"), "=", V("w"))>>)
Swap2 == Fn("swap", <<P("a", "*i32"), P("b", "T")>>,
            <<Let("t", "i32", Deref(V("a"))), Assign(Deref(V("a")), "=", Deref(V("b"))),
              Assign(Deref(V("b")), "=", V("t"))>>)
Bodies == {
  <<Return(F("sub", <<F("two", <<N(7)>>), F("two", <<N(2)>>)>>))>>,
  <<Return(B("-", N(50), F("sub", <<F("fact", <<N(4)>>), B("*", F("two", <<N(2)>>), N(2))>>)))>>,
  <<Let("x", "i32", N(0)),
    While(B("&&", B("<", X, N(2)), F("two", <<X>>)), <<Do(F("sub", <<N(1), N(2)>>)), Inc>>), Return(X)>>,
  <<Let("x", "i32", N(1)), Let("y", "i32", N(2)), Do(F("swap", <<Addr("x"), Addr("y")>>)),
    Return(B("-", X, B("<<", V("y"), N(3))))>>,
  <<Decl("s", "S"), Decl("q", "*S"), Do(F("put", <<Addr("s"), N(6), N(2)>>)), Assign(V("q"), "=", Addr("s")),
    Assign(Dot("s", "b"), "=", B("+", Dot("s", "a"), Arrow("q", "b"))),
    Return(B("*", N(2), B("-", Arrow("q", "b"), Dot("s", "a"))))>>,
  <<Decl("s", "S"), Assign(Dot("s", "a"), "=", N(3)), Assign(Dot("s", "b"), "=", N(4)),
    Let("p", "*i32", Addr("s")), Assign(Deref(B("+", V("p"), N(1))), "=", N(9)), Assign(V("p"), "+=", N(1)),
    Assign(At0("p"), "=", B("+", At0("p"), N(1))),
    Return(B("+", Deref(V("p")), B("+", B("*", N(1), At0("p")), Deref(B("-", V("p"), N(1))))))>>,
  <<Assign(V("G"), "=", B("+", V("G"), V("H"))), Assign(V("H"), "*=", N(3)), Unsafe(<<Assign(V("G"), "/=", V("ONE"))>>),
    Let("p", "*i32", Addr("G")), Assign(Deref(V("p")), "-=", N(1)), Return(B("-", V("G"), V("H")))>>,
  <<Assign(V("G"), "=", B("+", V("G"), V("H"))), Assign(V("H"), "*=", N(3)), Unsafe(<<Assign(V("G"), "/=", V("ONE"))>>),
    Let("p", "*i32", Addr("G")), Assign(Deref(V("p")), "=", B("-", Deref(V("p")), V("K"))), Return(B("-", V("G"), V("H")))>>,
  <<Assign(V("G"), "/=", B("-", V("ONE"), N(4))), Return(V("G"))>>,
  <<Assign(V("G"), "=", F("none", <<N(1)>>)), Return(V("TWO"))>>,
  <<For("i", N(0), N(2), <<For("j", V("i"), N(2), <<If(B("==", V("j"), V("ONE")), <<Continue>>, <<>>),
                                                 Show(V("j"))>>)>>), Return(B("%", V("H"), N(2)))>>}
Before == <<ST, TD, G("G", 8), G("H", -3), K("K", -2),
            [k |-> "enum", n |-> "ONE", v |-> 4, next |-> "TWO"], Sub, Swap2>>
FeaturePrograms == {Before \o <<Fn("main", <<>>, b), Two, Fact, Put>> : b \in Bodies}

(* One past each limit: a fourth loop deep, a third break, a fourth arm, a local *)
(* initialised from an outer one of its name, an offset past the frame, too much *)
(* code; and a type, a structure and a field too many.                           *)
Up(v) == If(B(">=", X, N(v)), <<Break>>, <<>>)
LimitBodies == {
  [i \in 1..50 |-> Inc],
  <<Loop(<<Loop(<<Loop(<<Loop(<<Inc, Up(4)>>), Inc, Up(7)>>), Up(7)>>), Up(7)>>)>>,
  <<Loop(<<Inc, Up(9), Up(8), Up(4)>>)>>,
  <<Match(X, <<Arm(0, <<>>), Arm(2, <<>>), Arm(1, <<Inc>>)>>, <<Inc>>)>>,
  <<Let("x", "i32", B("+", X, N(1)))>>,
  <<Let("p", "i32", N(1)), Let("q", "i32", N(1)), Let("r", "i32", N(1)),
    Match(X, <<Arm(1, <<Let("s", "i32", N(4)), Assign(X, "=", B("+", F("sub", <<N(8), V("s")>>), V("s")))>>)>>,
          <<Inc>>)>>}
LimitDecls == {<<TD, [TD EXCEPT !.n = "U"]>>, <<ST, [ST EXCEPT !.n = "R"]>>,
               <<[ST EXCEPT !.fields = <<"a", "b", "c">>]>>}
LimitPrograms == {<<Fn("main", <<>>, Body(b)), Sub>> : b \in LimitBodies}
                 \cup {d \o <<Fn("main", <<>>, Body(<<>>))>> : d \in LimitDecls}

(* Of the well-formed ones, those whose source comes to an end.                  *)
AllPrograms == {p \in ExprPrograms \cup StmtPrograms \cup FeaturePrograms \cup LimitPrograms :
                  WellFormed(p) => Ends(p)}
=================================================================================
