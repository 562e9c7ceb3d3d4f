------------------------------ MODULE Samples ------------------------------
(* The programs that the compiler is checked with: those of                *)
(* examples/constructions with smaller numbers, and some that need more    *)
(* variables at once than there are registers.                             *)
EXTENDS Integers, Sequences, TLC

(* Expressions and statements as the grammar gives them. *)
NoAt         == [text |-> <<>>, exprs |-> <<>>]
Num(v)       == [n |-> "int", v |-> v]
Var(x)       == [n |-> "var", name |-> x, path |-> <<>>]
Part(x, f)   == [n |-> "var", name |-> x, path |-> <<f>>]
In(e)        == [n |-> "paren", of |-> e]
Ask(e)       == [n |-> "ask", of |-> e]
Cast(t, e)   == [n |-> "cast", type |-> t, of |-> e]
Negate(e)    == [n |-> "prefix", op |-> "-", of |-> e]
At(e, i)     == [n |-> "index", of |-> e, i |-> i, path |-> <<>>]
Field(e, f)  == [n |-> "field", of |-> e, path |-> <<f>>, at |-> NoAt]
Chain(rule, l, op, r) == [n |-> "chain", rule |-> rule, first |-> l, rest |-> <<<<op, r>>>>]
Do2(l, op, r)   == Chain("Arithmetic", l, op, r)
Compare(l, op, r) == Chain("CompareOperation", l, op, r)
Logic(l, op, r) == Chain("LogicOperation", l, op, r)
CallOn(p, f, args, outs) ==
  [n |-> "call", name |-> f, prov |-> p, args |-> args, outs |-> outs, at |-> NoAt]
Call(f, args) == CallOn("", f, args, <<"*">>)
New(t, args)  == [n |-> "new", type |-> t, args |-> args, at |-> NoAt]
(* Text as it is written, and the characters it stands for. *)
Text(t, s, means) == [n |-> "string", type |-> t, string |-> s, means |-> means, at |-> NoAt]

Set(to, e)   == [s |-> "expr", of |-> [n |-> "set", to |-> <<to>>, of |-> e]]
Let(x, e)    == Set(Var(x), e)
Run(e)       == [s |-> "expr", of |-> e]
Declare(t, xs) == [s |-> "decl", type |-> t, names |-> xs]
While(g, b)  == [s |-> "while", guard |-> g, body |-> b]
Match(e, cs) == [s |-> "match", of |-> e, cases |-> cs]
Sleep(e)     == [s |-> "sleep", of |-> e]

Type(name)    == [name |-> name, prov |-> "", mods |-> <<>>]
Promise(name) == [name |-> name, prov |-> "", mods |-> <<<<"promise", "">>>>]
Array(name)   == [name |-> name, prov |-> "", mods |-> <<<<"array", "">>>>]
LocalArray(name) == [name |-> name, prov |-> "", mods |-> <<<<"array", "loc">>>>]
Promises(name) == [name |-> name, prov |-> "", mods |-> <<<<"promise", "">>, <<"array", "">>>>]
Int32 == Type("i32")

Arg(x, t) == [name |-> x, type |-> t]
WorkerAt(at, name, ins, outs, body) ==
  [g |-> "worker", at |-> at, name |-> name, inputs |-> ins, outputs |-> outs, body |-> body]
Worker(name, ins, outs, body) == WorkerAt(<<>>, name, ins, outs, body)
Res == <<Arg("res", Promise("i32"))>>
Main(body) == WorkerAt("export" :> "yes" @@ "entry" :> "yes", "main",
                       <<Arg("input", Array("i64"))>>, Res, body)
Using == [g |-> "using", name |-> "x64"]

X == Var("x")
Y == Var("y")
N == Var("n")
Sum == Var("sum")
Res_(e) == Let("res", e)

----------------------------------------------------------------------------
Loop ==
  <<Using, Main(<<Declare(Int32, <<"n", "sum">>), Let("n", Num(3)), Let("sum", Num(0)),
     While(Compare(N, "GT", Num(0)), <<Let("sum", Do2(Sum, "ADD", Do2(N, "MUL", N))),
                                       Let("n", Do2(N, "SUB", Num(1)))>>),
     Res_(Sum)>>)>>

(* The same loop with a variable as its guard. *)
CountDown ==
  <<Using, Main(<<Declare(Int32, <<"n", "sum">>), Let("n", Num(3)), Let("sum", Num(0)),
     While(N, <<Let("sum", Do2(Sum, "ADD", Do2(N, "MUL", N))), Let("n", Do2(N, "SUB", Num(1)))>>),
     Res_(Sum)>>)>>

Choose_ ==
  <<Using, Main(<<Declare(Int32, <<"x", "y", "sum">>), Let("x", Num(5)), Let("y", Num(7)),
     Match(Logic(In(Compare(X, "LT", Y)), "&&", In(Compare(Y, "NE", Num(3)))),
           <<<<Negate(Num(1)), <<Let("sum", Do2(Do2(X, "MUL", Num(9)), "SUB", Y))>>>>,
             <<Num(0), <<Let("sum", Num(1))>>>>>>),
     Res_(Sum)>>)>>

Add == Worker("Add", <<Arg("a", Int32), Arg("b", Int32)>>, Res,
              <<Res_(Do2(Var("a"), "ADD", Var("b")))>>)
Sub == WorkerAt("noinline" :> "yes", "Sub", <<Arg("a", Int32), Arg("b", Int32)>>, Res,
                <<Res_(Do2(Var("a"), "SUB", Var("b")))>>)
Calls ==
  <<Using, Add, Sub, Main(<<Res_(Ask(Call("Sub", <<Ask(Call("Add", <<Num(2), Num(9)>>)), Num(4)>>)))>>)>>

Tasks ==
  <<Using, Worker("Work", <<Arg("x", Int32)>>, Res, <<Res_(Do2(X, "ADD", Num(5)))>>),
    Main(<<Declare(Promises("i32"), <<"tasks">>), Declare(Int32, <<"n", "sum">>),
           Let("n", Num(2)), Let("sum", Num(0)), Let("tasks", New(Promises("i32"), <<N>>)),
           While(Compare(N, "GT", Num(0)),
                 <<Let("n", Do2(N, "SUB", Num(1))), Set(At(Var("tasks"), N), Call("Work", <<N>>))>>),
           Let("n", Cast(Int32, Ask(Var("tasks")))),
           While(Compare(N, "GT", Num(0)),
                 <<Let("n", Do2(N, "SUB", Num(1))),
                   Let("sum", Do2(Do2(Sum, "MUL", Num(3)), "ADD", Ask(At(Var("tasks"), N))))>>),
           Res_(Sum)>>)>>

(* The outputs have names; the second worker takes its promises through a chain. *)
Two ==
  <<Using,
    WorkerAt("noinline" :> "yes", "Halves", <<Arg("n", Int32)>>,
             <<Arg("low", Promise("i32")), Arg("high", Promise("i32"))>>,
             <<Let("high", Do2(N, "DIV", Num(4))), Let("low", Do2(N, "MOD", Num(4)))>>),
    Main(<<Run(CallOn("", "Halves", <<Num(27)>>, <<"x", "y">>)),
           Res_(Do2(Do2(Ask(X), "MUL", Num(9)), "ADD", Ask(Y)))>>)>>

(* A record is held by the worker, a class is an object. *)
Points ==
  <<Using, [g |-> "record", name |-> "point1", fields |-> <<Arg("x", Int32), Arg("y", Int32)>>],
    [g |-> "class", name |-> "point2", fields |-> <<Arg("x", Int32), Arg("y", Int32)>>],
    WorkerAt("noinline" :> "yes", "Update2", <<Arg("p", Type("point2"))>>, Res,
             <<Set(Field(Var("p"), "y"), Do2(Field(Var("p"), "y"), "ADD", Num(1))),
               Res_(Field(Var("p"), "x"))>>),
    Main(<<Declare(Type("point1"), <<"x">>), Declare(Type("point2"), <<"y">>),
           Set(Part("x", "y"), Num(3)), Set(Part("x", "x"), Do2(Part("x", "y"), "ADD", Num(1))),
           Let("y", New(Type("point2"), <<>>)),
           Set(Field(Y, "y"), Part("x", "x")), Set(Field(Y, "x"), Num(6)),
           Declare(Int32, <<"n">>), Let("n", Ask(Call("Update2", <<Y>>))),
           Res_(Do2(Do2(N, "MUL", Num(9)), "ADD", Field(Y, "y")))>>)>>

(* More values at once than registers. *)
Many ==
  <<Using, Main(<<Declare(Int32, <<"x", "y", "n">>),
     Let("x", Num(2)), Let("y", Num(3)), Let("n", Num(5)),
     Let("n", Do2(In(Do2(X, "MUL", Y)), "SUB", In(Do2(In(Do2(N, "SUB", Y)), "MUL", In(Do2(N, "ADD", X)))))),
     Res_(Do2(Do2(N, "ADD", X), "ADD", Y))>>)>>

(* An array of the worker itself: its elements are read and stored in place. *)
Local ==
  <<Using, Main(<<Declare(LocalArray("i32"), <<"x">>), Declare(Int32, <<"n">>), Let("n", Num(3)),
     Let("x", New(LocalArray("i32"), <<N>>)), Set(At(X, Num(2)), Num(7)),
     Set(At(X, Num(1)), Do2(N, "MUL", Num(4))),
     Res_(Do2(At(X, Num(2)), "ADD", Do2(At(X, Num(1)), "MUL", Cast(Int32, Ask(X)))))>>)>>

(* A function of a dll, and a string. *)
Import ==
  <<Using, [g |-> "worker_decl", name |-> "Beep", inputs |-> <<Arg("n", Int32), Arg("x", Type("i8"))>>,
            outputs |-> Res,
            at |-> "dllimport" :> "kernel32.dll" @@ "dllimport.entry" :> "Beep"],
    Main(<<Declare(Array("i16"), <<"x">>), Let("x", Text(Array("i16"), <<9, 92, 110>>, <<9, 10, 0>>)),
           Sleep(Num(1)),
           Res_(Do2(Ask(CallOn("dll", "Beep", <<Num(7), Cast(Type("i8"), Num(1))>>, <<"*">>)), "ADD",
                    Do2(Cast(Int32, At(X, Num(1))), "MUL", Cast(Int32, Ask(X)))))>>)>>
============================================================================
