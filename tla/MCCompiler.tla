----------------------------- MODULE MCCompiler -----------------------------
(* Every sample program, three registers, the workers in both orders.      *)
EXTENDS Compiler
E == INSTANCE Samples

MCPrograms == [loop |-> E!Loop, down |-> E!CountDown, choose |-> E!Choose_, calls |-> E!Calls, tasks |-> E!Tasks,
               two |-> E!Two, points |-> E!Points, many |-> E!Many, import |-> E!Import, local |-> E!Local]
OnePrograms == [down |-> E!CountDown]
MCRand(s) == (s * 5 + 3) % 64
=============================================================================
