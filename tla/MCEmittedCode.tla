--------------------------- MODULE MCEmittedCode ---------------------------
(* Small programs to run EmittedCode on: words of 4 bits.                  *)
EXTENDS EmittedCodeProperties

MCType == [x \in Global \cup MainLocal \cup Local |->
             CASE x = "i" -> "int"
               [] x = "b" -> "boolean"
               [] x \in {"ret", "n"} -> "nil"
               [] OTHER -> "any"]

AnyOf(ts) == {<<"any", t>> : t \in ts} \cup {<<t, "any">> : t \in ts}
ValueCasts == AnyOf({"any", "int", "boolean"})
AllCasts == ValueCasts \cup {<<"nil", "any">>}
TwoParams == <<"p", "s">>
OneOfEach == {-5, 3}
FirstBoxed == {-5, 4}
FewOps == {"sub", "div", "lt"}
CastOps == {"sub", "lt"}
=============================================================================
