----------------------------- MODULE MCCompiler -----------------------------
(* Files to run Compiler on: a pool with an entry of every kind, and       *)
(* modules with functions of every kind in many orders; pools with a shape *)
(* of every type; and inputs the compiler does not support, at each place  *)
(* where it finds out.                                                     *)
EXTENDS CompilerProperties
S == INSTANCE SequencesExt

-----------------------------------------------------------------------------
(* Entries as they are written.                                            *)

W(w, v, f) == [w |-> w, v |-> v, f |-> f]
U1(v) == <<W(1, v, "")>>
S4(v) == <<W(4, v, "")>>
S8 == <<W(8, 0, "")>>
Named4(f, v) == <<W(4, v, f)>>
Flag(f, v) == <<W(1, v, f)>>
Times(c, ws) == S4(c) \o S!FlattenSeq([i \in 1 .. c |-> ws])
Bytes(len, v, f) == S4(len) \o <<W(len, v, f)>>
Width(ws) == S!FoldLeft(LAMBDA a, x : a + x.w, 0, ws)

Entry(tag, words) == [tag |-> tag, words |-> words]
Str(s) == Entry("STRING", Bytes(IF s = "" THEN 0 ELSE 3, s, "value"))
Shape(t, name, body) ==
  LET rest == Flag("typeTag", t) \o Named4("nameIndex", name) \o S8 \o S4(0) \o body
  IN  Entry("SHAPE", Named4("shapeLength", Width(rest)) \o rest)
Invokable(params, ret) ==
  Shape("INVOKABLE", 0,
    Flag("isAnyFunction", 0) \o Named4("paramCount", Len(params))
    \o [i \in DOMAIN params |-> W(4, params[i], "params")]
    \o Flag("hasRestType", 0) \o Named4("returnTypeIndex", ret))

TypeIds == Times(1, S4(0) \o S4(0) \o U1(1)) \o Times(2, S4(0) \o S4(0) \o U1(0))
Doc(len) == IF len = 0 THEN S4(0) ELSE Bytes(len, "doc", "")
ObjField(len) == S4(0) \o S8 \o Doc(len) \o S4(0)
Method == S4(0) \o S8 \o S4(0)
Constraint == Named4("constraintTypeCpIndex", 1)

Shapes ==
  <<Shape("INVOKABLE", 0, Flag("isAnyFunction", 1)),
    Shape("INVOKABLE", 0, Flag("isAnyFunction", 0) \o Named4("paramCount", 2)
       \o Named4("params", 1) \o Named4("params", 2) \o Flag("hasRestType", 1)
       \o Named4("restTypeIndex", 1) \o Named4("returnTypeIndex", 1)),
    Shape("ERROR", 0, S4(0) \o S4(0) \o S4(1) \o TypeIds),
    Shape("STREAM", 0, Constraint \o U1(1) \o S4(1)), Shape("STREAM", 0, Constraint \o U1(0)),
    Shape("TYPEDESC", 0, Constraint), Shape("FUTURE", 0, Constraint),
    Shape("XML", 0, Constraint), Shape("PARAMETERIZED_TYPE", 0, S4(1) \o S4(0)),
    Shape("OBJECT", 0, U1(1) \o S4(0) \o S4(0) \o U1(0) \o U1(0) \o Times(2, ObjField(0))
       \o U1(1) \o Method \o U1(0) \o Times(1, Method) \o Times(2, S4(1)) \o TypeIds),
    Shape("UNION", 0, U1(0) \o U1(1) \o S4(0) \o S4(0) \o Times(2, S4(1)) \o Times(1, S4(1))
       \o U1(1) \o S4(0) \o S4(0) \o Times(2, S4(0))),
    Shape("UNION", 0, U1(0) \o U1(0) \o Times(2, S4(1)) \o Times(0, S4(1)) \o U1(0)),
    Shape("TUPLE", 0, Times(2, S4(1)) \o Flag("hasRestType", 1) \o S4(1)),
    Shape("INTERSECTION", 0, Times(2, S4(1)) \o S4(1)),
    Shape("TABLE", 0, Constraint \o U1(1) \o Times(2, S4(0)) \o U1(0)),
    Shape("TABLE", 0, Constraint \o U1(0) \o U1(1) \o S4(1)),
    Shape("RECORD", 0, S4(0) \o S4(0) \o U1(1) \o S4(1) \o Times(2, ObjField(0))
       \o U1(1) \o Method \o Times(1, S4(1))),
    Shape("FINITE", 0, S4(0) \o S8 \o Times(2, S4(1) \o Bytes(3, "fin", ""))),
    Shape("NEVER", 0, <<>>)>>

\* The second field of the record has five bytes of documentation.
Documented ==
  <<Shape("RECORD", 0, S4(0) \o S4(0) \o U1(1) \o S4(1) \o S4(2) \o ObjField(0) \o ObjField(5)
       \o U1(0) \o Times(0, S4(1)))>>

-----------------------------------------------------------------------------
(* The pool of the modules.                                                *)

Strings == <<"", "f.bal", "main", "f", "g", "h", ".<init>2", "x", "y", "b", "r", "p", "q", "gv",
             "b0", "b1", "b2", "m", "a", "k">>
Ix(s) == (CHOOSE i \in DOMAIN Strings : Strings[i] = s) - 1
PackageIx == Len(Strings)
TypeTags == <<"INT", "NIL", "STRING", "BOOLEAN", "FLOAT", "BYTE", "ANY">>
TypeIx(t) == Len(Strings) + CHOOSE i \in DOMAIN TypeTags : TypeTags[i] = t
MapIx == Len(Strings) + Len(TypeTags) + 1
ArrayIx == MapIx + 1
fIx == MapIx + 2
gIx == MapIx + 3
LitIx(t) == MapIx + CASE t = "INT" -> 4 [] t = "BYTE" -> 5 [] t = "FLOAT" -> 6 [] OTHER -> 7

Entries ==
  [i \in DOMAIN Strings |-> Str(Strings[i])]
  \o <<Entry("PACKAGE", Named4("orgIndex", Ix("g")) \o Named4("nameIndex", Ix("f"))
             \o Named4("versionIndex", Ix("")))>>
  \o [i \in DOMAIN TypeTags |-> Shape(TypeTags[i], Ix("x"), <<>>)]
  \o <<Shape("MAP", 0, Named4("constraintTypeCpIndex", TypeIx("INT"))),
       Shape("ARRAY", 0, Flag("state", 1) \o Named4("size", 2)
             \o Named4("elementTypeCpIndex", TypeIx("INT"))),
       Invokable(<<TypeIx("INT"), TypeIx("STRING")>>, TypeIx("INT")),
       Invokable(<<>>, TypeIx("NIL")),
       Entry("INTEGER", <<W(8, "5", "value")>>), Entry("BYTE", Named4("value", "6")),
       Entry("FLOAT", <<W(8, "7.5", "value")>>), Entry("BOOLEAN", Flag("value", 1))>>

WordsOf(entries) ==
  S4(Len(entries))
  \o S!FlattenSeq([i \in DOMAIN entries |-> U1(entries[i].tag) \o entries[i].words])

-----------------------------------------------------------------------------
(* Functions.                                                              *)

V(kind, name, t) == [kind |-> kind, name |-> Ix(name), type |-> t]
X(name) == [kind |-> IF name = "gv" THEN "GLOBAL" ELSE "LOCAL", name |-> Ix(name)]
Xs(names) == [i \in DOMAIN names |-> X(names[i])]
I(kind, lhs, rhs) ==
  [kind |-> kind, lhs |-> <<X(lhs)>>, rhs |-> Xs(rhs), type |-> 0, value |-> 0, to |-> <<>>]
Const(lhs, t, v) == [I("const_load", lhs, <<>>) EXCEPT !.type = TypeIx(t), !.value = v]
Goto2(b) == [I("goto", "x", <<>>) EXCEPT !.lhs = <<>>, !.to = <<Ix(b)>>]
Ret == [I("return", "x", <<>>) EXCEPT !.lhs = <<>>]
CondBr(v, b, c) == [I("cond_br", v, <<>>) EXCEPT !.to = <<Ix(b), Ix(c)>>]
Call(lhs, g, args, b) == [I("call", lhs, args) EXCEPT !.value = Ix(g), !.to = <<Ix(b)>>]
Blk(name, insns) == [name |-> Ix(name), insns |-> insns]

Fun(name, flags, type, required, ret, defaults, locals, dflt, blocks) ==
  [file |-> Ix("f.bal"), name |-> Ix(name), worker |-> 0, flags |-> flags, type |-> type,
   required |-> [i \in DOMAIN required |-> Ix(required[i])],
   returnVar |-> <<V("RETURN", "r", TypeIx(ret))>>, defaults |-> defaults,
   locals |-> locals, defaultBlocks |-> dflt, blocks |-> blocks]

IntR == V("RETURN", "r", TypeIx("INT"))
NilR == V("RETURN", "r", TypeIx("NIL"))
f == Fun("f", 1, fIx, <<"p", "q">>, "INT", <<TypeIx("INT"), TypeIx("STRING")>>,
       <<IntR, V("ARG", "p", TypeIx("INT")), V("LOCAL", "b", TypeIx("BOOLEAN")),
         V("ARG", "q", TypeIx("STRING")), V("LOCAL", "x", TypeIx("INT"))>>,
       <<Blk("b0", <<Const("q", "STRING", Ix("h")), Ret>>), Blk("b1", <<Ret>>)>>,
       <<Blk("b0", <<Const("x", "INT", LitIx("INT")), I("lt", "b", <<"p", "x">>),
                     CondBr("b", "b1", "b2")>>),
         Blk("b1", <<I("sub", "p", <<"p", "x">>), Call("x", "f", <<"p", "q">>, "b2")>>),
         Blk("b2", <<I("move", "r", <<"x">>), Ret>>)>>)
g == Fun("g", 3, gIx, <<>>, "NIL", <<>>, <<>>, <<>>, <<>>)
h == Fun("h", 0, gIx, <<>>, "NIL", <<>>,
       <<NilR, V("LOCAL", "y", TypeIx("FLOAT")), V("LOCAL", "x", TypeIx("BYTE")),
         V("LOCAL", "b", TypeIx("BOOLEAN"))>>, <<>>,
       <<Blk("b1", <<I("new_typedesc", "k", <<>>), Const("y", "FLOAT", LitIx("FLOAT")),
                     Const("x", "BYTE", LitIx("BYTE")), Const("b", "BOOLEAN", 1),
                     I("not", "b", <<"b">>), Goto2("b0")>>),
         Blk("b0", <<Const("r", "NIL", 0), Ret>>)>>)
init == Fun(".<init>2", 0, gIx, <<>>, "NIL", <<>>, <<NilR>>, <<>>, <<Blk("b0", <<Ret>>)>>)
main == Fun("main", 1, gIx, <<>>, "NIL", <<>>,
          <<NilR, V("LOCAL", "m", MapIx), V("LOCAL", "a", ArrayIx),
            V("LOCAL", "k", TypeIx("STRING")), V("LOCAL", "x", TypeIx("INT"))>>, <<>>,
          <<Blk("b0", <<I("new_structure", "m", <<"k", "x">>), I("map_store", "m", <<"k", "x">>),
                        I("map_load", "x", <<"k", "m">>), I("new_array", "a", <<"x", "x">>),
                        I("array_store", "a", <<"x", "x">>), I("array_load", "x", <<"x", "a">>),
                        I("type_cast", "gv", <<"x">>), Goto2("b1")>>),
            Blk("b1", <<Call("r", "g", <<>>, "b2")>>),
            Blk("b2", <<Const("r", "NIL", 0), Ret>>)>>)

\* A function of one instruction, and what the compiler does not support: two
\* that cannot be read, and those there is no code for.
Ending(insn) ==
  Fun("h", 0, gIx, <<>>, "NIL", <<>>,
      <<NilR, V("LOCAL", "m", MapIx), V("LOCAL", "a", ArrayIx), V("LOCAL", "k", TypeIx("STRING")),
        V("LOCAL", "x", TypeIx("INT")), V("LOCAL", "b", TypeIx("BOOLEAN"))>>,
      <<>>, <<Blk("b0", <<insn, Ret>>)>>)
UnsupportedInsns ==
  [new_error |-> I("new_error", "r", <<>>),
   const_load |-> [Const("r", "INT", 0) EXCEPT !.type = MapIx],
   type_test |-> I("type_test", "b", <<"gv">>), new_structure |-> I("new_structure", "a", <<>>),
   map_store |-> I("map_store", "x", <<"k", "x">>), map_load |-> I("map_load", "x", <<"k", "x">>),
   new_array |-> I("new_array", "x", <<"x">>), array_load |-> I("array_load", "m", <<"x", "a">>),
   array_store |-> I("array_store", "a", <<"x", "m">>),
   type_cast |-> I("type_cast", "k", <<"gv">>), add |-> I("add", "x", <<"b", "b">>),
   lt |-> I("lt", "b", <<"k", "k">>), eq |-> I("eq", "b", <<"k", "k">>)]

\* Main without a return variable, with and without a nil for it.
FunctionOfNil(name, blocks) ==
  [Fun(name, 1, gIx, <<>>, "NIL", <<>>, <<NilR>>, <<>>, blocks) EXCEPT !.returnVar = <<>>]
NeverIx == Len(Entries)
FunOf(name) ==
  CASE name = "f" -> f [] name = "g" -> g [] name = "h" -> h
    [] name = "init" -> init [] name = "main" -> main
    [] name = "param" -> [f EXCEPT !.defaults[2] = NeverIx]
    [] name = "result" -> [h EXCEPT !.returnVar[1].type = NeverIx]
    [] name = "local" -> [h EXCEPT !.locals[2].type = NeverIx]
    [] name = "nil" -> FunctionOfNil("main", <<Blk("b0", <<Const("r", "NIL", 0), Ret>>)>>)
    [] name = "no nil" -> FunctionOfNil("main", <<Blk("b0", <<Ret>>)>>)
    [] OTHER -> Ending(UnsupportedInsns[name])

Orders == {s \in UNION {[1 .. l -> {"f", "g", "h", "init", "main"}] : l \in 0 .. 3} :
             /\ \A a, b \in DOMAIN s : s[a] = s[b] => a = b
             /\ S!Contains(s, "main") => S!Contains(s, "g")}
AttachedOrders == {<<>>, <<"f">>, <<"h", "init">>}

ModuleOf(id, type, attached, order) ==
  [id |-> id, globals |-> <<V("GLOBAL", "gv", type)>>,
   attached |-> [i \in DOMAIN attached |-> FunOf(attached[i])],
   functions |-> [i \in DOMAIN order |-> FunOf(order[i])]]
File(entries, module) == [entries |-> entries, module |-> module, words |-> WordsOf(entries)]

\* What a file has in its pool besides Entries.
Extra(what) == CASE what = "shapes" -> Shapes
                 [] what = "documented" -> Documented
                 [] what = "reference" -> <<Shape("TYPEREFDESC", 0, <<>>)>>
                 [] what \in {"never", "never global"} -> <<Shape("NEVER", 0, <<>>)>>
                 [] OTHER -> <<>>

\* A file with the functions of its types, its own, and what is special about it.
FileOf(attached, order, what) ==
  File(Entries \o Extra(what),
       ModuleOf(IF what = "no package" THEN 0 ELSE PackageIx,
                IF what = "never global" THEN NeverIx ELSE TypeIx("ANY"), attached, order))
AllFiles ==
  {FileOf(x[1], x[2], x[3]) :
     x \in (AttachedOrders \X Orders \X {""})
           \cup {<<<<>>, <<"f">>, "shapes">>, <<<<>>, <<>>, "reference">>,
                 <<<<>>, <<"h">>, "no package">>, <<<<>>, <<"nil">>, "">>,
                 <<<<>>, <<"no nil">>, "">>, <<<<>>, <<"f">>, "never global">>,
                 <<<<"type_test">>, <<"h">>, "">>}
           \cup ({<<>>} \X {<<name>> : name \in {"param", "result", "local"}} \X {"never"})
           \cup ({<<>>} \X {<<kind>> : kind \in DOMAIN UnsupportedInsns} \X {""})}
DocumentedFiles == {FileOf(<<>>, <<"f">>, "documented")}
=============================================================================
