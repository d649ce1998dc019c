----------------------------- MODULE CodeProof -----------------------------
(***************************************************************************)
(* The LLVM module is what the file says, for every well-formed file: the  *)
(* package is the file's module, item by item, and the code generator      *)
(* finds whatever it looks up there.                                       *)
(***************************************************************************)
EXTENDS CompilerProof, FiniteSetTheorems, WellFoundedInduction

-----------------------------------------------------------------------------
(* The package while it is read.                                           *)

UpTo(P, m) == {i \in P : i <= m}
Prefix(s, m) == [i \in 1 .. m |-> s[i]]

AllNamed(vs) == [i \in DOMAIN vs |-> Named(vs[i])]
Returned(t) == IF t.returnVar = <<>> THEN <<>> ELSE <<Named(t.returnVar[1])>>
ParamsOf(t) == [i \in DOMAIN t.defaults |-> [name |-> String(t.required[i]),
                                           type |-> TypeOfIndex(t.defaults[i])]]

\* x was read for i, into whatever block.
InsnAt(i, a) ==
  [kind |-> i.kind, bb |-> a, lhs |-> IF i.lhs = <<>> THEN NoOperand ELSE OperandOf(i.lhs[1]),
   rhs |-> Operands(Built(i)),
   literal |-> IF i.kind = "const_load" THEN Literal(getTypeTag(pool, i.type), i.value) ELSE "none",
   to |-> [b \in DOMAIN i.to |-> String(i.to[b])],
   callee |-> IF i.kind = "call" THEN String(i.value) ELSE ""]
Means(x, i) == x = InsnAt(i, x.bb)

PlainAt(b) == {i \in DOMAIN b.insns : b.insns[i].kind \notin Terminators \cup {"new_typedesc"}}
EndsAt(b) == {i \in DOMAIN b.insns : b.insns[i].kind \in Terminators}

\* x has the first m instructions of b; of several terminators the last.
BlockRead(x, b, m) ==
  LET plain == Selected(b.insns, UpTo(PlainAt(b), m))
      ends == UpTo(EndsAt(b), m)
  IN  /\ x.id = String(b.name)
      /\ DOMAIN x.insns = DOMAIN plain
      /\ \A r \in DOMAIN plain : Means(x.insns[r], plain[r])
      /\ ends = {} => x.terminator = <<>>
      /\ \A i \in ends : (\A h \in ends : h <= i) =>
           \E y : x.terminator = <<y>> /\ Means(y, b.insns[i])
WholeBlock(x, b) == BlockRead(x, b, Len(b.insns))

FunctionRead(f, t) ==
  /\ f.name = String(t.name) /\ f.flags = t.flags
  /\ f.returnVar = Returned(t) /\ f.params = ParamsOf(t) /\ f.locals = AllNamed(t.locals)
  /\ f.blocks.len = Len(t.blocks)
  /\ \A b \in 1 .. Len(t.blocks) : WholeBlock(f.blocks.items[b], t.blocks[b])

\* The function that is being read, as far as it is read.
FunctionPart(f, t) ==
  /\ f.name = String(t.name) /\ f.flags = t.flags
  /\ at \in {"params", "return"} => f.returnVar = <<>>
  /\ at \notin {"params", "return"} => f.returnVar = Returned(t)
  /\ at \notin {"params", "return", "defaults"} => f.params = ParamsOf(t)
  /\ at \in {"params", "return", "defaults"} => f.locals = <<>>
  /\ at = "locals" => k <= Len(t.locals) /\ f.locals = Prefix(AllNamed(t.locals), k)
  /\ at \notin {"params", "return", "defaults", "locals"} => f.locals = AllNamed(t.locals)
  /\ at \in {"blocks", "insns"} =>
       \A b \in 1 .. k : WholeBlock(f.blocks.items[b], t.blocks[b])
  /\ at = "insns" => /\ j \in 0 .. Len(t.blocks[k + 1].insns)
                     /\ BlockRead(f.blocks.items[k + 1], t.blocks[k + 1], j)

\* How many of Module.functions were read, and those of them that are kept.
DoneOf(d) == IF d <= Attached THEN 0 ELSE d - Attached
Read == DoneOf(IF at \in InFunction THEN n - 1 ELSE n)
KeptTo(m) == Selected(Module.functions, UpTo(KeptAt, m))

GlobalsRead ==
  /\ at = "package" => globals = <<>>
  /\ at = "globals" => /\ k <= Len(Module.globals)
                       /\ globals = Prefix(AllNamed(Module.globals), k)
  /\ at \notin {"package", "globals"} => globals = AllNamed(Module.globals)
FunctionsRead ==
  /\ functions.len = Len(KeptTo(Read)) + (IF at \in InFunction THEN 1 ELSE 0)
  /\ \A r \in 1 .. Len(KeptTo(Read)) : FunctionRead(functions.items[r], KeptTo(Read)[r])
  /\ at \in InFunction => FunctionPart(Function, Text)

\* No two functions have their blocks in the same buffer.
BuffersApart ==
  /\ fresh \in Nat
  /\ \A f \in 1 .. functions.len :
       LET bs == functions.items[f].blocks
       IN  bs.buf \in 0 .. fresh /\ (bs.buf = 0 => bs.len = 0 /\ bs.cap = 0)
  /\ \A f, g \in 1 .. functions.len :
       functions.items[f].blocks.buf = functions.items[g].blocks.buf =>
         f = g \/ functions.items[f].blocks.buf = 0

PackageInv ==
  /\ BuffersApart
  /\ phase = "pool" => globals = <<>>
  /\ phase = "module" => GlobalsRead /\ FunctionsRead
  /\ phase \in {"code", "done"} =>
       /\ globals = AllNamed(Module.globals) /\ functions.len = Len(Kept)
       /\ \A r \in 1 .. Len(Kept) : FunctionRead(functions.items[r], Kept[r])

-----------------------------------------------------------------------------
(* The LLVM module while it is made.                                       *)

GlobalsOf == [i \in DOMAIN Module.globals |-> [name |-> String(Module.globals[i].name),
                                             type |-> TypeAt(Module.globals[i].type)]]
DeclarationOf(t) == With(t, <<>>, <<>>, Null, <<>>)
Declarations == [r \in DOMAIN Kept |-> DeclarationOf(Kept[r])]

\* The code of the first m instructions of b, and b when they are translated.
ItemsOf(s) == [r \in DOMAIN s |-> ItemOf(s[r])]
PlainItems(t, b, m) == LET plain == Selected(b.insns, PlainAt(b))
                       IN  ItemsOf(Selected(plain, UpTo(CodeAt(t, plain), m)))
BlockPart(t, b, m) == [id |-> String(b.name), code |-> PlainItems(t, b, m), ends |-> <<>>]
EmptyBlocks(t) == [b \in DOMAIN t.blocks |-> BlockPart(t, t.blocks[b], 0)]

\* t when its first p blocks are translated and of the next m instructions.
BlocksPart(t, p, m) ==
  [b \in DOMAIN t.blocks |-> IF b <= p THEN BlockCode(t, t.blocks[b])
                             ELSE BlockPart(t, t.blocks[b], IF b = p + 1 THEN m ELSE 0)]

\* t when it is translated as far as the counters say, at each place.
PartAt(t, place, p, m) ==
  CASE place = "allocas" -> With(t, Prefix(Allocas(t), p), Stored(t, UpTo(ArgsAt(t), p)), Null, <<>>)
    [] place = "create" -> With(t, Allocas(t), Stored(t, ArgsAt(t)), Null, Prefix(EmptyBlocks(t), p))
    [] place = "visit" -> With(t, Allocas(t), Stored(t, ArgsAt(t)), <<1>>, BlocksPart(t, p, m))
    [] OTHER -> Translated(t)

\* The functions when the first f are translated, but for the last of them.
CodeUpTo(u, place, p, m) ==
  [r \in DOMAIN Kept |-> IF r < u THEN Translated(Kept[r])
                         ELSE IF r = u THEN PartAt(Kept[r], place, p, m)
                         ELSE DeclarationOf(Kept[r])]

InBody == {"allocas", "create", "visit"}
CountersFit ==
  /\ at \in {"globals", "declare"} => n = 0
  /\ at = "globals" => k \in 0 .. Len(Module.globals)
  /\ at = "declare" => k \in 0 .. Len(Kept)
  /\ at = "bodies" => n \in 0 .. Len(Kept)
  /\ at \in InBody => n \in 1 .. Len(Kept) /\ current = n /\ ~IsNative(Kept[n])
  /\ at = "allocas" => k \in 0 .. Len(Kept[n].locals)
  /\ at \in {"create", "visit"} => k \in 0 .. Len(Kept[n].blocks)
  /\ at = "visit" => j \in Nat
  /\ at = "visit" /\ k < Len(Kept[n].blocks) =>
       j <= Cardinality(PlainAt(Kept[n].blocks[k + 1]))
CodeFits ==
  /\ at \in {"globals", "declare", "bodies"} \cup InBody
  /\ at = "globals" => llvmGlobals = Prefix(GlobalsOf, k) /\ llvmFunctions = <<>>
  /\ at # "globals" => llvmGlobals = GlobalsOf
  /\ at = "declare" => llvmFunctions = Prefix(Declarations, k)
  /\ at \in {"bodies"} \cup InBody => llvmFunctions = CodeUpTo(n, at, k, j)
CodeInv ==
  /\ phase \in {"pool", "module"} => llvmGlobals = <<>> /\ llvmFunctions = <<>>
  /\ phase = "code" => CountersFit /\ CodeFits
  /\ NothingIsMissing /\ CodeIsTheProgram

-----------------------------------------------------------------------------
(* Facts about sequences, and the items of one that are selected.          *)

LEMMA FunctionIsSeq ==
  ASSUME NEW m \in Nat, NEW q, q = [i \in 1 .. m |-> q[i]]
  PROVE  IsSeq(q) /\ Len(q) = m
<1> DEFINE S == {q[i] : i \in DOMAIN q}
<1>1. DOMAIN q = 1 .. m /\ q \in [1 .. m -> S]
  OBVIOUS
<1>2. q \in Seq(S) /\ Len(q) = m
  BY <1>1
<1> QED BY <1>2 DEF IsSeq

LEMMA SeqIsFunction ==
  ASSUME NEW q, IsSeq(q)
  PROVE  q = [i \in 1 .. Len(q) |-> q[i]] /\ Len(q) \in Nat /\ DOMAIN q = 1 .. Len(q)
BY DEF IsSeq

\* Two sequences that are equal item by item.
LEMMA SameItems ==
  ASSUME NEW p, IsSeq(p), NEW q, IsSeq(q), DOMAIN p = DOMAIN q, \A i \in DOMAIN p : p[i] = q[i]
  PROVE  p = q
BY SeqIsFunction

LEMMA PrefixFacts ==
  ASSUME NEW q, NEW m \in Nat
  PROVE  /\ IsSeq(Prefix(q, m)) /\ Len(Prefix(q, m)) = m
         /\ Prefix(q, 0) = <<>>
         /\ Append(Prefix(q, m), q[m + 1]) = Prefix(q, m + 1)
<1>1. IsSeq(Prefix(q, m)) /\ Len(Prefix(q, m)) = m
  BY FunctionIsSeq DEF Prefix
<1>2. IsSeq(Prefix(q, m + 1)) /\ Len(Prefix(q, m + 1)) = m + 1
  BY FunctionIsSeq DEF Prefix
<1>3. Prefix(q, 0) = <<>>
  BY DEF Prefix
<1>4. Append(Prefix(q, m), q[m + 1]) = Prefix(q, m + 1)
  <2> DEFINE p == Append(Prefix(q, m), q[m + 1])
  <2>1. /\ IsSeq(p) /\ Len(p) = m + 1 /\ p[m + 1] = q[m + 1]
        /\ \A i \in 1 .. m : p[i] = Prefix(q, m)[i]
    BY <1>1, AppendFacts
  <2>2. DOMAIN p = 1 .. m + 1 /\ DOMAIN Prefix(q, m + 1) = 1 .. m + 1
    BY <1>2, <2>1, SeqFacts
  <2> HIDE DEF p
  <2>3. \A i \in 1 .. m + 1 : p[i] = Prefix(q, m + 1)[i]
    BY <2>1 DEF Prefix
  <2>4. p = Prefix(q, m + 1)
    BY <1>2, <2>1, <2>2, <2>3, SameItems
  <2> QED BY <2>4 DEF p
<1> QED BY <1>1, <1>3, <1>4

LEMMA WholePrefix ==
  ASSUME NEW q, IsSeq(q)
  PROVE  Prefix(q, Len(q)) = q
BY SeqIsFunction DEF Prefix

LEMMA UpToFacts ==
  ASSUME NEW m \in Nat, NEW P \in SUBSET (Nat \ {0})
  PROVE  /\ UpTo(P, 0) = {}
         /\ UpTo(P, m) \in SUBSET (1 .. m)
         /\ m + 1 \in P => UpTo(P, m + 1) = UpTo(P, m) \cup {m + 1}
         /\ m + 1 \notin P => UpTo(P, m + 1) = UpTo(P, m)
         /\ P \subseteq 1 .. m => UpTo(P, m) = P
<1>0. /\ \A i \in P : i \in Nat /\ i # 0
      /\ \A h, i : i \in UpTo(P, h) <=> i \in P /\ i <= h
  BY DEF UpTo
<1>1. UpTo(P, 0) = {}
  <2>1. \A i \in P : ~(i <= 0)
    BY <1>0
  <2> QED BY <1>0, <2>1, Zenon
<1>2. UpTo(P, m) \in SUBSET (1 .. m)
  <2>1. \A i \in P : i <= m => i \in 1 .. m
    BY <1>0
  <2> QED BY <1>0, <2>1, Zenon
<1>3. \A i \in P : i <= m + 1 <=> i <= m \/ i = m + 1
  BY <1>0
<1>4. m + 1 \in P => UpTo(P, m + 1) = UpTo(P, m) \cup {m + 1}
  BY <1>0, <1>3, Zenon
<1>5. m + 1 \notin P => UpTo(P, m + 1) = UpTo(P, m)
  BY <1>0, <1>3, Zenon
<1>6. P \subseteq 1 .. m => UpTo(P, m) = P
  <2>1. \A i \in 1 .. m : i <= m
    OBVIOUS
  <2> QED BY <1>0, <2>1, Zenon
<1> QED BY <1>1, <1>2, <1>4, <1>5, <1>6

LEMMA PlacesAreFinite ==
  ASSUME NEW m \in Nat, NEW P \in SUBSET (1 .. m)
  PROVE  IsFiniteSet(P) /\ Cardinality(P) \in Nat /\ Cardinality(P) <= m
<1>1. IsFiniteSet(1 .. m) /\ Cardinality(1 .. m) = IF 1 > m THEN 0 ELSE m - 1 + 1
  BY FS_Interval
<1>2. IsFiniteSet(P) /\ Cardinality(P) <= Cardinality(1 .. m)
  BY <1>1, FS_Subset
<1>3. Cardinality(P) \in Nat
  BY <1>2, FS_CardinalityType
<1> QED BY <1>1, <1>2, <1>3

\* A place behind all others is the last of them, and the others keep their rank.
LEMMA NthOfMore ==
  ASSUME NEW m \in Nat, NEW P \in SUBSET (1 .. m)
  PROVE  /\ Cardinality(P \cup {m + 1}) = Cardinality(P) + 1
         /\ NthOf(P \cup {m + 1}, Cardinality(P) + 1) = m + 1
         /\ \A r \in 1 .. Cardinality(P) :
              NthOf(P, r) \in P => NthOf(P \cup {m + 1}, r) = NthOf(P, r)
<1> DEFINE Q == P \cup {m + 1}
           c == Cardinality(P)
<1>1. IsFiniteSet(P) /\ c \in Nat
  BY PlacesAreFinite
<1>2. Cardinality(Q) = c + 1
  <2>1. m + 1 \notin P
    OBVIOUS
  <2> QED BY <1>1, <2>1, FS_AddElement
<1>3. Rank(Q, m + 1) = c + 1
  <2>1. \A h \in Q : h <= m + 1
    OBVIOUS
  <2>2. {h \in Q : h <= m + 1} = Q
    BY <2>1, Zenon
  <2> QED BY <1>2, <2>2 DEF Rank
<1>4. ASSUME NEW i \in P
      PROVE  Rank(Q, i) = Rank(P, i) /\ Rank(P, i) \in Nat /\ Rank(P, i) <= c
  <2> DEFINE H == {h \in P : h <= i}
  <2>1. {h \in Q : h <= i} = H /\ H \in SUBSET P
    OBVIOUS
  <2>2. IsFiniteSet(H) /\ Cardinality(H) <= c
    BY <1>1, <2>1, FS_Subset
  <2>3. Cardinality(H) \in Nat
    BY <2>2, FS_CardinalityType
  <2> QED BY <2>1, <2>2, <2>3 DEF Rank
<1> HIDE DEF c
<1>5. NthOf(Q, c + 1) = m + 1
  <2>1. \A i \in Q : Rank(Q, i) = c + 1 <=> i = m + 1
    BY <1>1, <1>3, <1>4
  <2>2. m + 1 \in Q
    OBVIOUS
  <2> QED BY <2>1, <2>2 DEF NthOf
<1>6. ASSUME NEW r \in 1 .. c, NthOf(P, r) \in P
      PROVE  NthOf(Q, r) = NthOf(P, r)
  <2>1. \A i : i \in Q /\ Rank(Q, i) = r <=> i \in P /\ Rank(P, i) = r
    <3>1. r # c + 1
      BY <1>1
    <3> QED BY <1>3, <1>4, <3>1
  <2>2. (CHOOSE i : i \in Q /\ Rank(Q, i) = r) = CHOOSE i : i \in P /\ Rank(P, i) = r
    BY <2>1
  <2> QED BY <2>2 DEF NthOf
<1> QED BY <1>2, <1>5, <1>6 DEF c

LEMMA LeastNumber ==
  ASSUME NEW S \in SUBSET Nat, S # {}
  PROVE  \E x \in S : \A y \in S : x <= y
<1> DEFINE R == OpToRel(<, Nat)
<1>1. IsWellFoundedOn(R, Nat)
  BY NatLessThanWellFounded
<1>2. \A a, b \in Nat : <<a, b>> \in R <=> a < b
  BY DEF OpToRel
<1> HIDE DEF R
<1>3. PICK x \in S : \A y \in S : ~ (<<y, x>> \in R)
  BY <1>1, WFMin
<1>4. \A y \in S : ~(y < x)
  BY <1>2, <1>3
<1> QED BY <1>4

\* Whatever is selected was there: the smallest set of places to fail would
\* have a largest element, and fail without it.
LEMMA NthIsThere ==
  ASSUME NEW m \in Nat, NEW P \in SUBSET (1 .. m), NEW r \in 1 .. Cardinality(P)
  PROVE  NthOf(P, r) \in P
<1> DEFINE Fails(x) == \E Q \in SUBSET (1 .. x) : \E q \in 1 .. Cardinality(Q) : NthOf(Q, q) \notin Q
           Bad == {x \in Nat : Fails(x)}
<1> SUFFICES ASSUME NthOf(P, r) \notin P PROVE FALSE
  OBVIOUS
<1>1. m \in Bad
  OBVIOUS
<1>2. PICK x \in Bad : \A y \in Bad : x <= y
  BY <1>1, LeastNumber
<1>3. x \in Nat /\ \A y \in Nat : y < x => ~Fails(y)
  BY <1>2
<1>4. PICK Q \in SUBSET (1 .. x) : \E q \in 1 .. Cardinality(Q) : NthOf(Q, q) \notin Q
  BY <1>2
<1>5. PICK q \in 1 .. Cardinality(Q) : NthOf(Q, q) \notin Q
  BY <1>4
<1> HIDE DEF Bad
<1>6. CASE x = 0
  <2>1. Q = {}
    BY <1>6
  <2> QED BY <1>5, <2>1, FS_EmptySet
<1>7. CASE x # 0
  <2> DEFINE y == x - 1
             Q0 == Q \ {x}
  <2>1. y \in Nat /\ y < x /\ y + 1 = x /\ Q0 \in SUBSET (1 .. y)
    BY <1>3, <1>7
  <2>2. \A p \in 1 .. Cardinality(Q0) : NthOf(Q0, p) \in Q0
    BY <1>3, <2>1
  <2>3. x \in Q
    <3>1. x \notin Q => Q = Q0
      OBVIOUS
    <3> QED BY <1>5, <2>2, <3>1
  <2>4. Q = Q0 \cup {y + 1}
    BY <2>1, <2>3
  <2> HIDE DEF y, Q0
  <2>5. Cardinality(Q0) \in Nat
    BY <2>1, PlacesAreFinite
  <2>6. /\ Cardinality(Q) = Cardinality(Q0) + 1
        /\ NthOf(Q, Cardinality(Q0) + 1) = y + 1
        /\ \A p \in 1 .. Cardinality(Q0) : NthOf(Q, p) = NthOf(Q0, p)
    BY <2>1, <2>2, <2>4, NthOfMore
  <2>7. CASE q = Cardinality(Q0) + 1
    BY <1>5, <2>1, <2>3, <2>6, <2>7
  <2>8. CASE q # Cardinality(Q0) + 1
    <3>1. q \in 1 .. Cardinality(Q0)
      BY <2>5, <2>6, <2>8
    <3>2. NthOf(Q, q) \in Q0
      BY <2>2, <2>6, <3>1
    <3> QED BY <1>5, <2>4, <3>2
  <2> QED BY <2>7, <2>8
<1> QED BY <1>6, <1>7

LEMMA SelectedIsSeq ==
  ASSUME NEW s, NEW P, Cardinality(P) \in Nat
  PROVE  /\ IsSeq(Selected(s, P)) /\ Len(Selected(s, P)) = Cardinality(P)
         /\ DOMAIN Selected(s, P) = 1 .. Cardinality(P)
         /\ \A r \in 1 .. Cardinality(P) : Selected(s, P)[r] = s[NthOf(P, r)]
<1> DEFINE q == Selected(s, P)
<1>1. /\ q = [r \in 1 .. Cardinality(P) |-> q[r]]
      /\ \A r \in 1 .. Cardinality(P) : q[r] = s[NthOf(P, r)]
  BY DEF Selected
<1> HIDE DEF q
<1>2. IsSeq(q) /\ Len(q) = Cardinality(P)
  BY <1>1, FunctionIsSeq
<1>3. DOMAIN q = 1 .. Cardinality(P)
  BY <1>1
<1> QED BY <1>1, <1>2, <1>3 DEF q

LEMMA NothingSelected == \A s : Selected(s, {}) = <<>>
BY FS_EmptySet DEF Selected

\* What is selected, and what a place behind the others adds to it.
LEMMA SelectedFacts ==
  ASSUME NEW s, NEW m \in Nat, NEW P \in SUBSET (1 .. m)
  PROVE  /\ Cardinality(P) \in Nat
         /\ IsSeq(Selected(s, P)) /\ Len(Selected(s, P)) = Cardinality(P)
         /\ DOMAIN Selected(s, P) = 1 .. Cardinality(P)
         /\ \A r \in 1 .. Cardinality(P) : \E i \in P : Selected(s, P)[r] = s[i]
         /\ Cardinality(P \cup {m + 1}) = Cardinality(P) + 1
         /\ Selected(s, P \cup {m + 1}) = Append(Selected(s, P), s[m + 1])
<1> DEFINE c == Cardinality(P)
           Q == P \cup {m + 1}
           p == Selected(s, P)
           q == Selected(s, Q)
<1>1. c \in Nat
  BY PlacesAreFinite
<1>2. /\ IsSeq(p) /\ Len(p) = c /\ DOMAIN p = 1 .. c
      /\ \A r \in 1 .. c : p[r] = s[NthOf(P, r)]
  BY <1>1, SelectedIsSeq
<1>3. \A r \in 1 .. c : NthOf(P, r) \in P
  BY NthIsThere
<1>5. /\ Cardinality(Q) = c + 1 /\ NthOf(Q, c + 1) = m + 1
      /\ \A r \in 1 .. c : NthOf(Q, r) = NthOf(P, r)
  BY <1>3, NthOfMore
<1>6. /\ IsSeq(q) /\ Len(q) = c + 1 /\ DOMAIN q = 1 .. c + 1
      /\ \A r \in 1 .. c + 1 : q[r] = s[NthOf(Q, r)]
  <2>1. Cardinality(Q) \in Nat
    BY <1>1, <1>5
  <2>2. /\ IsSeq(q) /\ Len(q) = Cardinality(Q) /\ DOMAIN q = 1 .. Cardinality(Q)
        /\ \A r \in 1 .. Cardinality(Q) : q[r] = s[NthOf(Q, r)]
    BY <2>1, SelectedIsSeq
  <2> HIDE DEF Q, q, c
  <2> QED BY <1>5, <2>2
<1> DEFINE a == Append(p, s[m + 1])
<1>7. /\ IsSeq(a) /\ Len(a) = c + 1 /\ a[c + 1] = s[m + 1]
      /\ \A r \in 1 .. c : a[r] = p[r]
  BY <1>2, AppendFacts
<1>8. DOMAIN a = 1 .. c + 1
  BY <1>7, SeqFacts
<1> HIDE DEF c, Q, p, q, a
<1>9. \A r \in 1 .. c + 1 : q[r] = a[r]
  BY <1>1, <1>2, <1>5, <1>6, <1>7
<1>10. q = a
  BY <1>6, <1>7, <1>8, <1>9, SameItems
<1> QED BY <1>1, <1>2, <1>3, <1>5, <1>10 DEF c, Q, p, q, a

\* One place more or none, of those up to m.
LEMMA SelectedStep ==
  ASSUME NEW s, NEW m \in Nat, NEW P \in SUBSET (Nat \ {0})
  PROVE  /\ Selected(s, UpTo(P, 0)) = <<>>
         /\ m + 1 \in P =>
              /\ Selected(s, UpTo(P, m + 1)) = Append(Selected(s, UpTo(P, m)), s[m + 1])
              /\ Cardinality(UpTo(P, m + 1)) = Cardinality(UpTo(P, m)) + 1
         /\ m + 1 \notin P => UpTo(P, m + 1) = UpTo(P, m)
         /\ Cardinality(UpTo(P, m)) \in Nat
         /\ IsSeq(Selected(s, UpTo(P, m)))
         /\ Len(Selected(s, UpTo(P, m))) = Cardinality(UpTo(P, m))
         /\ DOMAIN Selected(s, UpTo(P, m)) = 1 .. Cardinality(UpTo(P, m))
<1>1. /\ UpTo(P, 0) = {} /\ UpTo(P, m) \in SUBSET (1 .. m)
      /\ m + 1 \in P => UpTo(P, m + 1) = UpTo(P, m) \cup {m + 1}
      /\ m + 1 \notin P => UpTo(P, m + 1) = UpTo(P, m)
  BY UpToFacts
<1> DEFINE Q == UpTo(P, m)
<1>0. Q \in SUBSET (1 .. m)
  BY <1>1
<1> HIDE DEF Q
<1>2. /\ Cardinality(Q) \in Nat /\ IsSeq(Selected(s, Q))
      /\ Len(Selected(s, Q)) = Cardinality(Q) /\ DOMAIN Selected(s, Q) = 1 .. Cardinality(Q)
      /\ Cardinality(Q \cup {m + 1}) = Cardinality(Q) + 1
      /\ Selected(s, Q \cup {m + 1}) = Append(Selected(s, Q), s[m + 1])
  BY <1>0, SelectedFacts
<1>3. CASE m + 1 \in P
  <2>1. UpTo(P, m + 1) = Q \cup {m + 1}
    BY <1>1, <1>3 DEF Q
  <2> QED BY <1>1, <1>2, <1>3, <2>1, NothingSelected DEF Q
<1>4. CASE m + 1 \notin P
  <2>1. UpTo(P, m + 1) = Q
    BY <1>1, <1>4 DEF Q
  <2> QED BY <1>1, <1>2, <1>4, <2>1, NothingSelected DEF Q
<1> QED BY <1>3, <1>4

-----------------------------------------------------------------------------
(* What was read stays what it was.                                        *)

LEMMA SameProgram ==
  ASSUME file' = file, pool' = pool
  PROVE  /\ Module' = Module /\ KeptAt' = KeptAt /\ Kept' = Kept
         /\ \A m : KeptTo(m)' = KeptTo(m)
         /\ \A v : AllNamed(v)' = AllNamed(v)
         /\ \A t : Returned(t)' = Returned(t)
         /\ \A t : ParamsOf(t)' = ParamsOf(t)
         /\ \A x, b, m : BlockRead(x, b, m)' = BlockRead(x, b, m)
         /\ \A x, b : WholeBlock(x, b)' = WholeBlock(x, b)
         /\ \A f, t : FunctionRead(f, t)' = FunctionRead(f, t)
<1>1. /\ \A x : String(x)' = String(x)
      /\ \A x : TypeOfIndex(x)' = TypeOfIndex(x)
  BY SameText
<1>2. \A v : Named(v)' = Named(v)
  BY <1>1 DEF Named
<1>3. Module' = Module
  BY DEF Module
<1>4. KeptAt' = KeptAt
  BY <1>1, <1>3 DEF KeptAt
<1>5. Kept' = Kept /\ \A m : KeptTo(m)' = KeptTo(m)
  BY <1>3, <1>4 DEF Kept, KeptTo
<1>6. /\ \A v : AllNamed(v)' = AllNamed(v)
      /\ \A t : Returned(t)' = Returned(t)
      /\ \A t : ParamsOf(t)' = ParamsOf(t)
  BY <1>1, <1>2 DEF AllNamed, Returned, ParamsOf
<1>7. \A x, i : Means(x, i)' = Means(x, i)
  <2>1. \A t, v : Literal(t, v)' = Literal(t, v)
    BY <1>1 DEF Literal
  <2>2. \A o : OperandOf(o)' = OperandOf(o)
    BY <1>1 DEF OperandOf
  <2>3. \A i, a : InsnAt(i, a)' = InsnAt(i, a)
    BY <1>1, <2>1, <2>2 DEF InsnAt, Operands
  <2> QED BY <2>3 DEF Means
<1>8. \A x, b, m : BlockRead(x, b, m)' = BlockRead(x, b, m)
  BY <1>1, <1>7 DEF BlockRead
<1>9. \A x, b : WholeBlock(x, b)' = WholeBlock(x, b)
  BY <1>8 DEF WholeBlock
<1>10. \A f, t : FunctionRead(f, t)' = FunctionRead(f, t)
  BY <1>1, <1>6, <1>9 DEF FunctionRead
<1> QED BY <1>3, <1>4, <1>5, <1>6, <1>8, <1>9, <1>10

-----------------------------------------------------------------------------
(* Blocks.                                                                 *)

LEMMA PlacesOfInsns ==
  ASSUME NEW b, IsSeq(b.insns)
  PROVE  /\ Len(b.insns) \in Nat /\ DOMAIN b.insns = 1 .. Len(b.insns)
         /\ PlainAt(b) \in SUBSET (1 .. Len(b.insns)) /\ EndsAt(b) \in SUBSET (1 .. Len(b.insns))
         /\ PlainAt(b) \in SUBSET (Nat \ {0}) /\ EndsAt(b) \in SUBSET (Nat \ {0})
<1>1. Len(b.insns) \in Nat /\ DOMAIN b.insns = 1 .. Len(b.insns)
  BY SeqFacts
<1>2. /\ PlainAt(b) \in SUBSET (1 .. Len(b.insns)) /\ EndsAt(b) \in SUBSET (1 .. Len(b.insns))
  BY <1>1 DEF PlainAt, EndsAt
<1>3. \A l \in Nat : 1 .. l \in SUBSET (Nat \ {0})
  OBVIOUS
<1> QED BY <1>1, <1>2, <1>3

\* readBasicBlock: before its first instruction.
LEMMA NothingRead ==
  ASSUME NEW b, IsSeq(b.insns), NEW x,
         x.id = String(b.name), x.insns = <<>>, x.terminator = <<>>
  PROVE  BlockRead(x, b, 0)
<1>1. UpTo(PlainAt(b), 0) = {} /\ UpTo(EndsAt(b), 0) = {}
  BY PlacesOfInsns, UpToFacts
<1>2. DOMAIN <<>> = {}
  OBVIOUS
<1> QED BY <1>1, <1>2, NothingSelected DEF BlockRead

\* readInsn: the next instruction goes where its kind says.
LEMMA OneMoreRead ==
  ASSUME NEW b, IsSeq(b.insns), NEW m \in Nat, m < Len(b.insns),
         NEW x, BlockRead(x, b, m), IsSeq(x.insns), NEW y, y.id = x.id, NEW z,
         LET i == b.insns[m + 1]
         IN  IF i.kind = "new_typedesc"
             THEN y.insns = x.insns /\ y.terminator = x.terminator
             ELSE /\ Means(z, i)
                  /\ IF i.kind \in Terminators
                     THEN y.insns = x.insns /\ y.terminator = <<z>>
                     ELSE y.insns = Append(x.insns, z) /\ y.terminator = x.terminator
  PROVE  BlockRead(y, b, m + 1)
<1> DEFINE i == b.insns[m + 1]
           plain == Selected(b.insns, UpTo(PlainAt(b), m))
           more == Selected(b.insns, UpTo(PlainAt(b), m + 1))
           ends == UpTo(EndsAt(b), m)
           ends1 == UpTo(EndsAt(b), m + 1)
<1>1. /\ DOMAIN b.insns = 1 .. Len(b.insns) /\ Len(b.insns) \in Nat
      /\ PlainAt(b) \in SUBSET (Nat \ {0}) /\ EndsAt(b) \in SUBSET (Nat \ {0})
  BY PlacesOfInsns
<1>2. m + 1 \in DOMAIN b.insns
  BY <1>1
<1>3. /\ m + 1 \in EndsAt(b) <=> i.kind \in Terminators
      /\ m + 1 \in PlainAt(b) <=> i.kind # "new_typedesc" /\ i.kind \notin Terminators
  BY <1>2 DEF EndsAt, PlainAt
<1>4. /\ m + 1 \in PlainAt(b) => more = Append(plain, i)
      /\ m + 1 \notin PlainAt(b) => more = plain
      /\ IsSeq(plain) /\ Len(plain) \in Nat /\ DOMAIN plain = 1 .. Len(plain)
  BY <1>1, SelectedStep, SeqFacts
<1>5. /\ ends \in SUBSET (1 .. m)
      /\ m + 1 \in EndsAt(b) => ends1 = ends \cup {m + 1}
      /\ m + 1 \notin EndsAt(b) => ends1 = ends
  BY <1>1, UpToFacts
<1>6. /\ x.id = String(b.name) /\ DOMAIN x.insns = DOMAIN plain
      /\ \A r \in DOMAIN plain : Means(x.insns[r], plain[r])
      /\ ends = {} => x.terminator = <<>>
      /\ \A h \in ends : (\A g \in ends : g <= h) =>
           \E w : x.terminator = <<w>> /\ Means(w, b.insns[h])
  BY DEF BlockRead
<1> HIDE DEF plain, more, ends, ends1
<1>7. DOMAIN y.insns = DOMAIN more /\ \A r \in DOMAIN more : Means(y.insns[r], more[r])
  <2>1. CASE m + 1 \in PlainAt(b)
    <3>1. /\ y.insns = Append(x.insns, z) /\ Means(z, i) /\ more = Append(plain, i)
      BY <1>3, <1>4, <2>1
    <3>2. Len(x.insns) = Len(plain)
      BY <1>4, <1>6, SeqFacts
    <3>3. /\ IsSeq(y.insns) /\ Len(y.insns) = Len(plain) + 1 /\ y.insns[Len(plain) + 1] = z
          /\ \A r \in 1 .. Len(plain) : y.insns[r] = x.insns[r]
      BY <3>1, <3>2, AppendFacts
    <3>4. /\ IsSeq(more) /\ Len(more) = Len(plain) + 1 /\ more[Len(plain) + 1] = i
          /\ \A r \in 1 .. Len(plain) : more[r] = plain[r]
      BY <1>4, <3>1, AppendFacts
    <3>5. DOMAIN y.insns = 1 .. Len(plain) + 1 /\ DOMAIN more = 1 .. Len(plain) + 1
      BY <3>3, <3>4, SeqFacts
    <3>6. ASSUME NEW r \in 1 .. Len(plain) + 1
          PROVE  Means(y.insns[r], more[r])
      <4>1. CASE r = Len(plain) + 1
        BY <3>1, <3>3, <3>4, <4>1
      <4>2. CASE r # Len(plain) + 1
        <5>1. r \in 1 .. Len(plain)
          BY <1>4, <4>2
        <5> QED BY <1>4, <1>6, <3>3, <3>4, <5>1
      <4> QED BY <4>1, <4>2
    <3> QED BY <3>5, <3>6
  <2>2. CASE m + 1 \notin PlainAt(b)
    BY <1>3, <1>4, <1>6, <2>2
  <2> QED BY <2>1, <2>2
<1>8. /\ ends1 = {} => y.terminator = <<>>
      /\ \A h \in ends1 : (\A g \in ends1 : g <= h) =>
           \E w : y.terminator = <<w>> /\ Means(w, b.insns[h])
  <2>1. CASE m + 1 \in EndsAt(b)
    <3>1. y.terminator = <<z>> /\ Means(z, i) /\ m + 1 \in ends1
      <4>1. i.kind # "new_typedesc"
        BY <1>3, <2>1 DEF Terminators
      <4> QED BY <1>3, <1>5, <2>1, <4>1
    <3>2. ASSUME NEW h \in ends1, m + 1 <= h
          PROVE  h = m + 1
      <4>1. h \in ends \/ h = m + 1
        BY <1>5, <2>1, Zenon
      <4>2. \A g \in 1 .. m : ~(m + 1 <= g)
        OBVIOUS
      <4>3. h \notin ends
        BY <1>5, <3>2, <4>2, Zenon
      <4> QED BY <4>1, <4>3
    <3>3. \A h \in ends1 : (\A g \in ends1 : g <= h) => h = m + 1
      BY <3>1, <3>2, Zenon
    <3>4. /\ ends1 = {} => y.terminator = <<>>
          /\ \A h \in ends1 : (\A g \in ends1 : g <= h) => y.terminator = <<z>> /\ Means(z, b.insns[h])
      BY <3>1, <3>3, Zenon
    <3> QED BY <3>4, Zenon
  <2>2. CASE m + 1 \notin EndsAt(b)
    BY <1>3, <1>5, <1>6, <2>2
  <2> QED BY <2>1, <2>2
<1> QED BY <1>6, <1>7, <1>8 DEF BlockRead, more, ends1

-----------------------------------------------------------------------------
(* The package.                                                            *)

USE DEF BeforeFunctions, BeforeBlocks, InFunction, Reading, Goto, Unread, poolVars, readerVars,
        counters

\* A function that is replaced has its blocks where they were, or in a new buffer.
LEMMA BuffersStayApart ==
  ASSUME BuffersApart, functions.len \in Nat, functions.len > 0,
         NEW g, functions' = WithBack(functions, g), fresh' \in {fresh, fresh + 1},
         g.blocks.buf = Function.blocks.buf \/ (g.blocks.buf = fresh + 1 /\ fresh' = fresh + 1),
         g.blocks.buf = 0 => g.blocks.len = 0 /\ g.blocks.cap = 0
  PROVE  BuffersApart'
<1> DEFINE Buf(r) == functions.items[r].blocks.buf
<1>1. /\ functions'.len = functions.len
      /\ \A r \in 1 .. functions.len :
           functions'.items[r] = IF r = functions.len THEN g ELSE functions.items[r]
  BY DEF WithBack
<1>2. /\ fresh \in Nat /\ fresh' \in Nat /\ fresh <= fresh'
      /\ \A r \in 1 .. functions.len : Buf(r) \in 0 .. fresh
  BY DEF BuffersApart
<1>3. functions.len \in 1 .. functions.len /\ Function = functions.items[functions.len]
  BY DEF Function, Back
<1>4. g.blocks.buf = Buf(functions.len) \/ (g.blocks.buf = fresh + 1 /\ fresh' = fresh + 1)
  BY <1>3
<1>5. g.blocks.buf \in 0 .. fresh'
  BY <1>2, <1>3, <1>4
<1>6. ASSUME NEW r \in 1 .. functions.len
      PROVE  LET bs == functions'.items[r].blocks
             IN  bs.buf \in 0 .. fresh' /\ (bs.buf = 0 => bs.len = 0 /\ bs.cap = 0)
  <2>1. CASE r = functions.len
    BY <1>1, <1>5, <2>1
  <2>2. CASE r # functions.len
    <3>1. functions'.items[r] = functions.items[r]
      BY <1>1, <2>2
    <3>2. Buf(r) \in 0 .. fresh'
      BY <1>2
    <3> QED BY <3>1, <3>2 DEF BuffersApart
  <2> QED BY <2>1, <2>2
<1>7. ASSUME NEW r \in 1 .. functions.len, NEW q \in 1 .. functions.len,
             functions'.items[r].blocks.buf = functions'.items[q].blocks.buf
      PROVE  r = q \/ functions'.items[r].blocks.buf = 0
  <2>1. \A a, b \in 1 .. functions.len : Buf(a) = Buf(b) => a = b \/ Buf(a) = 0
    BY DEF BuffersApart
  <2>2. \A a \in 1 .. functions.len : g.blocks.buf = Buf(a) => a = functions.len \/ g.blocks.buf = 0
    BY <1>2, <1>3, <1>4, <2>1
  <2>3. CASE r = functions.len /\ q # functions.len
    <3>1. functions'.items[r] = g /\ functions'.items[q] = functions.items[q]
      BY <1>1, <2>3
    <3> QED BY <1>7, <2>2, <2>3, <3>1
  <2>4. CASE r # functions.len /\ q = functions.len
    <3>1. functions'.items[q] = g /\ functions'.items[r] = functions.items[r]
      BY <1>1, <2>4
    <3> QED BY <1>7, <2>2, <2>4, <3>1
  <2>5. CASE r # functions.len /\ q # functions.len
    <3>1. functions'.items[q] = functions.items[q] /\ functions'.items[r] = functions.items[r]
      BY <1>1, <2>5
    <3> QED BY <1>7, <2>1, <3>1
  <2> QED BY <2>3, <2>4, <2>5
<1> QED BY <1>1, <1>2, <1>6, <1>7 DEF BuffersApart

LEMMA SameBuffers == BuffersApart /\ UNCHANGED <<functions, fresh>> => BuffersApart'
BY DEF BuffersApart

LEMMA OneLess == \A a \in Nat : (a + 1) - 1 = a
OBVIOUS

LEMMA DoneFits ==
  ASSUME Attached \in Nat, NEW l \in Nat, NEW d \in 0 .. Attached + l
  PROVE  DoneOf(d) \in Nat /\ DoneOf(d) <= l
<1>1. CASE d <= Attached
  BY <1>1 DEF DoneOf
<1>2. CASE ~(d <= Attached)
  BY <1>2 DEF DoneOf
<1> QED BY <1>1, <1>2

\* How many functions are done inside a function.
LEMMA ReadInside ==
  ASSUME IInv, PackageInv, phase = "module"
  PROVE  /\ n \in 0 .. Texts /\ n \in Int /\ Attached \in Nat /\ Texts \in Nat
         /\ KeptAt \in SUBSET (1 .. Len(Module.functions)) /\ Len(Module.functions) \in Nat
         /\ KeptAt \in SUBSET (Nat \ {0}) /\ Texts - Attached = Len(Module.functions)
         /\ Read \in Nat /\ Read <= Len(Module.functions)
         /\ at \in InFunction => n > 0 /\ Read = DoneOf(n - 1)
         /\ at \notin InFunction => Read = DoneOf(n)
         /\ functions.len \in Nat
         /\ IsSeq(KeptTo(Read)) /\ Len(KeptTo(Read)) \in Nat
         /\ functions.len = Len(KeptTo(Read)) + (IF at \in InFunction THEN 1 ELSE 0)
         /\ \A r \in 1 .. Len(KeptTo(Read)) : FunctionRead(functions.items[r], KeptTo(Read)[r])
<1>1. /\ FunctionsFit /\ GoodFunctions(functions) /\ file \in Files /\ FunctionsRead
  BY DEF IInv, PackageInv
<1>2. /\ Attached \in Nat /\ Texts \in Nat /\ Attached <= Texts
      /\ Texts - Attached = Len(Module.functions)
  BY <1>1, ModuleFacts
<1>3. Len(Module.functions) \in Nat
  BY <1>2
<1>4. n \in 0 .. Texts /\ (at \in InFunction => n > 0) /\ functions.len \in Nat
  BY <1>1 DEF FunctionsFit, GoodFunctions
<1>5. /\ at \in InFunction => Read = DoneOf(n - 1)
      /\ at \notin InFunction => Read = DoneOf(n)
  BY DEF Read
<1>6. Read \in Nat /\ Read <= Len(Module.functions)
  <2>1. Texts = Attached + Len(Module.functions)
    BY <1>2, <1>3
  <2>2. n \in 0 .. Texts /\ (at \in InFunction => n - 1 \in 0 .. Texts)
    <3>1. \A a \in Nat : \A d \in 0 .. a : d > 0 => d - 1 \in 0 .. a
      OBVIOUS
    <3> QED BY <1>2, <1>4, <3>1, Zenon
  <2>3. \A d \in 0 .. Texts : DoneOf(d) \in Nat /\ DoneOf(d) <= Len(Module.functions)
    BY <1>2, <1>3, <2>1, DoneFits
  <2>4. CASE at \in InFunction
    BY <1>5, <2>2, <2>3, <2>4, Zenon
  <2>5. CASE at \notin InFunction
    BY <1>5, <2>2, <2>3, <2>5, Zenon
  <2> QED BY <2>4, <2>5
<1>7. DOMAIN Module.functions = 1 .. Len(Module.functions)
  <2>1. IsSeq(Module.functions)
    BY <1>1, FilesAssumption DEF Module
  <2> QED BY <2>1, SeqFacts
<1>8. KeptAt \in SUBSET (1 .. Len(Module.functions))
  BY <1>7 DEF KeptAt
<1>9. KeptAt \in SUBSET (Nat \ {0})
  <2>1. \A l \in Nat : 1 .. l \in SUBSET (Nat \ {0})
    OBVIOUS
  <2> QED BY <1>3, <1>8, <2>1
<1>10. IsSeq(KeptTo(Read))
  BY <1>6, <1>9, SelectedStep DEF KeptTo
<1>11. Len(KeptTo(Read)) \in Nat
  BY <1>10, SeqFacts
<1>12. n \in Int
  <2>1. n \in 0 .. Texts /\ Texts \in Nat
    BY <1>2, <1>4
  <2> QED BY <2>1
<1> QED BY <1>1, <1>2, <1>3, <1>4, <1>5, <1>6, <1>8, <1>9, <1>10, <1>11, <1>12, Zenon
        DEF FunctionsRead

\* A step inside a function leaves the functions before it alone.
LEMMA FunctionStep ==
  ASSUME IInv, PackageInv, phase = "module", at \in InFunction,
         phase' = phase, at' \in InFunction, UNCHANGED <<n, file, pool, globals>>,
         BuffersApart', functions'.len = functions.len,
         \A r \in 1 .. functions.len - 1 : functions'.items[r] = functions.items[r],
         FunctionPart(Function, Text)'
  PROVE  PackageInv'
<1> DEFINE l == Len(KeptTo(Read))
<1>1. /\ l \in Nat /\ functions.len = l + 1
      /\ \A r \in 1 .. l : FunctionRead(functions.items[r], KeptTo(Read)[r])
  BY ReadInside
<1> HIDE DEF l
<1>2. Read' = Read
  <2>1. Read = DoneOf(n - 1) /\ Read' = DoneOf(n - 1)'
    BY Zenon DEF Read
  <2> QED BY <2>1, SameText DEF DoneOf
<1>3. KeptTo(Read)' = KeptTo(Read)
  BY <1>2, SameProgram
<1>4. /\ functions'.len = l + 1
      /\ \A r \in 1 .. l : FunctionRead(functions.items[r], KeptTo(Read)[r])'
  <2>1. \A r \in 1 .. l : functions'.items[r] = functions.items[r]
    <3>1. functions.len - 1 = l
      BY <1>1, OneLess, Zenon
    <3> QED BY <3>1
  <2> QED BY <1>1, <1>3, <2>1, SameProgram
<1>5. FunctionsRead'
  BY <1>3, <1>4 DEF FunctionsRead, l
<1>6. GlobalsRead'
  BY SameProgram DEF PackageInv, GlobalsRead
<1> QED BY <1>5, <1>6 DEF PackageInv

LEMMA Places ==
  ASSUME NEW a \in Nat
  PROVE  /\ a > 0 => a \in 1 .. a
         /\ \A r \in 1 .. a - 1 : r \in 1 .. a /\ r # a
OBVIOUS

LEMMA ReplaceStep ==
  ASSUME IInv, PackageInv, phase = "module", at \in InFunction,
         phase' = phase, at' \in InFunction, UNCHANGED <<n, file, pool, globals>>,
         NEW g, functions' = WithBack(functions, g), fresh' \in {fresh, fresh + 1},
         g.blocks.buf = Function.blocks.buf \/ (g.blocks.buf = fresh + 1 /\ fresh' = fresh + 1),
         g.blocks.buf = 0 => g.blocks.len = 0 /\ g.blocks.cap = 0,
         FunctionPart(Function, Text)'
  PROVE  PackageInv'
<1>1. functions.len \in Nat /\ functions.len > 0 /\ BuffersApart
  BY InFunctionFacts DEF GoodFunctions, PackageInv
<1>2. BuffersApart'
  BY <1>1, BuffersStayApart
<1>3. /\ functions'.len = functions.len
      /\ \A r \in 1 .. functions.len - 1 : functions'.items[r] = functions.items[r]
  <2>1. \A r \in 1 .. functions.len - 1 : r \in 1 .. functions.len /\ r # functions.len
    BY <1>1, Places, Zenon
  <2>2. functions'.len = functions.len
        /\ \A r \in 1 .. functions.len : r # functions.len => functions'.items[r] = functions.items[r]
    BY DEF WithBack
  <2> QED BY <2>1, <2>2, Zenon
<1> QED BY <1>2, <1>3, FunctionStep

\* What is known of the function that is read.
LEMMA PartFacts ==
  ASSUME IInv, PackageInv, phase = "module", at \in InFunction, file' = file, pool' = pool, n' = n
  PROVE  /\ IsText(Text) /\ FunctionPart(Function, Text)
         /\ GoodFunctions(functions) /\ functions.len > 0
         /\ GoodFunction(Function, Address(functions, functions.len))
         /\ Function.blocks.buf = 0 => Function.blocks.len = 0 /\ Function.blocks.cap = 0
         /\ Text' = Text /\ String(Text.name)' = String(Text.name)
         /\ Returned(Text)' = Returned(Text) /\ ParamsOf(Text)' = ParamsOf(Text)
         /\ AllNamed(Text.locals)' = AllNamed(Text.locals)
         /\ \A x, b : WholeBlock(x, b)' = WholeBlock(x, b)
         /\ \A x, b, m : BlockRead(x, b, m)' = BlockRead(x, b, m)
<1>1. /\ GoodFunctions(functions) /\ functions.len > 0
      /\ GoodFunction(Function, Address(functions, functions.len)) /\ n \in 1 .. Texts
  BY InFunctionFacts
<1>2. IsText(Text)
  BY <1>1, ModuleFacts DEF IInv, Text
<1>3. FunctionPart(Function, Text)
  <2>1. FunctionsRead
    BY DEF PackageInv
  <2> QED BY <2>1, Zenon DEF FunctionsRead
<1>4. functions.len \in 1 .. functions.len
  <2>1. functions.len \in Nat
    BY <1>1 DEF GoodFunctions
  <2> QED BY <1>1, <2>1, Places, Zenon
<1>5. Function.blocks.buf = 0 => Function.blocks.len = 0 /\ Function.blocks.cap = 0
  BY <1>4 DEF PackageInv, BuffersApart, Function, Back
<1>6. Text' = Text
  BY SameText
<1> QED BY <1>1, <1>2, <1>3, <1>5, <1>6, SameText, SameProgram

LEMMA PackageReadParam == IInv /\ PackageInv /\ ReadParam => PackageInv'
<1> SUFFICES ASSUME IInv, PackageInv, ReadParam PROVE PackageInv'
  OBVIOUS
<1>1. /\ phase = "module" /\ at = "params" /\ phase' = phase
      /\ UNCHANGED <<at, n, file, pool, globals, functions, fresh>>
  BY DEF ReadParam
<1>2. FunctionPart(Function, Text)'
  BY <1>1, PartFacts DEF FunctionPart, Function
<1>3. BuffersApart'
  BY <1>1, SameBuffers DEF PackageInv
<1> QED BY <1>1, <1>2, <1>3, FunctionStep

LEMMA PackageReadReturnVar == IInv /\ PackageInv /\ ReadReturnVar => PackageInv'
<1> SUFFICES ASSUME IInv, PackageInv, ReadReturnVar PROVE PackageInv'
  OBVIOUS
<1>1. /\ phase = "module" /\ at = "return" /\ at' = "defaults" /\ phase' = phase
      /\ UNCHANGED <<n, file, pool, globals, fresh>>
      /\ functions' = IF Text.returnVar = <<>> THEN functions
                      ELSE WithBack(functions,
                             [Function EXCEPT !.returnVar = <<Named(Text.returnVar[1])>>])
  BY DEF ReadReturnVar
<1>2. CASE Text.returnVar = <<>>
  <2>1. functions' = functions
    BY <1>1, <1>2
  <2>2. FunctionPart(Function, Text)'
    BY <1>1, <1>2, <2>1, PartFacts DEF FunctionPart, Function, Returned
  <2>3. BuffersApart'
    BY <1>1, <2>1, SameBuffers DEF PackageInv
  <2> QED BY <1>1, <2>1, <2>2, <2>3, FunctionStep
<1>3. CASE Text.returnVar # <<>>
  <2> DEFINE g == [Function EXCEPT !.returnVar = <<Named(Text.returnVar[1])>>]
  <2>1. functions' = WithBack(functions, g)
    BY <1>1, <1>3
  <2>2. /\ GoodFunction(g, Address(functions, functions.len)) /\ g.blocks = Function.blocks
        /\ g.name = Function.name /\ g.flags = Function.flags /\ g.locals = Function.locals
        /\ g.returnVar = Returned(Text)
    BY <1>1, <1>3, PartFacts DEF GoodFunction, Returned
  <2> HIDE DEF g
  <2>3. Function' = g
    BY <1>1, <2>1, <2>2, PartFacts, ReplaceFunction DEF Function
  <2>4. FunctionPart(Function, Text)'
    BY <1>1, <2>2, <2>3, PartFacts DEF FunctionPart
  <2> QED BY <1>1, <2>1, <2>2, <2>4, PartFacts, ReplaceStep
<1> QED BY <1>2, <1>3

LEMMA PackageReadDefault == IInv /\ PackageInv /\ ReadDefault => PackageInv'
<1> SUFFICES ASSUME IInv, PackageInv, ReadDefault PROVE PackageInv'
  OBVIOUS
<1> DEFINE p == [name |-> Front(queue), type |-> TypeOfIndex(Text.defaults[k + 1])]
           ps == Append(Function.params, p)
           g == [Function EXCEPT !.params = ps]
<1>1. /\ phase = "module" /\ at = "defaults" /\ phase' = phase
      /\ UNCHANGED <<at, n, file, pool, globals, fresh>>
      /\ functions' = WithBack(functions, g)
  BY DEF ReadDefault
<1>2. IsSeq(ps)
  BY <1>1, PartFacts, AppendFacts DEF GoodFunction
<1> HIDE DEF ps
<1>3. /\ GoodFunction(g, Address(functions, functions.len)) /\ g.blocks = Function.blocks
      /\ g.name = Function.name /\ g.flags = Function.flags /\ g.locals = Function.locals
      /\ g.returnVar = Function.returnVar
  BY <1>1, <1>2, PartFacts DEF GoodFunction
<1> HIDE DEF g
<1>4. Function' = g
  BY <1>1, <1>3, PartFacts, ReplaceFunction DEF Function
<1>5. FunctionPart(Function, Text)'
  BY <1>1, <1>3, <1>4, PartFacts DEF FunctionPart
<1> QED BY <1>1, <1>3, <1>5, PartFacts, ReplaceStep

LEMMA AllNamedFacts ==
  ASSUME NEW vs, IsSeq(vs)
  PROVE  /\ IsSeq(AllNamed(vs)) /\ Len(AllNamed(vs)) = Len(vs) /\ Len(vs) \in Nat
         /\ \A i \in 1 .. Len(vs) : AllNamed(vs)[i] = Named(vs[i])
<1>1. Len(vs) \in Nat /\ DOMAIN vs = 1 .. Len(vs)
  BY SeqFacts
<1>2. AllNamed(vs) = [i \in 1 .. Len(vs) |-> AllNamed(vs)[i]]
  BY <1>1 DEF AllNamed
<1> QED BY <1>1, <1>2, FunctionIsSeq DEF AllNamed

LEMMA PackageReadLocalVar == IInv /\ PackageInv /\ ReadLocalVar => PackageInv'
<1> SUFFICES ASSUME IInv, PackageInv, ReadLocalVar PROVE PackageInv'
  OBVIOUS
<1> DEFINE v == Named(Text.locals[k + 1])
           g == [Function EXCEPT !.locals = Append(@, v)]
           all == AllNamed(Text.locals)
<1>1. /\ phase = "module" /\ at = "locals" /\ phase' = phase /\ k < Len(Text.locals)
      /\ k' = k + 1 /\ UNCHANGED <<at, n, file, pool, globals, fresh>>
      /\ functions' = WithBack(functions, g)
  BY DEF ReadLocalVar
<1>2. /\ k \in Nat /\ IsSeq(Text.locals) /\ Len(Text.locals) \in Nat
      /\ Function.locals = Prefix(all, k)
  BY <1>1, PartFacts, SeqFacts DEF IInv, FunctionsFit, IsText, FunctionPart
<1>3. v = all[k + 1]
  <2>1. k + 1 \in 1 .. Len(Text.locals)
    BY <1>1, <1>2
  <2> QED BY <1>2, <2>1, AllNamedFacts
<1>4. /\ GoodFunction(g, Address(functions, functions.len)) /\ g.blocks = Function.blocks
      /\ g.name = Function.name /\ g.flags = Function.flags
      /\ g.locals = Append(Function.locals, v)
      /\ g.returnVar = Function.returnVar /\ g.params = Function.params
  BY <1>1, PartFacts DEF GoodFunction
<1> HIDE DEF v, g, all
<1>5. Function' = g
  BY <1>1, <1>4, PartFacts, ReplaceFunction DEF Function
<1>6. g.locals = Prefix(all, k + 1) /\ k + 1 <= Len(Text.locals)
  <2>1. \A a, b \in Nat : a < b => a + 1 <= b
    OBVIOUS
  <2>2. Append(Prefix(all, k), all[k + 1]) = Prefix(all, k + 1)
    BY <1>2, PrefixFacts
  <2> QED BY <1>1, <1>2, <1>3, <1>4, <2>1, <2>2, Zenon
<1>7. FunctionPart(Function, Text)'
  BY <1>1, <1>4, <1>5, <1>6, PartFacts DEF FunctionPart, all
<1> QED BY <1>1, <1>4, <1>7, PartFacts, ReplaceStep

LEMMA PackageEndLoop == IInv /\ PackageInv /\ EndLoop => PackageInv'
<1> SUFFICES ASSUME IInv, PackageInv, EndLoop PROVE PackageInv'
  OBVIOUS
<1>1. /\ phase = "module" /\ phase' = phase /\ k' = 0
      /\ UNCHANGED <<n, file, pool, globals, functions, fresh>>
      /\ at \in {"globals", "params", "defaults", "locals"} /\ at' = Following[at]
      /\ k = Len(Items)
  BY DEF EndLoop, Following
<1>2. BuffersApart'
  BY <1>1, SameBuffers DEF PackageInv
<1>3. CASE at = "globals"
  <2>1. at' = "attached" /\ k = Len(Module.globals)
    BY <1>1, <1>3 DEF Following, Items
  <2>2. IsSeq(Module.globals)
    BY FilesAssumption DEF IInv, Module
  <2>3. /\ IsSeq(AllNamed(Module.globals))
        /\ Len(AllNamed(Module.globals)) = Len(Module.globals)
    BY <2>2, AllNamedFacts
  <2>4. globals = AllNamed(Module.globals)
    BY <1>1, <1>3, <2>1, <2>3, WholePrefix DEF PackageInv, GlobalsRead
  <2>5. GlobalsRead'
    BY <1>1, <2>1, <2>4, SameProgram DEF GlobalsRead
  <2>6. Read = DoneOf(n) /\ Read' = DoneOf(n)'
    BY <1>3, <2>1, Zenon DEF Read
  <2>7. KeptTo(Read)' = KeptTo(Read)
    BY <1>1, <2>6, SameText, SameProgram DEF DoneOf
  <2>8. /\ functions.len = Len(KeptTo(Read)) + 0
        /\ \A r \in 1 .. Len(KeptTo(Read)) : FunctionRead(functions.items[r], KeptTo(Read)[r])
    BY <1>1, <1>3 DEF PackageInv, FunctionsRead
  <2>9. FunctionsRead'
    BY <1>1, <2>1, <2>7, <2>8, SameProgram DEF FunctionsRead
  <2> QED BY <1>1, <1>2, <2>5, <2>9 DEF PackageInv
<1>4. CASE at = "params"
  <2>1. at' = "return"
    BY <1>1, <1>4 DEF Following
  <2>2. FunctionPart(Function, Text)'
    BY <1>1, <1>4, <2>1, PartFacts DEF FunctionPart, Function
  <2> QED BY <1>1, <1>2, <1>4, <2>1, <2>2, FunctionStep
<1>5. CASE at = "defaults"
  <2>1. at' = "locals" /\ k = Len(Text.defaults)
    BY <1>1, <1>5 DEF Following, Items
  <2>2. /\ IsSeq(Text.defaults) /\ IsSeq(Text.locals) /\ IsSeq(Function.params)
    BY <1>1, <1>5, PartFacts DEF IsText, GoodFunction
  <2>3. Len(Function.params) = Len(Text.defaults)
    BY <1>1, <1>5, <2>1 DEF IInv, QueueFits
  <2>4. DOMAIN Function.params = DOMAIN Text.defaults
    BY <2>2, <2>3, SeqFacts
  <2>5. n > 0 /\ at \notin {"attached", "functions"}
    BY <1>1, <1>5, InFunctionFacts DEF FunctionsFit
  <2>6. \A i \in DOMAIN Function.params :
          Function.params[i] = [name |-> String(Text.required[i]),
                                type |-> TypeOfIndex(Text.defaults[i])]
    BY <1>1, <2>5 DEF IInv, ParamsKeepTheirOrder
  <2>7. Function.params = ParamsOf(Text)
    <3>1. Function.params = [i \in DOMAIN Function.params |-> Function.params[i]]
      BY <2>2, SeqIsFunction
    <3> QED BY <2>4, <2>6, <3>1 DEF ParamsOf
  <2>8. Prefix(AllNamed(Text.locals), 0) = <<>> /\ 0 <= Len(Text.locals)
    BY <2>2, PrefixFacts, SeqFacts
  <2>9. FunctionPart(Function, Text)'
    BY <1>1, <1>5, <2>1, <2>7, <2>8, PartFacts DEF FunctionPart, Function
  <2> QED BY <1>1, <1>2, <1>5, <2>1, <2>9, FunctionStep
<1>6. CASE at = "locals"
  <2>1. at' = "default blocks" /\ k = Len(Text.locals)
    BY <1>1, <1>6 DEF Following, Items
  <2>2. IsSeq(Text.locals)
    BY <1>1, <1>6, PartFacts DEF IsText
  <2>3. IsSeq(AllNamed(Text.locals)) /\ Len(AllNamed(Text.locals)) = Len(Text.locals)
    BY <2>2, AllNamedFacts
  <2>4. Function.locals = AllNamed(Text.locals)
    BY <1>1, <1>6, <2>1, <2>3, PartFacts, WholePrefix DEF FunctionPart
  <2>5. FunctionPart(Function, Text)'
    BY <1>1, <1>6, <2>1, <2>4, PartFacts DEF FunctionPart, Function
  <2> QED BY <1>1, <1>2, <1>6, <2>1, <2>5, FunctionStep
<1> QED BY <1>1, <1>3, <1>4, <1>5, <1>6

\* A step that changes nothing but the blocks of the function that is read.
LEMMA WithBlocksStep ==
  ASSUME IInv, PackageInv, phase = "module", phase' = phase,
         at \in {"default blocks", "default insns", "blocks", "insns"},
         at' \in {"default blocks", "default insns", "blocks", "insns"},
         UNCHANGED <<n, file, pool, globals>>,
         NEW bs, GoodBlocks(bs, Address(functions, functions.len)), functions' = WithBlocks(bs),
         fresh' \in {fresh, fresh + 1},
         bs.buf = Function.blocks.buf \/ (bs.buf = fresh + 1 /\ fresh' = fresh + 1),
         bs.buf = 0 => bs.len = 0 /\ bs.cap = 0,
         at' \in {"blocks", "insns"} =>
           \A b \in 1 .. k' : WholeBlock(bs.items[b], Text.blocks[b]),
         at' = "insns" => /\ j' \in 0 .. Len(Text.blocks[k' + 1].insns)
                          /\ BlockRead(bs.items[k' + 1], Text.blocks[k' + 1], j')
  PROVE  PackageInv'
<1> DEFINE g == [Function EXCEPT !.blocks = bs]
<1>1. at \in InFunction /\ at' \in InFunction
  OBVIOUS
<1>2. /\ GoodFunction(g, Address(functions, functions.len)) /\ g.blocks = bs
      /\ g.name = Function.name /\ g.flags = Function.flags /\ g.locals = Function.locals
      /\ g.returnVar = Function.returnVar /\ g.params = Function.params
  BY <1>1, PartFacts DEF GoodFunction
<1>3. functions' = WithBack(functions, g)
  BY DEF WithBlocks
<1> HIDE DEF g
<1>4. Function' = g
  <2>1. GoodFunctions(functions) /\ functions.len > 0
    BY <1>1, PartFacts
  <2>2. Back(WithBack(functions, g)) = g
    BY <1>2, <2>1, ReplaceFunction
  <2> QED BY <1>3, <2>2 DEF Function
<1>5. /\ FunctionPart(Function, Text) /\ Text' = Text /\ String(Text.name)' = String(Text.name)
      /\ Returned(Text)' = Returned(Text) /\ ParamsOf(Text)' = ParamsOf(Text)
      /\ AllNamed(Text.locals)' = AllNamed(Text.locals)
      /\ \A x, b : WholeBlock(x, b)' = WholeBlock(x, b)
      /\ \A x, b, m : BlockRead(x, b, m)' = BlockRead(x, b, m)
  <2>1. UNCHANGED <<n, file, pool>>
    OBVIOUS
  <2>2. file' = file /\ pool' = pool /\ n' = n
    BY <2>1
  <2> QED BY <1>1, <2>2, PartFacts, Zenon
<1>6. at' \in {"blocks", "insns"} =>
        \A b \in 1 .. k' : WholeBlock(Function.blocks.items[b], Text.blocks[b])'
  BY <1>2, <1>4, <1>5, Zenon
<1>7. at' = "insns" =>
        /\ j' \in 0 .. Len(Text'.blocks[k' + 1].insns)
        /\ BlockRead(Function.blocks.items[k + 1], Text.blocks[k + 1], j)'
  BY <1>2, <1>4, <1>5, Zenon
<1>8. /\ g.name = String(Text.name)' /\ g.flags = Text'.flags
      /\ g.returnVar = Returned(Text)' /\ g.params = ParamsOf(Text)'
      /\ g.locals = AllNamed(Text.locals)'
  BY <1>2, <1>5 DEF FunctionPart
<1>9. FunctionPart(Function, Text)'
  BY <1>4, <1>6, <1>7, <1>8 DEF FunctionPart
<1> QED BY <1>1, <1>2, <1>3, <1>9, ReplaceStep

LEMMA NoPlaces == \A x : x \notin 1 .. 0
OBVIOUS

LEMMA PackageReserveBlocks == IInv /\ PackageInv /\ ReserveBlocks => PackageInv'
<1> SUFFICES ASSUME IInv, PackageInv, ReserveBlocks PROVE PackageInv'
  OBVIOUS
<1> DEFINE bs == Reserve(Function.blocks, Len(Text.blocks), fresh + 1)
<1>1. /\ phase = "module" /\ phase' = phase /\ at = "default blocks" /\ at' = "blocks" /\ k' = 0
      /\ functions' = WithBlocks(bs) /\ fresh' = fresh + 1 /\ UNCHANGED <<n, file, pool, globals>>
  BY DEF ReserveBlocks
<1>2. /\ GoodFunction(Function, Address(functions, functions.len))
      /\ Function.blocks.len = 0 /\ Len(Text.blocks) \in Nat
  BY <1>1, InFunctionFacts DEF BlocksFit
<1>3. GoodBlocks(bs, Address(functions, functions.len))
  BY <1>2, ReserveNoBlocks DEF GoodFunction
<1>4. Function.blocks.buf = 0 => Function.blocks.len = 0 /\ Function.blocks.cap = 0
  BY <1>1, PartFacts
<1>5. fresh \in Nat
  BY DEF PackageInv, BuffersApart
<1>6. /\ bs.buf = Function.blocks.buf \/ bs.buf = fresh + 1
      /\ bs.buf = 0 => bs.len = 0 /\ bs.cap = 0
  BY <1>4, <1>5 DEF Reserve
<1> HIDE DEF bs
<1>7. \A b \in 1 .. k' : WholeBlock(bs.items[b], Text.blocks[b])
  BY <1>1, NoPlaces
<1>8. at' # "insns"
  BY <1>1
<1> QED BY <1>1, <1>3, <1>6, <1>7, <1>8, WithBlocksStep

\* What is known of the block that is read.
LEMMA BlockFacts ==
  ASSUME IInv, PackageInv, phase = "module",
         at \in {"default blocks", "default insns", "blocks", "insns"}
  PROVE  /\ GoodBlocks(Function.blocks, Address(functions, functions.len))
         /\ Function.blocks.buf = 0 => Function.blocks.len = 0 /\ Function.blocks.cap = 0
         /\ Function.blocks.len \in Nat /\ Function.blocks.cap \in Nat /\ k \in Nat /\ fresh \in Nat
         /\ DOMAIN Text.blocks = 1 .. Len(Text.blocks) /\ Len(Text.blocks) \in Nat
         /\ \A b \in 1 .. Len(Text.blocks) : IsSeq(Text.blocks[b].insns)
         /\ at = "default blocks" => Function.blocks.len = 0
         /\ at = "default insns" => Function.blocks.len = 1
         /\ at \in {"blocks", "insns"} =>
              /\ Function.blocks.cap >= Len(Text.blocks)
              /\ \A b \in 1 .. k : WholeBlock(Function.blocks.items[b], Text.blocks[b])
         /\ at = "blocks" => k = Function.blocks.len
         /\ at = "insns" =>
              /\ k + 1 = Function.blocks.len /\ k < Len(Text.blocks)
              /\ j \in 0 .. Len(Text.blocks[k + 1].insns)
              /\ BlockRead(Function.blocks.items[k + 1], Text.blocks[k + 1], j)
<1>1. /\ BlocksFit /\ FunctionsFit /\ GoodFunction(Function, Address(functions, functions.len))
      /\ n \in 1 .. Texts /\ FunctionsRead /\ BuffersApart /\ GoodFunctions(functions)
      /\ functions.len > 0
  BY InFunctionFacts DEF PackageInv
<1>2. FunctionPart(Function, Text)
  BY <1>1 DEF FunctionsRead
<1>3. IsText(Text)
  BY <1>1, ModuleFacts DEF IInv, Text
<1>4. /\ DOMAIN Text.blocks = 1 .. Len(Text.blocks) /\ Len(Text.blocks) \in Nat
      /\ \A b \in 1 .. Len(Text.blocks) : IsSeq(Text.blocks[b].insns)
  BY <1>3, SeqFacts DEF IsText
<1>5. functions.len \in 1 .. functions.len
  BY <1>1, Places DEF GoodFunctions
<1>6. Function.blocks.buf = 0 => Function.blocks.len = 0 /\ Function.blocks.cap = 0
  BY <1>1, <1>5 DEF BuffersApart, Function, Back
<1>7. GoodBlocks(Function.blocks, Address(functions, functions.len)) /\ k \in Nat /\ fresh \in Nat
  BY <1>1 DEF GoodFunction, FunctionsFit, BuffersApart
<1>8. Function.blocks.len \in Nat /\ Function.blocks.cap \in Nat
  BY <1>7 DEF GoodBlocks
<1>9. at \in {"blocks", "insns"} =>
        \A b \in 1 .. k : WholeBlock(Function.blocks.items[b], Text.blocks[b])
  BY <1>2, Zenon DEF FunctionPart
<1>10. at = "insns" => /\ j \in 0 .. Len(Text.blocks[k + 1].insns)
                       /\ BlockRead(Function.blocks.items[k + 1], Text.blocks[k + 1], j)
  BY <1>2, Zenon DEF FunctionPart
<1>11. /\ at = "default blocks" => Function.blocks.len = 0
       /\ at = "default insns" => Function.blocks.len = 1
       /\ at \in {"blocks", "insns"} => Function.blocks.cap >= Len(Text.blocks)
       /\ at = "blocks" => k = Function.blocks.len
       /\ at = "insns" => k + 1 = Function.blocks.len /\ k < Len(Text.blocks)
  BY <1>1 DEF BlocksFit
<1> QED BY <1>4, <1>6, <1>7, <1>8, <1>9, <1>10, <1>11

LEMMA PackageStartBlock == IInv /\ PackageInv /\ StartBlock => PackageInv'
<1> SUFFICES ASSUME IInv, PackageInv, StartBlock PROVE PackageInv'
  OBVIOUS
<1> DEFINE g == NewBlock(BlockText)
           v == Function.blocks
           bs == EmplaceBack(v, g, fresh + 1)
           fa == Address(functions, functions.len)
<1>1. /\ phase = "module" /\ phase' = phase /\ at \in {"default blocks", "blocks"}
      /\ k < Len(BlockTexts) /\ j' = 0 /\ fresh' = fresh + 1
      /\ at' = IF at = "blocks" THEN "insns" ELSE "default insns"
      /\ functions' = WithBlocks(bs) /\ UNCHANGED <<n, k, file, pool, globals>>
  BY DEF StartBlock
<1>2. /\ GoodBlocks(v, fa)
      /\ v.buf = 0 => v.len = 0 /\ v.cap = 0
      /\ v.len \in Nat /\ v.cap \in Nat /\ k \in Nat /\ fresh \in Nat
  BY <1>1, BlockFacts
<1>3. \A a : GoodBlock(g, fa, a)
  BY NewBlockIsGood
<1>4. g.id = String(BlockText.name) /\ g.insns = <<>> /\ g.terminator = <<>>
  BY DEF NewBlock
<1> HIDE DEF g
<1>5. /\ bs.buf = v.buf \/ bs.buf = fresh + 1
      /\ bs.buf = 0 => bs.len = 0 /\ bs.cap = 0
  <2>1. CASE v.len < v.cap
    <3>1. bs.buf = v.buf /\ v.buf # 0
      BY <1>2, <2>1 DEF EmplaceBack
    <3> QED BY <3>1
  <2>2. CASE ~(v.len < v.cap)
    <3>1. bs.buf = fresh + 1
      BY <2>2 DEF EmplaceBack
    <3> QED BY <1>2, <3>1
  <2> QED BY <2>1, <2>2
<1>6. CASE at = "blocks"
  <2>1. BlockText = Text.blocks[k + 1] /\ k < Len(Text.blocks)
    BY <1>1, <1>6 DEF BlockText, BlockTexts
  <2>2. /\ v.len = k /\ v.cap >= Len(Text.blocks) /\ Len(Text.blocks) \in Nat
        /\ \A b \in 1 .. k : WholeBlock(v.items[b], Text.blocks[b])
        /\ \A b \in 1 .. Len(Text.blocks) : IsSeq(Text.blocks[b].insns)
    BY <1>1, <1>6, BlockFacts
  <2>3. v.len < v.cap
    BY <1>2, <2>1, <2>2
  <2>4. GoodBlocks(bs, fa)
    BY <1>2, <1>3, <2>3, PushBlock
  <2>5. bs.items = [b \in 1 .. k + 1 |-> IF b = k + 1 THEN g ELSE v.items[b]]
    BY <2>2 DEF EmplaceBack
  <2> HIDE DEF bs
  <2>6. bs.items[k + 1] = g /\ \A b \in 1 .. k : bs.items[b] = v.items[b]
    <3>1. k + 1 \in 1 .. k + 1 /\ \A b \in 1 .. k : b \in 1 .. k + 1 /\ b # k + 1
      BY <1>2
    <3> QED BY <2>5, <3>1
  <2>7. IsSeq(Text.blocks[k + 1].insns)
    <3>1. k + 1 \in 1 .. Len(Text.blocks)
      BY <1>2, <2>1, <2>2
    <3> QED BY <2>2, <3>1
  <2>8. BlockRead(bs.items[k + 1], Text.blocks[k + 1], 0)
    BY <1>4, <2>1, <2>6, <2>7, NothingRead
  <2>9. 0 \in 0 .. Len(Text.blocks[k + 1].insns)
    BY <2>7, SeqFacts
  <2>10. \A b \in 1 .. k : WholeBlock(bs.items[b], Text.blocks[b])
    BY <2>2, <2>6
  <2>11. at' = "insns" /\ k' = k
    BY <1>1, <1>6
  <2> QED BY <1>1, <1>5, <2>4, <2>8, <2>9, <2>10, <2>11, WithBlocksStep
<1>7. CASE at = "default blocks"
  <2>1. v.len = 0
    BY <1>1, <1>7, BlockFacts
  <2>2. GoodBlocks(bs, fa)
    BY <1>2, <1>3, <2>1, PushBlock
  <2> HIDE DEF bs
  <2>3. at' = "default insns"
    BY <1>1, <1>7
  <2> QED BY <1>1, <1>5, <2>2, <2>3, WithBlocksStep
<1> QED BY <1>1, <1>6, <1>7

\* What readInsn does with an instruction.
LEMMA WithInsnFacts ==
  ASSUME NEW i, GoodBlock(Block, Address(functions, functions.len),
                          Address(Function.blocks, Function.blocks.len))
  PROVE  LET y == WithInsn(i)
         IN  /\ y.id = Block.id /\ IsSeq(Block.insns) /\ Means(InsnOf(i), i)
             /\ IF i.kind = "new_typedesc"
                THEN y.insns = Block.insns /\ y.terminator = Block.terminator
                ELSE IF i.kind \in Terminators
                THEN y.insns = Block.insns /\ y.terminator = <<InsnOf(i)>>
                ELSE y.insns = Append(Block.insns, InsnOf(i)) /\ y.terminator = Block.terminator
<1> DEFINE x == InsnOf(i)
           is == Append(Block.insns, x)
<1>1. /\ DOMAIN Block = {"id", "parent", "insns", "terminator"} /\ IsSeq(Block.insns)
  BY DEF GoodBlock
<1>2. Means(x, i)
  BY DEF Means, InsnOf, InsnAt
<1> HIDE DEF x, is
<1>3. CASE i.kind = "new_typedesc"
  <2>1. WithInsn(i) = Block
    BY <1>3 DEF WithInsn, Terminators
  <2> QED BY <1>1, <1>2, <1>3, <2>1 DEF x
<1>4. CASE i.kind # "new_typedesc" /\ i.kind \in Terminators
  <2>1. WithInsn(i) = [Block EXCEPT !.terminator = <<x>>]
    BY <1>4, Zenon DEF WithInsn, x
  <2>2. /\ WithInsn(i).id = Block.id /\ WithInsn(i).insns = Block.insns
        /\ WithInsn(i).terminator = <<x>>
    BY <1>1, <2>1
  <2> QED BY <1>1, <1>2, <1>4, <2>2, Zenon DEF x
<1>5. CASE i.kind # "new_typedesc" /\ i.kind \notin Terminators
  <2>1. WithInsn(i) = [Block EXCEPT !.insns = is]
    BY <1>5, Zenon DEF WithInsn, x, is
  <2>2. /\ WithInsn(i).id = Block.id /\ WithInsn(i).insns = is
        /\ WithInsn(i).terminator = Block.terminator
    BY <1>1, <2>1
  <2> QED BY <1>1, <1>2, <1>5, <2>2, Zenon DEF x, is
<1> QED BY <1>3, <1>4, <1>5

LEMMA PackageReadInsn == IInv /\ PackageInv /\ ReadInsn => PackageInv'
<1> SUFFICES ASSUME IInv, PackageInv, ReadInsn PROVE PackageInv'
  OBVIOUS
<1> DEFINE i == BlockText.insns[j + 1]
           v == Function.blocks
           g == WithInsn(i)
           bs == WithBack(v, g)
           fa == Address(functions, functions.len)
<1>1. phase = "module" /\ at \in {"default insns", "insns"} /\ j < Len(BlockText.insns)
  BY DEF ReadInsn
<1>2. CASE Unsupported(i)
  <2>1. phase' = "aborted" /\ UNCHANGED <<functions, fresh>>
    BY <1>2 DEF ReadInsn
  <2> QED BY <2>1, SameBuffers DEF PackageInv
<1>3. CASE ~Unsupported(i)
  <2>1. /\ functions' = WithBlocks(bs) /\ j' = j + 1 /\ phase' = phase
        /\ UNCHANGED <<at, n, k, fresh, file, pool, globals>>
    BY <1>3 DEF ReadInsn
  <2>2. /\ GoodBlocks(v, fa)
        /\ v.buf = 0 => v.len = 0 /\ v.cap = 0
        /\ v.len \in Nat /\ k \in Nat /\ fresh \in Nat
    BY <1>1, BlockFacts
  <2>3. v.len > 0
    <3>1. v.len = 1 \/ v.len = k + 1
      BY <1>1, BlockFacts
    <3> QED BY <2>2, <3>1
  <2>4. GoodBlock(Block, fa, Address(v, v.len))
    BY <2>2, <2>3, CurrentBlock
  <2>5. GoodBlock(g, fa, Address(v, v.len))
    BY <2>4, WithInsnIsGood
  <2>6. /\ g.id = Block.id /\ IsSeq(Block.insns) /\ Means(InsnOf(i), i)
        /\ IF i.kind = "new_typedesc"
           THEN g.insns = Block.insns /\ g.terminator = Block.terminator
           ELSE IF i.kind \in Terminators
           THEN g.insns = Block.insns /\ g.terminator = <<InsnOf(i)>>
           ELSE g.insns = Append(Block.insns, InsnOf(i)) /\ g.terminator = Block.terminator
    BY <2>4, WithInsnFacts, Zenon
  <2> HIDE DEF g
  <2>7. GoodBlocks(bs, fa) /\ bs.buf = v.buf /\ bs.len = v.len /\ bs.cap = v.cap
    BY <2>2, <2>3, <2>5, ReplaceBlock DEF WithBack
  <2>8. bs.items = [b \in 1 .. v.len |-> IF b = v.len THEN g ELSE v.items[b]]
    BY DEF WithBack
  <2> HIDE DEF bs
  <2>9. CASE at = "insns"
    <3>1. BlockText = Text.blocks[k + 1]
      BY <2>9 DEF BlockText, BlockTexts
    <3>2. /\ v.len = k + 1 /\ k < Len(Text.blocks) /\ Len(Text.blocks) \in Nat
          /\ \A b \in 1 .. k : WholeBlock(v.items[b], Text.blocks[b])
          /\ \A b \in 1 .. Len(Text.blocks) : IsSeq(Text.blocks[b].insns)
          /\ j \in 0 .. Len(Text.blocks[k + 1].insns)
          /\ BlockRead(v.items[k + 1], Text.blocks[k + 1], j)
      BY <1>1, <2>9, BlockFacts
    <3>3. bs.items[k + 1] = g /\ \A b \in 1 .. k : bs.items[b] = v.items[b]
      <4>1. k + 1 \in 1 .. k + 1 /\ \A b \in 1 .. k : b \in 1 .. k + 1 /\ b # k + 1
        BY <2>2
      <4> QED BY <2>8, <3>2, <4>1
    <3>4. IsSeq(Text.blocks[k + 1].insns)
      <4>1. k + 1 \in 1 .. Len(Text.blocks)
        BY <2>2, <3>2
      <4> QED BY <3>2, <4>1
    <3>5. j \in Nat /\ j < Len(Text.blocks[k + 1].insns) /\ Len(Text.blocks[k + 1].insns) \in Nat
      <4>1. Len(Text.blocks[k + 1].insns) \in Nat
        BY <3>4, SeqFacts
      <4>2. j < Len(Text.blocks[k + 1].insns)
        BY <1>1, <3>1
      <4> QED BY <3>2, <4>1, <4>2
    <3>6. Block = v.items[k + 1]
      BY <3>2 DEF Block, Back
    <3>7. BlockRead(g, Text.blocks[k + 1], j + 1)
      BY <2>6, <3>1, <3>2, <3>4, <3>5, <3>6, OneMoreRead
    <3>8. j + 1 \in 0 .. Len(Text.blocks[k + 1].insns)
      BY <3>5
    <3>9. \A b \in 1 .. k : WholeBlock(bs.items[b], Text.blocks[b])
      BY <3>2, <3>3
    <3> QED BY <1>1, <2>1, <2>2, <2>7, <2>9, <3>3, <3>7, <3>8, <3>9, WithBlocksStep
  <2>10. CASE at = "default insns"
    BY <1>1, <2>1, <2>2, <2>7, <2>10, WithBlocksStep
  <2> QED BY <1>1, <2>9, <2>10
<1> QED BY <1>2, <1>3

LEMMA PackageEndBlock == IInv /\ PackageInv /\ EndBlock => PackageInv'
<1> SUFFICES ASSUME IInv, PackageInv, EndBlock PROVE PackageInv'
  OBVIOUS
<1> DEFINE v == Function.blocks
           bs == PopBack(v)
           fa == Address(functions, functions.len)
<1>1. /\ phase = "module" /\ phase' = phase /\ at \in {"default insns", "insns"}
      /\ j = Len(BlockText.insns)
      /\ functions' = IF at = "insns" THEN functions ELSE WithBlocks(bs)
      /\ at' = IF at = "insns" THEN "blocks" ELSE "default blocks"
      /\ k' = k + 1 /\ UNCHANGED <<n, file, pool, globals, fresh>>
  BY DEF EndBlock
<1>2. /\ GoodBlocks(v, fa)
      /\ v.buf = 0 => v.len = 0 /\ v.cap = 0
      /\ v.len \in Nat /\ v.cap \in Nat /\ k \in Nat
  BY <1>1, BlockFacts
<1>3. CASE at = "insns"
  <2>1. BlockText = Text.blocks[k + 1] /\ functions' = functions /\ at' = "blocks"
    BY <1>1, <1>3 DEF BlockText, BlockTexts
  <2>2. /\ \A b \in 1 .. k : WholeBlock(v.items[b], Text.blocks[b])
        /\ BlockRead(v.items[k + 1], Text.blocks[k + 1], j)
    BY <1>1, <1>3, BlockFacts
  <2>3. WholeBlock(v.items[k + 1], Text.blocks[k + 1])
    BY <1>1, <2>1, <2>2 DEF WholeBlock
  <2>4. \A b \in 1 .. k + 1 : b \in 1 .. k \/ b = k + 1
    BY <1>2
  <2>5. \A b \in 1 .. k + 1 : WholeBlock(v.items[b], Text.blocks[b])
    BY <2>2, <2>3, <2>4, Zenon
  <2>6. /\ FunctionPart(Function, Text) /\ Text' = Text /\ String(Text.name)' = String(Text.name)
        /\ Returned(Text)' = Returned(Text) /\ ParamsOf(Text)' = ParamsOf(Text)
        /\ AllNamed(Text.locals)' = AllNamed(Text.locals)
        /\ \A x, b : WholeBlock(x, b)' = WholeBlock(x, b)
    BY <1>1, <1>3, PartFacts
  <2>7. Function' = Function
    BY <2>1 DEF Function
  <2>8. (\A b \in 1 .. k : WholeBlock(Function.blocks.items[b], Text.blocks[b]))'
    BY <1>1, <2>5, <2>6, <2>7
  <2>9. FunctionPart(Function, Text)'
    BY <1>3, <2>1, <2>6, <2>7, <2>8 DEF FunctionPart
  <2>10. BuffersApart'
    BY <1>1, <2>1, SameBuffers DEF PackageInv
  <2> QED BY <1>1, <1>3, <2>1, <2>9, <2>10, FunctionStep
<1>4. CASE at = "default insns"
  <2>1. functions' = WithBlocks(bs) /\ at' = "default blocks"
    BY <1>1, <1>4
  <2>2. v.len = 1
    BY <1>1, <1>4, BlockFacts
  <2>3. GoodBlocks(bs, fa)
    BY <1>2, <2>2, PopBlock
  <2>4. bs.buf = v.buf /\ v.buf # 0 /\ fresh' = fresh
    <3>1. bs.buf = v.buf
      BY DEF PopBack
    <3>2. v.buf # 0
      BY <1>2, <2>2
    <3>3. fresh' = fresh
      BY <1>1
    <3> QED BY <3>1, <3>2, <3>3
  <2> HIDE DEF bs
  <2> QED BY <1>1, <1>4, <2>1, <2>3, <2>4, WithBlocksStep
<1> QED BY <1>1, <1>3, <1>4

\* A step between functions that leaves the functions alone.
LEMMA FunctionsStay ==
  ASSUME FunctionsRead, at \notin InFunction, at' \notin InFunction, UNCHANGED <<n, file, pool>>,
         functions'.len = functions.len, functions'.items = functions.items
  PROVE  FunctionsRead'
<1>1. Read = DoneOf(n) /\ Read' = DoneOf(n)'
  BY Zenon DEF Read
<1>2. KeptTo(Read)' = KeptTo(Read)
  BY <1>1, SameText, SameProgram DEF DoneOf
<1>3. /\ functions.len = Len(KeptTo(Read)) + 0
      /\ \A r \in 1 .. Len(KeptTo(Read)) : FunctionRead(functions.items[r], KeptTo(Read)[r])
  BY DEF FunctionsRead
<1> QED BY <1>2, <1>3, SameProgram DEF FunctionsRead

LEMMA PackageReadPackageId == IInv /\ PackageInv /\ ReadPackageId => PackageInv'
<1> SUFFICES ASSUME IInv, PackageInv, ReadPackageId PROVE PackageInv'
  OBVIOUS
<1>1. /\ phase = "module" /\ phase' = phase /\ at = "package" /\ at' = "globals" /\ k' = 0
      /\ UNCHANGED <<n, file, pool, globals, functions, fresh>>
  BY DEF ReadPackageId
<1>2. BuffersApart' /\ FunctionsRead'
  BY <1>1, SameBuffers, FunctionsStay DEF PackageInv
<1>3. IsSeq(Module.globals)
  BY FilesAssumption DEF IInv, Module
<1>4. Len(Module.globals) \in Nat /\ Prefix(AllNamed(Module.globals), 0) = <<>>
  BY <1>3, SeqFacts, PrefixFacts
<1>5. globals = <<>>
  BY <1>1 DEF PackageInv, GlobalsRead
<1>6. 0 <= Len(Module.globals)
  BY <1>4
<1>7. GlobalsRead'
  BY <1>1, <1>4, <1>5, <1>6, SameProgram DEF GlobalsRead
<1> QED BY <1>1, <1>2, <1>7 DEF PackageInv

LEMMA PackageReadGlobalVar == IInv /\ PackageInv /\ ReadGlobalVar => PackageInv'
<1> SUFFICES ASSUME IInv, PackageInv, ReadGlobalVar PROVE PackageInv'
  OBVIOUS
<1> DEFINE all == AllNamed(Module.globals)
           v == Named(Module.globals[k + 1])
<1>1. /\ phase = "module" /\ phase' = phase /\ at = "globals" /\ k' = k + 1
      /\ k < Len(Module.globals) /\ globals' = Append(globals, v)
      /\ UNCHANGED <<at, n, file, pool, functions, fresh>>
  BY DEF ReadGlobalVar
<1>2. BuffersApart' /\ FunctionsRead'
  BY <1>1, SameBuffers, FunctionsStay DEF PackageInv
<1>3. IsSeq(Module.globals) /\ k \in Nat
  BY <1>1, FilesAssumption DEF IInv, Module, FunctionsFit
<1>4. Len(Module.globals) \in Nat
  BY <1>3, SeqFacts
<1>5. globals = Prefix(all, k)
  BY <1>1 DEF PackageInv, GlobalsRead
<1>6. v = all[k + 1] /\ k + 1 <= Len(Module.globals)
  <2>1. k + 1 \in 1 .. Len(Module.globals) /\ k + 1 <= Len(Module.globals)
    BY <1>1, <1>3, <1>4
  <2> QED BY <1>3, <2>1, AllNamedFacts
<1>7. Append(Prefix(all, k), all[k + 1]) = Prefix(all, k + 1)
  BY <1>3, PrefixFacts
<1>8. all' = all /\ Module' = Module
  BY <1>1, SameProgram
<1> HIDE DEF all, v
<1>9. globals' = Prefix(all, k + 1)
  BY <1>1, <1>5, <1>6, <1>7
<1>10. GlobalsRead'
  BY <1>1, <1>6, <1>8, <1>9 DEF GlobalsRead, all
<1> QED BY <1>1, <1>2, <1>10 DEF PackageInv

LEMMA PackageReserveFunctions == IInv /\ PackageInv /\ ReserveFunctions => PackageInv'
<1> SUFFICES ASSUME IInv, PackageInv, ReserveFunctions PROVE PackageInv'
  OBVIOUS
<1>1. /\ phase = "module" /\ phase' = phase /\ at = "attached" /\ at' = "functions"
      /\ functions' = Reserve(functions, Len(Module.functions), fresh + 1) /\ fresh' = fresh + 1
      /\ UNCHANGED <<n, file, pool, globals>>
  BY DEF ReserveFunctions
<1>2. functions.len = 0 /\ fresh \in Nat
  BY <1>1 DEF IInv, FunctionsFit, PackageInv, BuffersApart
<1>3. functions'.len = functions.len /\ functions'.items = functions.items
  BY <1>1 DEF Reserve
<1>4. FunctionsRead'
  BY <1>1, <1>3, FunctionsStay DEF PackageInv
<1>5. BuffersApart'
  BY <1>1, <1>2, <1>3, NoPlaces DEF BuffersApart
<1>6. GlobalsRead'
  BY <1>1, SameProgram DEF PackageInv, GlobalsRead
<1> QED BY <1>1, <1>4, <1>5, <1>6 DEF PackageInv

\* The functions that are kept stay what they are when one more is announced.
LEMMA PackageStartFunction == IInv /\ PackageInv /\ StartFunction => PackageInv'
<1> SUFFICES ASSUME IInv, PackageInv, StartFunction PROVE PackageInv'
  OBVIOUS
<1> DEFINE t == TextOf(n + 1)
           g == NewFunction(t)
           fs == EmplaceBack(functions, g, fresh + 1)
           l == Len(KeptTo(Read))
<1>1. /\ phase = "module"
      /\ (at = "attached" /\ n < Attached) \/ (at = "functions" /\ n < Texts)
  BY DEF StartFunction
<1>2. CASE getInvocableType(pool, t.type) = Garbage
  <2>1. phase' = "crashed" /\ UNCHANGED <<functions, fresh>>
    BY <1>2 DEF StartFunction
  <2> QED BY <2>1, SameBuffers DEF PackageInv
<1>3. CASE getInvocableType(pool, t.type) # Garbage
  <2>1. /\ functions' = fs /\ n' = n + 1 /\ at' = "params" /\ phase' = phase /\ fresh' = fresh + 1
        /\ UNCHANGED <<file, pool, globals>>
    BY <1>3 DEF StartFunction
  <2>2. /\ g.name = String(t.name) /\ g.flags = t.flags /\ g.returnVar = <<>>
        /\ g.locals = <<>> /\ g.blocks.buf = 0 /\ g.blocks.len = 0 /\ g.blocks.cap = 0
    BY DEF NewFunction, EmptyVector
  <2> HIDE DEF g
  <2>3. /\ functions.len \in Nat /\ functions.len = l /\ n \in Int /\ l \in Nat
        /\ Read = DoneOf(n)
        /\ \A r \in 1 .. l : FunctionRead(functions.items[r], KeptTo(Read)[r])
    <3>1. at \notin InFunction
      BY <1>1
    <3>2. /\ functions.len \in Nat /\ n \in Int /\ l \in Nat /\ Read = DoneOf(n)
          /\ functions.len = l + 0
          /\ \A r \in 1 .. l : FunctionRead(functions.items[r], KeptTo(Read)[r])
      BY <1>1, <3>1, ReadInside
    <3> QED BY <3>2
  <2> HIDE DEF l
  <2>4. /\ functions'.len = l + 1
        /\ functions'.items = [r \in 1 .. l + 1 |-> IF r = l + 1 THEN g ELSE functions.items[r]]
    BY <2>1, <2>3 DEF EmplaceBack
  <2> HIDE DEF fs
  <2>5. /\ functions'.items[l + 1] = g
        /\ \A r \in 1 .. l : functions'.items[r] = functions.items[r]
    <3>1. l + 1 \in 1 .. l + 1 /\ \A r \in 1 .. l : r \in 1 .. l + 1 /\ r # l + 1
      BY <2>3
    <3> QED BY <2>4, <3>1
  <2>6. Read' = Read
    <3>1. Read' = DoneOf(n - 1)'
      BY <2>1, Zenon DEF Read
    <3>2. n' - 1 = n
      BY <2>1, <2>3
    <3> QED BY <2>1, <2>3, <3>1, <3>2, SameText DEF DoneOf
  <2>7. KeptTo(Read)' = KeptTo(Read)
    BY <2>1, <2>6, SameProgram
  <2>8. (\A r \in 1 .. Len(KeptTo(Read)) : FunctionRead(functions.items[r], KeptTo(Read)[r]))'
    BY <2>1, <2>3, <2>5, <2>7, SameProgram DEF l
  <2>9. Function' = g
    BY <2>4, <2>5 DEF Function, Back
  <2>10. Text' = t /\ String(Text.name)' = String(t.name)
    BY <2>1, SameText DEF Text, TextOf, Attached, Module
  <2>11. FunctionPart(Function, Text)'
    BY <2>1, <2>2, <2>9, <2>10 DEF FunctionPart
  <2>12. FunctionsRead'
    BY <2>1, <2>4, <2>7, <2>8, <2>11 DEF FunctionsRead, l
  <2>13. GlobalsRead'
    BY <1>1, <2>1, SameProgram DEF PackageInv, GlobalsRead
  <2>14. BuffersApart'
    <3>1. BuffersApart /\ functions.len = l /\ \A r \in 1 .. l + 1 : r = l + 1 \/ r \in 1 .. l
      BY <2>3 DEF PackageInv
    <3>2. fresh \in Nat /\ fresh' \in Nat /\ \A b \in 0 .. fresh : b \in 0 .. fresh'
      BY <2>1, <3>1 DEF BuffersApart
    <3>3. ASSUME NEW f \in 1 .. l + 1
          PROVE  LET bs == functions'.items[f].blocks
                 IN  bs.buf \in 0 .. fresh' /\ (bs.buf = 0 => bs.len = 0 /\ bs.cap = 0)
      <4>1. CASE f = l + 1
        BY <2>2, <2>5, <3>2, <4>1
      <4>2. CASE f \in 1 .. l
        BY <2>5, <3>1, <3>2, <4>2 DEF BuffersApart
      <4> QED BY <3>1, <4>1, <4>2
    <3>4. ASSUME NEW f \in 1 .. l + 1, NEW h \in 1 .. l + 1,
                 functions'.items[f].blocks.buf = functions'.items[h].blocks.buf
          PROVE  f = h \/ functions'.items[f].blocks.buf = 0
      <4>1. CASE f = l + 1 \/ h = l + 1
        BY <2>2, <2>5, <3>4, <4>1
      <4>2. CASE f \in 1 .. l /\ h \in 1 .. l
        BY <2>5, <3>1, <3>4, <4>2 DEF BuffersApart
      <4> QED BY <3>1, <4>1, <4>2
    <3> QED BY <2>4, <3>2, <3>3, <3>4 DEF BuffersApart
  <2> QED BY <1>1, <2>1, <2>12, <2>13, <2>14 DEF PackageInv
<1> QED BY <1>2, <1>3

\* A function that was read to its end.
LEMMA PartIsWhole ==
  ASSUME IInv, PackageInv, phase = "module", at = "blocks", k = Len(Text.blocks)
  PROVE  FunctionRead(Function, Text)
<1>1. FunctionPart(Function, Text)
  <2>1. FunctionsRead
    BY DEF PackageInv
  <2> QED BY <2>1, Zenon DEF FunctionsRead
<1>2. Function.blocks.len = Len(Text.blocks)
  BY BlockFacts
<1>3. /\ Function.name = String(Text.name) /\ Function.flags = Text.flags
      /\ Function.returnVar = Returned(Text) /\ Function.params = ParamsOf(Text)
      /\ Function.locals = AllNamed(Text.locals)
      /\ \A b \in 1 .. k : WholeBlock(Function.blocks.items[b], Text.blocks[b])
  BY <1>1 DEF FunctionPart
<1> QED BY <1>2, <1>3 DEF FunctionRead

LEMMA PackageEndFunction == IInv /\ PackageInv /\ EndFunction => PackageInv'
<1> SUFFICES ASSUME IInv, PackageInv, EndFunction PROVE PackageInv'
  OBVIOUS
<1> DEFINE l == Len(KeptTo(Read))
           m == Read
<1>1. /\ phase = "module" /\ phase' = phase /\ at = "blocks" /\ k = Len(Text.blocks)
      /\ functions' = IF Ignored THEN PopBack(functions) ELSE functions
      /\ at' = IF n <= Attached THEN "attached" ELSE "functions"
      /\ UNCHANGED <<n, file, pool, globals, fresh>>
  BY DEF EndFunction
<1>2. at' \in {"attached", "functions"} /\ at' \notin InFunction /\ at \in InFunction
  BY <1>1
<1>3. /\ m = DoneOf(n - 1) /\ m \in Nat /\ l \in Nat /\ functions.len = l + 1
      /\ \A r \in 1 .. l : FunctionRead(functions.items[r], KeptTo(m)[r])
      /\ n \in Int /\ Attached \in Nat /\ KeptAt \in SUBSET (Nat \ {0}) /\ IsSeq(KeptTo(m))
      /\ KeptAt \in SUBSET (1 .. Len(Module.functions)) /\ n \in 0 .. Texts
      /\ Texts - Attached = Len(Module.functions) /\ Texts \in Nat
  BY <1>1, <1>2, ReadInside
<1>4. Read' = DoneOf(n)
  <2>1. Read' = DoneOf(n)'
    BY <1>2, Zenon DEF Read
  <2> QED BY <1>1, <2>1, SameText DEF DoneOf
<1>5. FunctionRead(Function, Text) /\ Function = functions.items[l + 1]
  BY <1>1, <1>3, PartIsWhole DEF Function, Back
<1> HIDE DEF l, m
<1>6. /\ Ignored => functions'.len = l /\ \A r \in 1 .. l : functions'.items[r] = functions.items[r]
      /\ ~Ignored => functions' = functions
  <2>1. Ignored => functions'.len = l
                   /\ functions'.items = [r \in 1 .. l |-> functions.items[r]]
    <3>1. functions.len - 1 = l
      BY <1>3, OneLess, Zenon
    <3> QED BY <1>1, <3>1 DEF PopBack
  <2> QED BY <1>1, <2>1
<1>7. BuffersApart'
  <2>1. CASE Ignored
    <3>1. BuffersApart /\ \A r \in 1 .. l : r \in 1 .. functions.len
      BY <1>3 DEF PackageInv
    <3> QED BY <1>1, <1>6, <2>1, <3>1 DEF BuffersApart
  <2>2. CASE ~Ignored
    BY <1>1, <1>6, <2>2, SameBuffers DEF PackageInv
  <2> QED BY <2>1, <2>2
<1>8. GlobalsRead'
  BY <1>1, <1>2, SameProgram DEF PackageInv, GlobalsRead
<1>9. /\ functions'.len = Len(KeptTo(DoneOf(n)))
      /\ \A r \in 1 .. Len(KeptTo(DoneOf(n))) :
           FunctionRead(functions'.items[r], KeptTo(DoneOf(n))[r])
  <2>1. CASE n <= Attached
    <3>1. DoneOf(n) = m /\ Ignored
      BY <1>3, <2>1 DEF DoneOf, Ignored
    <3> QED BY <1>3, <1>6, <3>1 DEF l, m
  <2>2. CASE ~(n <= Attached)
    <3>1. DoneOf(n) = m + 1 /\ n = Attached + (m + 1)
      BY <1>3, <2>2 DEF DoneOf
    <3>2. Text = Module.functions[m + 1]
      <4>1. n - Attached = m + 1
        BY <1>3, <3>1
      <4> QED BY <2>2, <4>1, Zenon DEF Text, TextOf
    <3>3. m + 1 \in DOMAIN Module.functions
      <4>1. m + 1 \in 1 .. Len(Module.functions)
        BY <1>3, <3>1
      <4>2. IsSeq(Module.functions)
        BY FilesAssumption DEF IInv, Module
      <4> QED BY <4>1, <4>2, SeqFacts
    <3>4. m + 1 \in KeptAt <=> ~Ignored
      BY <1>5, <2>2, <3>2, <3>3 DEF KeptAt, Ignored, FunctionRead
    <3>5. /\ m + 1 \in KeptAt => KeptTo(m + 1) = Append(KeptTo(m), Text)
          /\ m + 1 \notin KeptAt => KeptTo(m + 1) = KeptTo(m)
      BY <1>3, <3>2, SelectedStep DEF KeptTo
    <3>6. CASE Ignored
      <4>1. KeptTo(DoneOf(n)) = KeptTo(m) /\ Len(KeptTo(m)) = l
        BY <3>1, <3>4, <3>5, <3>6 DEF l, m
      <4> QED BY <1>3, <1>6, <3>6, <4>1
    <3>7. CASE ~Ignored
      <4>1. KeptTo(m + 1) = Append(KeptTo(m), Text) /\ functions' = functions
        BY <1>6, <3>4, <3>5, <3>7
      <4>2. /\ Len(KeptTo(m + 1)) = l + 1 /\ KeptTo(m + 1)[l + 1] = Text
            /\ \A r \in 1 .. l : KeptTo(m + 1)[r] = KeptTo(m)[r]
        BY <1>3, <4>1, AppendFacts DEF l, m
      <4>3. \A r \in 1 .. l + 1 : r \in 1 .. l \/ r = l + 1
        BY <1>3
      <4>4. \A r \in 1 .. l + 1 : FunctionRead(functions.items[r], KeptTo(m + 1)[r])
        BY <1>3, <1>5, <4>2, <4>3
      <4> QED BY <1>3, <3>1, <4>1, <4>2, <4>4
    <3> QED BY <3>6, <3>7
  <2> QED BY <2>1, <2>2
<1>10. FunctionsRead'
  <2>1. KeptTo(Read)' = KeptTo(DoneOf(n))
    BY <1>1, <1>4, SameProgram
  <2>2. functions'.len = Len(KeptTo(Read)') + 0
    BY <1>9, <2>1, SeqFacts, <1>3, SelectedStep DEF KeptTo
  <2> QED BY <1>1, <1>2, <1>9, <2>1, <2>2, SameProgram DEF FunctionsRead
<1> QED BY <1>1, <1>7, <1>8, <1>10 DEF PackageInv

LEMMA PackageEndModule == IInv /\ PackageInv /\ EndModule => PackageInv'
<1> SUFFICES ASSUME IInv, PackageInv, EndModule PROVE PackageInv'
  OBVIOUS
<1>1. /\ phase = "module" /\ phase' = "code" /\ at = "functions" /\ n = Texts
      /\ UNCHANGED <<file, pool, globals, functions, fresh>>
  BY DEF EndModule
<1>2. /\ Read = DoneOf(n) /\ functions.len = Len(KeptTo(Read)) + 0
      /\ Texts - Attached = Len(Module.functions) /\ Attached \in Nat
      /\ Len(Module.functions) \in Nat /\ Texts \in Nat
      /\ KeptAt \in SUBSET (1 .. Len(Module.functions)) /\ KeptAt \in SUBSET (Nat \ {0})
      /\ Len(KeptTo(Read)) \in Nat
      /\ \A r \in 1 .. Len(KeptTo(Read)) : FunctionRead(functions.items[r], KeptTo(Read)[r])
  <2>1. at \notin InFunction
    BY <1>1
  <2> QED BY <1>1, <2>1, ReadInside
<1>3. Read = Len(Module.functions)
  BY <1>1, <1>2 DEF DoneOf
<1>4. KeptTo(Read) = Kept
  <2>1. UpTo(KeptAt, Len(Module.functions)) = KeptAt
    BY <1>2, UpToFacts
  <2> QED BY <1>3, <2>1 DEF KeptTo, Kept
<1>5. functions.len = Len(Kept)
  BY <1>2, <1>4
<1>6. globals = AllNamed(Module.globals)
  BY <1>1 DEF PackageInv, GlobalsRead
<1>7. BuffersApart'
  BY <1>1, SameBuffers DEF PackageInv
<1> QED BY <1>1, <1>2, <1>4, <1>5, <1>6, <1>7, SameProgram DEF PackageInv

-----------------------------------------------------------------------------
(* The other steps.                                                        *)

LEMMA PackagePool ==
  IInv /\ PackageInv /\ PoolNext /\ UNCHANGED <<at, counters, readerVars, codeVars>> => PackageInv'
<1> SUFFICES ASSUME IInv, PackageInv, PoolNext, UNCHANGED <<at, counters, readerVars>>
             PROVE  PackageInv'
  OBVIOUS
<1>1. /\ phase = "pool" /\ file' = file
      /\ phase' \in {"pool", "module", "lost", "aborted"}
  BY DEF PoolNext, ReadEntryCount, ReadTag, ReadField, PushBack, EndPool, Between
<1>2. /\ at = "package" /\ n = 0 /\ functions.len = 0 /\ file \in Files /\ globals = <<>>
      /\ UNCHANGED <<at, n, functions, fresh, globals>>
  BY <1>1 DEF IInv, FunctionsFit, PackageInv
<1>3. BuffersApart'
  BY <1>2, SameBuffers DEF PackageInv
<1>4. GlobalsRead'
  BY <1>2 DEF GlobalsRead
<1>5. FunctionsRead'
  <2>1. Attached \in Nat /\ IsSeq(Module.functions)
    BY <1>2, ModuleFacts, FilesAssumption DEF Module
  <2>2. Attached' = Attached /\ Module' = Module
    BY <1>1 DEF Attached, Module
  <2>3. Read' = 0
    <3>1. Read' = DoneOf(n)'
      BY <1>2, Zenon DEF Read
    <3> QED BY <1>2, <2>1, <2>2, <3>1 DEF DoneOf
  <2>4. KeptAt' \in SUBSET (Nat \ {0})
    <3>1. DOMAIN Module.functions = 1 .. Len(Module.functions) /\ Len(Module.functions) \in Nat
      BY <2>1, SeqFacts
    <3>2. \A a \in Nat : \A i \in 1 .. a : i \in Nat \ {0}
      OBVIOUS
    <3>3. KeptAt' \in SUBSET (DOMAIN Module.functions)
      BY <2>2 DEF KeptAt
    <3> QED BY <3>1, <3>2, <3>3, Zenon
  <2>5. KeptTo(Read)' = <<>>
    BY <2>3, <2>4, UpToFacts, NothingSelected DEF KeptTo
  <2>6. Len(KeptTo(Read)') = 0 /\ functions'.len = 0 /\ at' \notin InFunction
    BY <1>2, <2>5, EmptyFacts
  <2>7. functions'.len = Len(KeptTo(Read)') + 0
    <3>1. 0 + 0 = 0
      OBVIOUS
    <3> QED BY <2>6, <3>1, Zenon
  <2>8. \A r : r \notin 1 .. Len(KeptTo(Read)')
    BY <2>6, NoPlaces, Zenon
  <2> QED BY <2>6, <2>7, <2>8 DEF FunctionsRead
<1> QED BY <1>1, <1>2, <1>3, <1>4, <1>5 DEF PackageInv

LEMMA GenLeavesInput ==
  GenNext => /\ phase = "code" /\ phase' \in {"code", "done", "crashed", "undefined"}
             /\ UNCHANGED <<file, pool, globals, functions, fresh>>
BY DEF GenNext, DefineGlobal, EndGlobals, DeclareFunction, EndDeclarations, StartBody, EndCode,
       AllocateLocal, EndAllocas, CreateBlock, BranchToFirst, EndBody, EmitInsn, EmitTerminator,
       Emitting, Fail, Input

LEMMA PackageGen == PackageInv /\ GenNext => PackageInv'
<1> SUFFICES ASSUME PackageInv, GenNext PROVE PackageInv'
  OBVIOUS
<1>1. /\ phase = "code" /\ phase' \in {"code", "done", "crashed", "undefined"}
      /\ UNCHANGED <<file, pool, globals, functions, fresh>>
  BY GenLeavesInput
<1>2. BuffersApart'
  BY <1>1, SameBuffers DEF PackageInv
<1> QED BY <1>1, <1>2, SameProgram DEF PackageInv

LEMMA PackageStutter == PackageInv /\ UNCHANGED vars => PackageInv'
<1> SUFFICES ASSUME PackageInv, UNCHANGED vars PROVE PackageInv'
  OBVIOUS
<1>1. UNCHANGED <<file, phase, at, n, k, j, functions, fresh, globals, pool>>
  BY DEF vars
<1>2. BuffersApart'
  BY <1>1, SameBuffers DEF PackageInv
<1>3. Read' = Read
  BY <1>1, SameText DEF Read, DoneOf
<1>4. /\ Module' = Module /\ Kept' = Kept /\ KeptTo(Read)' = KeptTo(Read)
      /\ \A v : AllNamed(v)' = AllNamed(v)
      /\ \A f, t : FunctionRead(f, t)' = FunctionRead(f, t)
  BY <1>1, <1>3, SameProgram
<1>5. phase = "module" => GlobalsRead' /\ FunctionsRead'
  <2> SUFFICES ASSUME phase = "module" PROVE GlobalsRead' /\ FunctionsRead'
    OBVIOUS
  <2>1. GlobalsRead'
    BY <1>1, <1>4 DEF PackageInv, GlobalsRead
  <2>2. at \in InFunction => FunctionPart(Function, Text)'
    <3>1. Function' = Function /\ Text' = Text
      BY <1>1, SameText DEF Function
    <3>2. /\ String(Text.name)' = String(Text.name) /\ Returned(Text)' = Returned(Text)
          /\ ParamsOf(Text)' = ParamsOf(Text) /\ AllNamed(Text.locals)' = AllNamed(Text.locals)
          /\ \A x, b : WholeBlock(x, b)' = WholeBlock(x, b)
          /\ \A x, b, m : BlockRead(x, b, m)' = BlockRead(x, b, m)
      BY <1>1, <3>1, SameText, SameProgram
    <3>3. at \in InFunction => FunctionPart(Function, Text)
      BY DEF PackageInv, FunctionsRead
    <3> QED BY <1>1, <3>1, <3>2, <3>3 DEF FunctionPart
  <2> QED BY <1>1, <1>4, <2>1, <2>2 DEF PackageInv, FunctionsRead
<1> QED BY <1>1, <1>2, <1>4, <1>5 DEF PackageInv

LEMMA InitPackage == Init => PackageInv
<1> SUFFICES ASSUME Init PROVE PackageInv
  OBVIOUS
<1>1. phase = "pool" /\ fresh = 0 /\ functions.len = 0 /\ globals = <<>>
  BY DEF Init, InitPool, InitModule, EmptyVector
<1>2. BuffersApart
  BY <1>1, NoPlaces DEF BuffersApart
<1> QED BY <1>1, <1>2 DEF PackageInv

LEMMA StepPackage == IInv /\ PackageInv /\ [Next]_vars => PackageInv'
<1> SUFFICES ASSUME IInv, PackageInv, [Next]_vars PROVE PackageInv'
  OBVIOUS
<1>1. CASE PoolNext /\ UNCHANGED <<at, counters, readerVars, codeVars>>
  BY <1>1, PackagePool
<1>2. CASE ReaderNext
  BY <1>2, PackageReadPackageId, PackageReadGlobalVar, PackageEndLoop,
     PackageReserveFunctions, PackageEndModule, PackageStartFunction, PackageReadParam,
     PackageReadReturnVar, PackageReadDefault, PackageReadLocalVar, PackageStartBlock,
     PackageReadInsn, PackageEndBlock, PackageReserveBlocks, PackageEndFunction, Zenon
     DEF ReaderNext
<1>3. CASE GenNext
  BY <1>3, PackageGen
<1>4. CASE UNCHANGED vars
  BY <1>4, PackageStutter
<1> QED BY <1>1, <1>2, <1>3, <1>4 DEF Next

\* BIRReadPackage, readFunction, readBasicBlock, readInsn: for every file,
\* well-formed or not, the package that is read is the module of the file: its
\* globals, and the functions that are kept, in their order, each with its
\* variables and its blocks with their instructions.
THEOREM PackageIsTheModule == Spec => []PackageInv
<1> QED BY InitPackage, StepPackage, InitIInv, StepIInv, PTL DEF Spec

-----------------------------------------------------------------------------
(* The code.                                                               *)

LEMMA SameCode ==
  ASSUME file' = file, pool' = pool
  PROVE  /\ Module' = Module /\ Kept' = Kept /\ GlobalsOf' = GlobalsOf
         /\ Declarations' = Declarations
         /\ \A u, place, p, m : CodeUpTo(u, place, p, m)' = CodeUpTo(u, place, p, m)
         /\ \A t : Translated(t)' = Translated(t)
         /\ IsTranslatable' = IsTranslatable
<1>1. /\ \A x : String(x)' = String(x)
      /\ \A x : TypeOfIndex(x)' = TypeOfIndex(x)
      /\ Module' = Module /\ Kept' = Kept
  BY SameText, SameProgram
<1>2. \A x : TypeAt(x)' = TypeAt(x)
  BY <1>1 DEF TypeAt
<1>3. GlobalsOf' = GlobalsOf
  BY <1>1, <1>2 DEF GlobalsOf
<1>4. /\ \A t, a, s, x, b : With(t, a, s, x, b)' = With(t, a, s, x, b)
      /\ \A t : Allocas(t)' = Allocas(t)
      /\ \A t, P : Stored(t, P)' = Stored(t, P)
  BY <1>1, <1>2 DEF With, Allocas, Stored
<1>5. \A t : DeclarationOf(t)' = DeclarationOf(t)
  BY <1>4 DEF DeclarationOf
<1>6. \A i : ItemOf(i)' = ItemOf(i)
  <2>1. \A t, v : Literal(t, v)' = Literal(t, v)
    BY <1>1 DEF Literal
  <2>2. \A o : ValOf(o)' = ValOf(o)
    BY <1>1 DEF ValOf
  <2> QED BY <1>1, <2>1, <2>2 DEF ItemOf
<1>7. \A t, i : EndOf(t, i)' = EndOf(t, i)
  <2>1. \A o : ValOf(o)' = ValOf(o)
    BY <1>1 DEF ValOf
  <2>2. \A t, x : BlockOf(t, x)' = BlockOf(t, x)
    BY <1>1 DEF BlockOf
  <2> QED BY <1>1, <2>1, <2>2 DEF EndOf
<1>8. \A t, s : CodeAt(t, s)' = CodeAt(t, s)
  <2>1. \A i : IsNil(i)' = IsNil(i)
    <3>1. \A t, v : Literal(t, v)' = Literal(t, v)
      BY <1>1 DEF Literal
    <3> QED BY <3>1 DEF IsNil
  <2>2. \A t, i : IsMainsNil(t, i)' = IsMainsNil(t, i)
    BY <1>1, <2>1 DEF IsMainsNil
  <2> QED BY <2>2 DEF CodeAt
<1>9. /\ \A t, b : BlockCode(t, b)' = BlockCode(t, b)
      /\ \A t, b, m : BlockPart(t, b, m)' = BlockPart(t, b, m)
  BY <1>1, <1>6, <1>7, <1>8 DEF BlockCode, BlockPart, PlainItems, ItemsOf
<1>10. \A t : Translated(t)' = Translated(t)
  BY <1>4, <1>9 DEF Translated
<1>11. /\ \A t : EmptyBlocks(t)' = EmptyBlocks(t)
       /\ \A t, p, m : BlocksPart(t, p, m)' = BlocksPart(t, p, m)
  BY <1>9 DEF EmptyBlocks, BlocksPart
<1>12. \A t, place, p, m : PartAt(t, place, p, m)' = PartAt(t, place, p, m)
  BY <1>4, <1>10, <1>11 DEF PartAt
<1>13. \A u, place, p, m : CodeUpTo(u, place, p, m)' = CodeUpTo(u, place, p, m)
  BY <1>1, <1>5, <1>10, <1>12 DEF CodeUpTo
<1>14. Declarations' = Declarations
  BY <1>1, <1>5 DEF Declarations
<1>15. IsTranslatable' = IsTranslatable
  <2>1. \A x : HasType(x)' = HasType(x)
    BY <1>1 DEF HasType
  <2>2. \A t, o : TypeOfOperand(t, o)' = TypeOfOperand(t, o)
    BY <1>1 DEF TypeOfOperand
  <2>3. \A i : IsNil(i)' = IsNil(i)
    <3>1. \A t, v : Literal(t, v)' = Literal(t, v)
      BY <1>1 DEF Literal
    <3> QED BY <3>1 DEF IsNil
  <2>4. \A t, i : InsnIsTranslatable(t, i)' = InsnIsTranslatable(t, i)
    BY <1>1, <2>2, <2>3 DEF InsnIsTranslatable
  <2>5. \A t : BodyIsTranslatable(t)' = BodyIsTranslatable(t)
    BY <2>1, <2>4 DEF BodyIsTranslatable
  <2> QED BY <1>1, <2>1, <2>5 DEF IsTranslatable
<1> QED BY <1>1, <1>3, <1>10, <1>13, <1>14, <1>15

\* A step of the code generator, its outcome given in what stands in the file.
LEMMA CodeStep ==
  ASSUME phase' = "code", file' = file, pool' = pool, CountersFit',
         at' \in {"globals", "declare", "bodies"} \cup InBody,
         at' = "globals" => llvmGlobals' = Prefix(GlobalsOf, k') /\ llvmFunctions' = <<>>,
         at' # "globals" => llvmGlobals' = GlobalsOf,
         at' = "declare" => llvmFunctions' = Prefix(Declarations, k'),
         at' \in {"bodies"} \cup InBody => llvmFunctions' = CodeUpTo(n', at', k', j')
  PROVE  CodeInv'
<1>1. CodeFits'
  BY SameCode, Zenon DEF CodeFits
<1>2. /\ phase' # "crashed" /\ phase' # "undefined" /\ phase' # "done"
      /\ phase' \notin {"pool", "module"}
  OBVIOUS
<1> QED BY <1>1, <1>2, Zenon DEF CodeInv, NothingIsMissing, CodeIsTheProgram

\* A step into what the code generator has no code for.
LEMMA CodeGivesUp ==
  ASSUME phase' = "undefined", file' = file, pool' = pool, ~IsTranslatable
  PROVE  CodeInv'
<1>1. ~IsTranslatable'
  BY SameCode
<1>2. /\ phase' # "crashed" /\ phase' # "code" /\ phase' # "done"
      /\ phase' \notin {"pool", "module"}
  OBVIOUS
<1> QED BY <1>1, <1>2, Zenon DEF CodeInv, NothingIsMissing, CodeIsTheProgram

LEMMA KeptFacts ==
  ASSUME IInv, PackageInv, phase = "code"
  PROVE  /\ IsSeq(Kept) /\ Len(Kept) \in Nat /\ DOMAIN Kept = 1 .. Len(Kept)
         /\ functions.len = Len(Kept)
         /\ \A r \in 1 .. Len(Kept) : IsText(Kept[r]) /\ FunctionRead(functions.items[r], Kept[r])
         /\ IsSeq(Module.globals) /\ globals = AllNamed(Module.globals)
         /\ Len(Module.globals) \in Nat /\ DOMAIN Module.globals = 1 .. Len(Module.globals)
<1>1. file \in Files /\ IsSeq(Module.functions) /\ IsSeq(Module.globals)
  BY FilesAssumption DEF IInv, Module
<1>2. /\ DOMAIN Module.functions = 1 .. Len(Module.functions) /\ Len(Module.functions) \in Nat
      /\ DOMAIN Module.globals = 1 .. Len(Module.globals) /\ Len(Module.globals) \in Nat
  BY <1>1, SeqFacts
<1>3. KeptAt \in SUBSET (1 .. Len(Module.functions))
  BY <1>2 DEF KeptAt
<1>4. /\ IsSeq(Kept) /\ DOMAIN Kept = 1 .. Cardinality(KeptAt) /\ Len(Kept) = Cardinality(KeptAt)
      /\ \A r \in 1 .. Cardinality(KeptAt) : \E i \in KeptAt : Kept[r] = Module.functions[i]
      /\ Cardinality(KeptAt) \in Nat
  BY <1>2, <1>3, SelectedFacts DEF Kept
<1>5. \A i \in KeptAt : IsText(Module.functions[i])
  BY <1>1, <1>2, <1>3, FilesAssumption DEF Module
<1>6. /\ functions.len = Len(Kept) /\ globals = AllNamed(Module.globals)
      /\ \A r \in 1 .. Len(Kept) : FunctionRead(functions.items[r], Kept[r])
  BY DEF PackageInv
<1> QED BY <1>1, <1>2, <1>4, <1>5, <1>6

LEMMA TextFacts ==
  ASSUME NEW t, IsText(t)
  PROVE  /\ IsSeq(t.locals) /\ Len(t.locals) \in Nat /\ DOMAIN t.locals = 1 .. Len(t.locals)
         /\ IsSeq(Allocas(t)) /\ Len(Allocas(t)) = Len(t.locals)
         /\ ArgsAt(t) \in SUBSET (1 .. Len(t.locals)) /\ ArgsAt(t) \in SUBSET (Nat \ {0})
         /\ IsSeq(t.blocks) /\ Len(t.blocks) \in Nat /\ DOMAIN t.blocks = 1 .. Len(t.blocks)
         /\ IsSeq(EmptyBlocks(t)) /\ Len(EmptyBlocks(t)) = Len(t.blocks)
         /\ IsSeq(t.defaults) /\ Len(t.defaults) \in Nat /\ DOMAIN t.defaults = 1 .. Len(t.defaults)
         /\ t.flags \in Int
<1>1. IsSeq(t.locals) /\ IsSeq(t.blocks) /\ IsSeq(t.defaults) /\ t.flags \in Int
  BY DEF IsText
<1>2. /\ Len(t.locals) \in Nat /\ DOMAIN t.locals = 1 .. Len(t.locals)
      /\ Len(t.blocks) \in Nat /\ DOMAIN t.blocks = 1 .. Len(t.blocks)
      /\ Len(t.defaults) \in Nat /\ DOMAIN t.defaults = 1 .. Len(t.defaults)
  BY <1>1, SeqFacts
<1>3. Allocas(t) = [i \in 1 .. Len(t.locals) |-> Allocas(t)[i]]
  BY <1>2 DEF Allocas
<1>4. EmptyBlocks(t) = [i \in 1 .. Len(t.blocks) |-> EmptyBlocks(t)[i]]
  BY <1>2 DEF EmptyBlocks
<1>5. ArgsAt(t) \in SUBSET (1 .. Len(t.locals))
  BY <1>2 DEF ArgsAt
<1>6. ArgsAt(t) \in SUBSET (Nat \ {0})
  <2>1. \A l \in Nat : 1 .. l \in SUBSET (Nat \ {0})
    OBVIOUS
  <2> QED BY <1>2, <1>5, <2>1
<1> QED BY <1>1, <1>2, <1>3, <1>4, <1>5, <1>6, FunctionIsSeq

\* FunctionCodeGen, isExternalFunction: the bit of the flags that says native.
LEMMA NativeFlags == \A x \in Int : (x \div 2) % 2 = 1 <=> x % 4 \in {2, 3}
OBVIOUS

LEMMA CodeReader ==
  IInv /\ PackageInv /\ ProgramIsWellFormed /\ CodeInv /\ ReaderNext /\ UNCHANGED codeVars => CodeInv'
<1> SUFFICES ASSUME IInv, PackageInv, ProgramIsWellFormed, CodeInv, ReaderNext, UNCHANGED codeVars
             PROVE  CodeInv'
  OBVIOUS
<1>1. phase = "module"
  BY DEF ReaderNext, ReadPackageId, ReadGlobalVar, EndLoop, ReserveFunctions, EndModule,
         StartFunction, ReadParam, ReadReturnVar, ReadDefault, ReadLocalVar, StartBlock,
         ReadInsn, EndBlock, ReserveBlocks, EndFunction
<1>2. llvmGlobals = <<>> /\ llvmFunctions = <<>> /\ llvmGlobals' = <<>> /\ llvmFunctions' = <<>>
  BY <1>1 DEF CodeInv, codeVars
<1>3. CASE EndModule
  <2>1. /\ phase' = "code" /\ at' = "globals" /\ n' = 0 /\ k' = 0 /\ UNCHANGED <<file, pool>>
    BY <1>3 DEF EndModule
  <2>2. Len(Module.globals) \in Nat /\ Module' = Module
    BY <2>1, SeqFacts, SameProgram, FilesAssumption DEF IInv, Module
  <2>3. CountersFit'
    BY <2>1, <2>2 DEF CountersFit, InBody
  <2>4. Prefix(GlobalsOf, 0) = <<>>
    BY PrefixFacts
  <2>5. at' # "declare" /\ at' \notin {"bodies"} \cup InBody
    BY <2>1 DEF InBody
  <2> QED BY <1>2, <2>1, <2>3, <2>4, <2>5, CodeStep
<1>4. CASE StartFunction
  <2>1. n + 1 \in 1 .. Texts
    BY <1>1, <1>4, NewFunctionFits DEF StartFunction
  <2>2. getInvocableType(pool, TextOf(n + 1).type) # Garbage
    BY <1>1, <2>1 DEF ProgramIsWellFormed
  <2>3. phase' = "module"
    BY <1>1, <1>4, <2>2 DEF StartFunction
  <2> QED BY <1>2, <2>3 DEF CodeInv, NothingIsMissing, CodeIsTheProgram
<1>5. CASE ~EndModule /\ ~StartFunction
  <2>1. phase' \in {"module", "aborted"}
    BY <1>1, <1>5
       DEF ReaderNext, ReadPackageId, ReadGlobalVar, EndLoop, ReserveFunctions,
           ReadParam, ReadReturnVar, ReadDefault, ReadLocalVar, StartBlock,
           ReadInsn, EndBlock, ReserveBlocks, EndFunction
  <2> QED BY <1>2, <2>1 DEF CodeInv, NothingIsMissing, CodeIsTheProgram
<1> QED BY <1>3, <1>4, <1>5

LEMMA CodePool == CodeInv /\ PoolNext /\ UNCHANGED codeVars => CodeInv'
<1> SUFFICES ASSUME CodeInv, PoolNext, UNCHANGED codeVars PROVE CodeInv'
  OBVIOUS
<1>1. phase = "pool" /\ phase' \in {"pool", "module", "lost", "aborted"}
  BY DEF PoolNext, ReadEntryCount, ReadTag, ReadField, PushBack, EndPool, Between
<1>2. llvmGlobals' = <<>> /\ llvmFunctions' = <<>>
  BY <1>1 DEF CodeInv, codeVars
<1> QED BY <1>1, <1>2 DEF CodeInv, NothingIsMissing, CodeIsTheProgram

USE DEF Emitting, Input, codeVars

LEMMA CodeDefineGlobal ==
  IInv /\ PackageInv /\ CodeInv /\ DefineGlobal => CodeInv'
<1> SUFFICES ASSUME IInv, PackageInv, CodeInv, DefineGlobal PROVE CodeInv'
  OBVIOUS
<1> DEFINE x == [name |-> globals[k + 1].name, type |-> LLVMType(globals[k + 1].type.tag)]
<1>1. /\ phase = "code" /\ at = "globals" /\ k < Len(globals)
      /\ UNCHANGED <<at, n, file, pool, llvmFunctions>>
  BY DEF DefineGlobal, Fail
<1>2. /\ IsSeq(Module.globals) /\ globals = AllNamed(Module.globals)
      /\ Len(Module.globals) \in Nat /\ DOMAIN Module.globals = 1 .. Len(Module.globals)
  BY <1>1, KeptFacts
<1>3. /\ CountersFit /\ llvmGlobals = Prefix(GlobalsOf, k) /\ llvmFunctions = <<>>
  BY <1>1 DEF CodeInv, CodeFits
<1>4. k \in 0 .. Len(Module.globals) /\ n = 0
  BY <1>1, <1>3 DEF CountersFit
<1>5. k \in Nat /\ k + 1 \in 1 .. Len(Module.globals) /\ k + 1 \in 0 .. Len(Module.globals)
  <2>1. k < Len(Module.globals)
    BY <1>1, <1>2, AllNamedFacts
  <2> QED BY <1>2, <1>4, <2>1
<1>6. x = GlobalsOf[k + 1]
  <2>1. globals[k + 1] = Named(Module.globals[k + 1])
    BY <1>2, <1>5, AllNamedFacts
  <2> QED BY <1>2, <1>5, <2>1 DEF GlobalsOf, Named, TypeAt
<1>7. CASE ~HasLLVMType(globals[k + 1].type.tag)
  <2>1. globals[k + 1].type = TypeOfIndex(Module.globals[k + 1].type)
    <3>1. globals[k + 1] = Named(Module.globals[k + 1])
      BY <1>2, <1>5, AllNamedFacts
    <3> QED BY <3>1 DEF Named
  <2>2. ~HasType(Module.globals[k + 1].type) /\ k + 1 \in DOMAIN Module.globals
    BY <1>2, <1>5, <1>7, <2>1 DEF HasType
  <2>3. ~IsTranslatable
    BY <2>2, Zenon DEF IsTranslatable
  <2>4. phase' = "undefined"
    BY <1>7 DEF DefineGlobal, Fail
  <2> QED BY <1>1, <2>3, <2>4, CodeGivesUp
<1>8. CASE HasLLVMType(globals[k + 1].type.tag)
  <2>1. llvmGlobals' = Append(llvmGlobals, x) /\ k' = k + 1 /\ phase' = "code"
    BY <1>1, <1>8 DEF DefineGlobal
  <2> HIDE DEF x
  <2>2. llvmGlobals' = Prefix(GlobalsOf, k')
    BY <1>3, <1>5, <1>6, <2>1, PrefixFacts
  <2>3. Module' = Module
    BY <1>1, SameProgram
  <2>4. CountersFit'
    BY <1>1, <1>4, <1>5, <2>1, <2>3 DEF CountersFit, InBody
  <2>5. at' = "globals" /\ at' # "declare" /\ at' \notin {"bodies"} \cup InBody
    BY <1>1 DEF InBody
  <2> QED BY <1>1, <1>3, <2>1, <2>2, <2>4, <2>5, CodeStep
<1> QED BY <1>7, <1>8

LEMMA CodeEndGlobals ==
  IInv /\ PackageInv /\ CodeInv /\ EndGlobals => CodeInv'
<1> SUFFICES ASSUME IInv, PackageInv, CodeInv, EndGlobals PROVE CodeInv'
  OBVIOUS
<1>1. /\ phase = "code" /\ phase' = "code" /\ at = "globals" /\ at' = "declare"
      /\ k = Len(globals) /\ k' = 0 /\ UNCHANGED <<n, file, pool, llvmGlobals, llvmFunctions>>
  BY DEF EndGlobals
<1>2. /\ IsSeq(Module.globals) /\ globals = AllNamed(Module.globals)
      /\ Len(Module.globals) \in Nat /\ DOMAIN Module.globals = 1 .. Len(Module.globals)
      /\ Len(Kept) \in Nat
  BY <1>1, KeptFacts
<1>3. /\ CountersFit /\ llvmGlobals = Prefix(GlobalsOf, k) /\ llvmFunctions = <<>>
  BY <1>1 DEF CodeInv, CodeFits
<1>4. IsSeq(GlobalsOf) /\ Len(GlobalsOf) = Len(Module.globals)
  <2>1. GlobalsOf = [i \in 1 .. Len(Module.globals) |-> GlobalsOf[i]]
    BY <1>2 DEF GlobalsOf
  <2> QED BY <1>2, <2>1, FunctionIsSeq
<1>5. llvmGlobals' = GlobalsOf
  BY <1>1, <1>2, <1>3, <1>4, AllNamedFacts, WholePrefix
<1>6. Prefix(Declarations, 0) = <<>>
  BY PrefixFacts
<1>7. Kept' = Kept /\ n' = 0 /\ 0 \in 0 .. Len(Kept)
  BY <1>1, <1>2, <1>3, SameProgram DEF CountersFit
<1>8. CountersFit'
  BY <1>1, <1>7 DEF CountersFit, InBody
<1>9. at' # "globals" /\ at' \notin {"bodies"} \cup InBody
  BY <1>1 DEF InBody
<1> QED BY <1>1, <1>3, <1>5, <1>6, <1>8, <1>9, CodeStep

\* addFunctionToModule: what is declared is what the file declares.
LEMMA DeclaredIsDeclaration ==
  ASSUME NEW f, NEW t, FunctionRead(f, t), IsText(t),
         String(t.name) # "main" => t.returnVar # <<>>
  PROVE  Declared(f) = DeclarationOf(t)
<1>1. /\ f.name = String(t.name) /\ f.returnVar = Returned(t) /\ f.params = ParamsOf(t)
  BY DEF FunctionRead
<1>2. [i \in DOMAIN f.params |-> LLVMType(f.params[i].type.tag)]
        = [i \in DOMAIN t.defaults |-> TypeAt(t.defaults[i])]
  BY <1>1 DEF ParamsOf, TypeAt
<1>3. getRetValType(f) = IF String(t.name) = "main" THEN "void" ELSE TypeAt(t.returnVar[1].type)
  <2>1. CASE String(t.name) = "main"
    BY <1>1, <2>1 DEF getRetValType, isMainFunction
  <2>2. CASE String(t.name) # "main"
    <3>1. f.returnVar = <<Named(t.returnVar[1])>> /\ f.returnVar # <<>>
      BY <1>1, <2>2 DEF Returned
    <3>2. f.returnVar[1].type = TypeOfIndex(t.returnVar[1].type)
      BY <3>1 DEF Named
    <3> QED BY <1>1, <2>2, <3>1, <3>2 DEF getRetValType, isMainFunction, TypeAt
  <2> QED BY <2>1, <2>2
<1> QED BY <1>1, <1>2, <1>3, Zenon DEF Declared, DeclarationOf, With

\* A function that cannot be declared has a parameter or a result of no type.
LEMMA UndeclarableFacts ==
  ASSUME NEW f, NEW t, FunctionRead(f, t), ~Declarable(f),
         String(t.name) # "main" => t.returnVar # <<>>
  PROVE  ~ /\ \A p \in DOMAIN t.defaults : HasType(t.defaults[p])
           /\ String(t.name) = "main" \/ (t.returnVar # <<>> /\ HasType(t.returnVar[1].type))
<1>1. /\ f.name = String(t.name) /\ f.returnVar = Returned(t) /\ f.params = ParamsOf(t)
  BY DEF FunctionRead
<1>2. CASE \E i \in DOMAIN f.params : ~HasLLVMType(f.params[i].type.tag)
  BY <1>1, <1>2 DEF ParamsOf, HasType
<1>3. CASE /\ String(t.name) # "main"
           /\ f.returnVar # <<>> => ~HasLLVMType(f.returnVar[1].type.tag)
  <2>1. f.returnVar = <<Named(t.returnVar[1])>> /\ f.returnVar # <<>>
    BY <1>1, <1>3 DEF Returned
  <2>2. f.returnVar[1].type = TypeOfIndex(t.returnVar[1].type)
    BY <2>1 DEF Named
  <2> QED BY <1>3, <2>1, <2>2 DEF HasType
<1> QED BY <1>1, <1>2, <1>3 DEF Declarable, isMainFunction

\* What the front end sees to, of a function that is kept.
LEMMA WellFormedFacts ==
  ASSUME ProgramIsWellFormed, phase = "code"
  PROVE  /\ \A r, s \in DOMAIN Kept : String(Kept[r].name) = String(Kept[s].name) => r = s
         /\ \A r \in DOMAIN Kept : /\ String(Kept[r].name) # "main" => Kept[r].returnVar # <<>>
                                   /\ IsNative(Kept[r]) \/ BodyIsWellFormed(Kept[r])
BY DEF ProgramIsWellFormed

LEMMA CodeDeclareFunction ==
  IInv /\ PackageInv /\ ProgramIsWellFormed /\ CodeInv /\ DeclareFunction => CodeInv'
<1> SUFFICES ASSUME IInv, PackageInv, ProgramIsWellFormed, CodeInv, DeclareFunction PROVE CodeInv'
  OBVIOUS
<1> DEFINE f == functions.items[k + 1]
           t == Kept[k + 1]
<1>1. /\ phase = "code" /\ at = "declare" /\ k < functions.len
      /\ UNCHANGED <<at, n, file, pool, llvmGlobals>>
  BY DEF DeclareFunction, Fail
<1>2. /\ Len(Kept) \in Nat /\ DOMAIN Kept = 1 .. Len(Kept) /\ functions.len = Len(Kept)
      /\ \A r \in 1 .. Len(Kept) : IsText(Kept[r]) /\ FunctionRead(functions.items[r], Kept[r])
  BY <1>1, KeptFacts
<1>3. /\ CountersFit /\ llvmGlobals = GlobalsOf /\ llvmFunctions = Prefix(Declarations, k)
  BY <1>1 DEF CodeInv, CodeFits
<1>4. k \in 0 .. Len(Kept) /\ n = 0
  BY <1>1, <1>3 DEF CountersFit
<1>5. k \in Nat /\ k + 1 \in 1 .. Len(Kept) /\ k + 1 \in 0 .. Len(Kept)
  BY <1>1, <1>2, <1>4
<1>6. String(t.name) # "main" => t.returnVar # <<>>
  BY <1>1, <1>2, <1>5, WellFormedFacts
<1>7. FunctionRead(f, t) /\ IsText(t)
  BY <1>2, <1>5
<1>8. CASE ~Declarable(f)
  <2>1. ~IsTranslatable
    BY <1>2, <1>5, <1>6, <1>7, <1>8, UndeclarableFacts, Zenon DEF IsTranslatable
  <2>2. phase' = "undefined"
    BY <1>8 DEF DeclareFunction, Fail
  <2> QED BY <1>1, <2>1, <2>2, CodeGivesUp
<1>9. CASE Declarable(f)
  <2>1. llvmFunctions' = Append(llvmFunctions, Declared(f)) /\ k' = k + 1 /\ phase' = "code"
    BY <1>1, <1>9 DEF DeclareFunction
  <2>2. Declared(f) = DeclarationOf(t)
    BY <1>6, <1>7, DeclaredIsDeclaration
  <2>3. Declarations[k + 1] = DeclarationOf(t)
    BY <1>2, <1>5 DEF Declarations
  <2> HIDE DEF f, t
  <2>4. llvmFunctions' = Prefix(Declarations, k')
    BY <1>3, <1>5, <2>1, <2>2, <2>3, PrefixFacts
  <2>5. Kept' = Kept
    BY <1>1, SameProgram
  <2>6. CountersFit'
    BY <1>1, <1>4, <1>5, <2>1, <2>5 DEF CountersFit, InBody
  <2>7. at' = "declare" /\ at' # "globals" /\ at' \notin {"bodies"} \cup InBody
    BY <1>1 DEF InBody
  <2> QED BY <1>1, <1>3, <2>1, <2>4, <2>6, <2>7, CodeStep
<1> QED BY <1>8, <1>9

LEMMA CodeEndDeclarations ==
  IInv /\ PackageInv /\ CodeInv /\ EndDeclarations => CodeInv'
<1> SUFFICES ASSUME IInv, PackageInv, CodeInv, EndDeclarations PROVE CodeInv'
  OBVIOUS
<1>1. /\ phase = "code" /\ phase' = "code" /\ at = "declare" /\ at' = "bodies"
      /\ k = functions.len /\ UNCHANGED <<n, j, file, pool, llvmGlobals, llvmFunctions>>
  BY DEF EndDeclarations
<1>2. /\ Len(Kept) \in Nat /\ DOMAIN Kept = 1 .. Len(Kept) /\ functions.len = Len(Kept)
  BY <1>1, KeptFacts
<1>3. /\ CountersFit /\ llvmGlobals = GlobalsOf /\ llvmFunctions = Prefix(Declarations, k)
  BY <1>1 DEF CodeInv, CodeFits
<1>4. n = 0
  BY <1>1, <1>3 DEF CountersFit
<1>5. IsSeq(Declarations) /\ Len(Declarations) = Len(Kept)
  <2>1. Declarations = [i \in 1 .. Len(Kept) |-> Declarations[i]]
    BY <1>2 DEF Declarations
  <2> QED BY <1>2, <2>1, FunctionIsSeq
<1>6. llvmFunctions = Declarations
  BY <1>1, <1>2, <1>3, <1>5, WholePrefix
<1>7. \A p, m : CodeUpTo(0, "bodies", p, m) = Declarations
  <2>1. \A r \in 1 .. Len(Kept) : ~(r < 0) /\ r # 0
    BY <1>2
  <2> QED BY <1>2, <2>1 DEF CodeUpTo, Declarations
<1>8. Kept' = Kept /\ n' = 0 /\ 0 \in 0 .. Len(Kept)
  BY <1>1, <1>2, <1>4, SameProgram
<1>9. CountersFit'
  BY <1>1, <1>8 DEF CountersFit, InBody
<1>10. at' # "globals" /\ at' # "declare" /\ llvmFunctions' = CodeUpTo(n', at', k', j')
  BY <1>1, <1>6, <1>7, <1>8
<1> QED BY <1>1, <1>3, <1>9, <1>10, CodeStep

\* Each function has its name, however far it is translated.
LEMMA NamesOfCode ==
  ASSUME NEW u, NEW place, NEW p, NEW m
  PROVE  /\ DOMAIN CodeUpTo(u, place, p, m) = DOMAIN Kept
         /\ \A r \in DOMAIN Kept : CodeUpTo(u, place, p, m)[r].name = String(Kept[r].name)
<1>1. \A t, a, s, x, b : With(t, a, s, x, b).name = String(t.name)
  BY DEF With
<1>2. \A t : Translated(t).name = String(t.name) /\ DeclarationOf(t).name = String(t.name)
  BY <1>1 DEF Translated, DeclarationOf
<1>3. \A t : PartAt(t, place, p, m).name = String(t.name)
  BY <1>1, <1>2 DEF PartAt
<1> QED BY <1>2, <1>3 DEF CodeUpTo

LEMMA CodeStartBody ==
  IInv /\ PackageInv /\ ProgramIsWellFormed /\ CodeInv /\ StartBody => CodeInv'
<1> SUFFICES ASSUME IInv, PackageInv, ProgramIsWellFormed, CodeInv, StartBody PROVE CodeInv'
  OBVIOUS
<1> DEFINE f == functions.items[n + 1]
           t == Kept[n + 1]
<1>1. /\ phase = "code" /\ phase' = "code" /\ at = "bodies" /\ n < functions.len /\ n' = n + 1
      /\ UNCHANGED <<j, file, pool, llvmGlobals, llvmFunctions>>
      /\ IF isExternalFunction(f) THEN UNCHANGED <<at, k, current>>
         ELSE current' = First(FunctionsNamed(f.name)) /\ at' = "allocas" /\ k' = 0
  BY DEF StartBody
<1>2. /\ Len(Kept) \in Nat /\ DOMAIN Kept = 1 .. Len(Kept) /\ functions.len = Len(Kept)
      /\ \A r \in 1 .. Len(Kept) : IsText(Kept[r]) /\ FunctionRead(functions.items[r], Kept[r])
  BY <1>1, KeptFacts
<1>3. CountersFit /\ llvmGlobals = GlobalsOf /\ llvmFunctions = CodeUpTo(n, "bodies", k, j)
  BY <1>1 DEF CodeInv, CodeFits
<1>4. n \in Nat /\ n + 1 \in 1 .. Len(Kept) /\ n + 1 \in 0 .. Len(Kept)
  <2>1. n \in 0 .. Len(Kept)
    BY <1>1, <1>3 DEF CountersFit
  <2> QED BY <1>1, <1>2, <2>1
<1>5. f.name = String(t.name) /\ f.flags = t.flags /\ IsText(t)
  BY <1>2, <1>4 DEF FunctionRead
<1>6. isExternalFunction(f) <=> IsNative(t)
  <2>1. t.flags \in Int
    BY <1>5 DEF IsText
  <2> QED BY <1>5, <2>1, NativeFlags DEF isExternalFunction, NativeFlag, IsNative
<1>7. \A place, p, m : PartAt(t, place, p, m) = DeclarationOf(t) =>
                        CodeUpTo(n + 1, place, p, m) = llvmFunctions
  <2>1. \A r \in 1 .. Len(Kept) : /\ r < n + 1 <=> r < n \/ r = n
                                  /\ r = n + 1 => ~(r < n) /\ r # n
    BY <1>4
  <2>2. PartAt(Kept[n], "bodies", k, j) = Translated(Kept[n])
    BY DEF PartAt
  <2> QED BY <1>2, <1>3, <2>1, <2>2 DEF CodeUpTo
<1>8. Kept' = Kept
  BY <1>1, SameProgram
<1>9. CASE IsNative(t)
  <2>1. at' = "bodies" /\ k' = k
    BY <1>1, <1>6, <1>9
  <2>2. PartAt(t, "bodies", k, j) = DeclarationOf(t)
    BY <1>9 DEF PartAt, Translated, DeclarationOf
  <2>3. llvmFunctions' = CodeUpTo(n', at', k', j')
    BY <1>1, <1>7, <2>1, <2>2
  <2>4. CountersFit'
    BY <1>1, <1>4, <1>8, <2>1 DEF CountersFit, InBody
  <2>5. at' # "globals" /\ at' # "declare"
    BY <2>1
  <2> QED BY <1>1, <1>3, <2>1, <2>3, <2>4, <2>5, CodeStep
<1>10. CASE ~IsNative(t)
  <2>1. at' = "allocas" /\ k' = 0 /\ current' = First(FunctionsNamed(f.name))
    BY <1>1, <1>6, <1>10
  <2>2. current' = n + 1
    <3>1. FunctionsNamed(f.name) = {n + 1}
      <4>1. \A r \in DOMAIN Kept : String(Kept[r].name) = f.name <=> r = n + 1
        BY <1>1, <1>2, <1>4, <1>5, WellFormedFacts
      <4>2. /\ DOMAIN llvmFunctions = DOMAIN Kept
            /\ \A r \in DOMAIN Kept : llvmFunctions[r].name = String(Kept[r].name)
        BY <1>3, NamesOfCode
      <4> QED BY <1>2, <1>4, <4>1, <4>2, Zenon DEF FunctionsNamed
    <3> QED BY <1>4, <2>1, <3>1 DEF First
  <2>3. PartAt(t, "allocas", 0, j) = DeclarationOf(t)
    <3>1. Prefix(Allocas(t), 0) = <<>>
      BY PrefixFacts
    <3>2. UpTo(ArgsAt(t), 0) = {}
      BY <1>5, TextFacts, UpToFacts
    <3>3. Stored(t, {}) = <<>>
      BY NothingSelected DEF Stored
    <3>4. PartAt(t, "allocas", 0, j)
            = With(t, Prefix(Allocas(t), 0), Stored(t, UpTo(ArgsAt(t), 0)), Null, <<>>)
      BY DEF PartAt
    <3> QED BY <3>1, <3>2, <3>3, <3>4 DEF DeclarationOf
  <2>4. llvmFunctions' = CodeUpTo(n', at', k', j')
    BY <1>1, <1>7, <2>1, <2>3
  <2>5. CountersFit'
    <3>1. 0 \in 0 .. Len(t.locals)
      BY <1>5, TextFacts
    <3> QED BY <1>1, <1>4, <1>8, <1>10, <2>1, <2>2, <3>1 DEF CountersFit, InBody
  <2>6. at' \in InBody /\ at' # "globals" /\ at' # "declare"
    BY <2>1 DEF InBody
  <2> QED BY <1>1, <1>3, <2>4, <2>5, <2>6, CodeStep
<1> QED BY <1>9, <1>10

LEMMA LastOrBefore == \A l \in Nat : \A r \in 1 .. l : r < l \/ r = l
OBVIOUS

LEMMA CodeEndCode ==
  IInv /\ PackageInv /\ CodeInv /\ EndCode => CodeInv'
<1> SUFFICES ASSUME IInv, PackageInv, CodeInv, EndCode PROVE CodeInv'
  OBVIOUS
<1>1. /\ phase = "code" /\ phase' = "done" /\ at = "bodies" /\ n = functions.len
      /\ UNCHANGED <<file, pool, llvmFunctions>>
  BY DEF EndCode
<1>2. Len(Kept) \in Nat /\ DOMAIN Kept = 1 .. Len(Kept) /\ functions.len = Len(Kept)
  BY <1>1, KeptFacts
<1>3. llvmFunctions = CodeUpTo(Len(Kept), "bodies", k, j)
  BY <1>1, <1>2 DEF CodeInv, CodeFits
<1>4. \A r \in 1 .. Len(Kept) : r < Len(Kept) \/ r = Len(Kept)
  BY <1>2, LastOrBefore
<1>5. \A t : PartAt(t, "bodies", k, j) = Translated(t)
  BY DEF PartAt
<1>6. llvmFunctions = [r \in DOMAIN Kept |-> Translated(Kept[r])]
  BY <1>2, <1>3, <1>4, <1>5 DEF CodeUpTo
<1>7. CodeIsTheProgram'
  BY <1>1, <1>6, SameCode DEF CodeIsTheProgram
<1> QED BY <1>1, <1>7 DEF CodeInv, NothingIsMissing

-----------------------------------------------------------------------------
(* The body of a function.                                                 *)

LEMMA BodyFacts ==
  ASSUME IInv, PackageInv, ProgramIsWellFormed, CodeInv, phase = "code", at \in InBody
  PROVE  /\ n \in 1 .. Len(Kept) /\ current = n /\ n \in DOMAIN Kept
         /\ IsText(Kept[n]) /\ FunctionRead(F, Kept[n])
         /\ ~IsNative(Kept[n]) /\ BodyIsWellFormed(Kept[n])
         /\ CountersFit /\ k \in Nat
         /\ llvmGlobals = GlobalsOf /\ llvmFunctions = CodeUpTo(n, at, k, j)
         /\ L = PartAt(Kept[n], at, k, j)
<1>1. /\ DOMAIN Kept = 1 .. Len(Kept)
      /\ \A r \in 1 .. Len(Kept) : IsText(Kept[r]) /\ FunctionRead(functions.items[r], Kept[r])
  BY KeptFacts
<1>2. CountersFit /\ CodeFits
  BY DEF CodeInv
<1>3. n \in 1 .. Len(Kept) /\ current = n /\ ~IsNative(Kept[n])
  BY <1>2 DEF CountersFit
<1>4. at # "globals"
  BY DEF InBody
<1>5. llvmGlobals = GlobalsOf /\ llvmFunctions = CodeUpTo(n, at, k, j)
  BY <1>2, <1>4 DEF CodeFits
<1>6. BodyIsWellFormed(Kept[n])
  BY <1>1, <1>3, WellFormedFacts
<1>7. ~(n < n)
  BY <1>3
<1>8. L = PartAt(Kept[n], at, k, j)
  BY <1>1, <1>3, <1>5, <1>7 DEF L, CodeUpTo
<1>9. k \in Nat
  <2>1. Len(Kept[n].locals) \in Nat /\ Len(Kept[n].blocks) \in Nat
    BY <1>1, <1>3, TextFacts
  <2>2. k \in 0 .. Len(Kept[n].locals) \/ k \in 0 .. Len(Kept[n].blocks)
    BY <1>2 DEF CountersFit, InBody
  <2> QED BY <2>1, <2>2
<1> QED BY <1>1, <1>2, <1>3, <1>5, <1>6, <1>8, <1>9 DEF F

\* A step that changes nothing but the code of the function, and the counters.
LEMMA BodyStep ==
  ASSUME IInv, PackageInv, ProgramIsWellFormed, CodeInv, phase = "code", at \in InBody,
         phase' = "code", UNCHANGED <<file, pool, n, current, llvmGlobals>>, at' \in InBody,
         llvmFunctions' = WithL(PartAt(Kept[n], at', k', j')),
         at' = "allocas" => k' \in 0 .. Len(Kept[n].locals),
         at' \in {"create", "visit"} => k' \in 0 .. Len(Kept[n].blocks),
         at' = "visit" => j' \in Nat,
         at' = "visit" /\ k' < Len(Kept[n].blocks) =>
           j' <= Cardinality(PlainAt(Kept[n].blocks[k' + 1]))
  PROVE  CodeInv'
<1>1. /\ n \in 1 .. Len(Kept) /\ current = n /\ n \in DOMAIN Kept /\ ~IsNative(Kept[n])
      /\ llvmGlobals = GlobalsOf /\ llvmFunctions = CodeUpTo(n, at, k, j)
  BY BodyFacts
<1>2. DOMAIN Kept = 1 .. Len(Kept)
  BY KeptFacts
<1>3. Kept' = Kept
  BY SameProgram
<1>4. /\ n' = n /\ current' = current /\ llvmGlobals' = llvmGlobals
      /\ file' = file /\ pool' = pool
  OBVIOUS
<1>5. CountersFit'
  <2>1. at' \notin {"globals", "declare", "bodies"}
    BY DEF InBody
  <2> QED BY <1>1, <1>3, <1>4, <2>1 DEF CountersFit, IsNative, PlainAt
<1>6. \A r \in 1 .. Len(Kept) : r = n => ~(r < n)
  BY <1>1
<1> DEFINE l == PartAt(Kept[n], at', k', j')
<1>7. llvmFunctions' = [CodeUpTo(n, at, k, j) EXCEPT ![n] = l]
  BY <1>1 DEF WithL
<1>8. [CodeUpTo(n, at, k, j) EXCEPT ![n] = l] = CodeUpTo(n, at', k', j')
  BY <1>1, <1>2, <1>6 DEF CodeUpTo
<1>9. llvmFunctions' = CodeUpTo(n', at', k', j')
  BY <1>4, <1>7, <1>8
<1>10. at' # "globals" /\ at' # "declare"
  BY DEF InBody
<1> QED BY <1>1, <1>4, <1>5, <1>9, <1>10, CodeStep

\* A step into what there is no code for, in a body.
LEMMA BodyGivesUp ==
  ASSUME phase' = "undefined", UNCHANGED <<file, pool>>,
         n \in DOMAIN Kept, ~IsNative(Kept[n]), ~BodyIsTranslatable(Kept[n])
  PROVE  CodeInv'
<1>1. ~IsTranslatable
  BY Zenon DEF IsTranslatable
<1> QED BY <1>1, CodeGivesUp

\* The parts of a function's code, changed one at a time.
LEMMA WithFacts ==
  ASSUME NEW t, NEW a, NEW s, NEW f, NEW b, NEW x
  PROVE  /\ With(t, a, s, f, b).allocas = a /\ With(t, a, s, f, b).stored = s
         /\ With(t, a, s, f, b).first = f /\ With(t, a, s, f, b).blocks = b
         /\ [With(t, a, s, f, b) EXCEPT !.allocas = x] = With(t, x, s, f, b)
         /\ [With(t, a, s, f, b) EXCEPT !.stored = x] = With(t, a, x, f, b)
         /\ [With(t, a, s, f, b) EXCEPT !.first = x] = With(t, a, s, x, b)
         /\ [With(t, a, s, f, b) EXCEPT !.blocks = x] = With(t, a, s, f, x)
<1>1. /\ With(t, a, s, f, b).allocas = a /\ With(t, a, s, f, b).stored = s
      /\ With(t, a, s, f, b).first = f /\ With(t, a, s, f, b).blocks = b
  BY DEF With
<1>2. /\ [With(t, a, s, f, b) EXCEPT !.allocas = x] = With(t, x, s, f, b)
      /\ [With(t, a, s, f, b) EXCEPT !.stored = x] = With(t, a, x, f, b)
      /\ [With(t, a, s, f, b) EXCEPT !.first = x] = With(t, a, s, x, b)
      /\ [With(t, a, s, f, b) EXCEPT !.blocks = x] = With(t, a, s, f, x)
  <2> DEFINE nm == String(t.name)
             ps == [i \in DOMAIN t.defaults |-> TypeAt(t.defaults[i])]
             r == IF String(t.name) = "main" THEN "void" ELSE TypeAt(t.returnVar[1].type)
  <2>1. \A y1, y2, y3, y4 : With(t, y1, y2, y3, y4)
          = [name |-> nm, params |-> ps, ret |-> r, allocas |-> y1, stored |-> y2,
             first |-> y3, blocks |-> y4]
    BY Zenon DEF With
  <2> HIDE DEF nm, ps, r
  <2> DEFINE R(y1, y2, y3, y4) == [name |-> nm, params |-> ps, ret |-> r, allocas |-> y1,
                                   stored |-> y2, first |-> y3, blocks |-> y4]
  <2>2. /\ With(t, a, s, f, b) = R(a, s, f, b) /\ With(t, x, s, f, b) = R(x, s, f, b)
        /\ With(t, a, x, f, b) = R(a, x, f, b) /\ With(t, a, s, x, b) = R(a, s, x, b)
        /\ With(t, a, s, f, x) = R(a, s, f, x)
    BY <2>1
  <2>3. /\ [R(a, s, f, b) EXCEPT !.allocas = x] = R(x, s, f, b)
        /\ [R(a, s, f, b) EXCEPT !.stored = x] = R(a, x, f, b)
        /\ [R(a, s, f, b) EXCEPT !.first = x] = R(a, s, x, b)
        /\ [R(a, s, f, b) EXCEPT !.blocks = x] = R(a, s, f, x)
    OBVIOUS
  <2> HIDE DEF R
  <2> QED BY <2>2, <2>3, Zenon
<1> QED BY <1>1, <1>2

LEMMA OneMorePlace == \A c \in Nat : \A r \in 1 .. c + 1 : r \in 1 .. c \/ r = c + 1
OBVIOUS

\* One argument more, or a local variable that is none.
LEMMA StoredStep ==
  ASSUME NEW t, IsText(t), NEW m \in Nat, m < Len(t.locals)
  PROVE  /\ IsSeq(Stored(t, UpTo(ArgsAt(t), m)))
         /\ Len(Stored(t, UpTo(ArgsAt(t), m))) = Cardinality(UpTo(ArgsAt(t), m))
         /\ m + 1 \in ArgsAt(t) =>
              /\ Stored(t, UpTo(ArgsAt(t), m + 1))
                   = Append(Stored(t, UpTo(ArgsAt(t), m)), String(t.locals[m + 1].name))
              /\ Cardinality(UpTo(ArgsAt(t), m)) < Cardinality(ArgsAt(t))
         /\ m + 1 \notin ArgsAt(t) =>
              Stored(t, UpTo(ArgsAt(t), m + 1)) = Stored(t, UpTo(ArgsAt(t), m))
<1> DEFINE P == ArgsAt(t)
           p == Selected(t.locals, UpTo(P, m))
           q == Selected(t.locals, UpTo(P, m + 1))
           c == Cardinality(UpTo(P, m))
           u == Stored(t, UpTo(P, m))
           w == Stored(t, UpTo(P, m + 1))
<1>1. P \in SUBSET (Nat \ {0}) /\ P \in SUBSET (1 .. Len(t.locals)) /\ Len(t.locals) \in Nat
  BY TextFacts
<1> HIDE DEF P
<1>2. /\ m + 1 \in P => q = Append(p, t.locals[m + 1]) /\ Cardinality(UpTo(P, m + 1)) = c + 1
      /\ m + 1 \notin P => UpTo(P, m + 1) = UpTo(P, m)
      /\ c \in Nat /\ IsSeq(p) /\ Len(p) = c /\ DOMAIN p = 1 .. c
  BY <1>1, SelectedStep
<1>3. u = [r \in DOMAIN p |-> String(p[r].name)] /\ w = [r \in DOMAIN q |-> String(q[r].name)]
  BY DEF Stored
<1>4. m + 1 \in P => c < Cardinality(P)
  <2>1. UpTo(P, m + 1) \in SUBSET P
    BY DEF UpTo
  <2>2. IsFiniteSet(P) /\ Cardinality(P) \in Nat
    BY <1>1, PlacesAreFinite
  <2>3. Cardinality(UpTo(P, m + 1)) <= Cardinality(P)
    BY <2>1, <2>2, FS_Subset
  <2> HIDE DEF c
  <2>4. \A a, b \in Nat : a + 1 <= b => a < b
    OBVIOUS
  <2> QED BY <1>2, <2>2, <2>3, <2>4
<1> HIDE DEF p, q, u, w, c
<1>5. IsSeq(u) /\ Len(u) = c /\ DOMAIN u = 1 .. c /\ \A r \in 1 .. c : u[r] = String(p[r].name)
  <2>1. u = [r \in 1 .. c |-> u[r]]
    BY <1>2, <1>3
  <2> QED BY <1>2, <1>3, <2>1, FunctionIsSeq
<1>6. ASSUME m + 1 \in P
      PROVE  w = Append(u, String(t.locals[m + 1].name))
  <2> DEFINE e == String(t.locals[m + 1].name)
             a == Append(u, e)
  <2>1. /\ IsSeq(q) /\ Len(q) = c + 1 /\ q[c + 1] = t.locals[m + 1]
        /\ \A r \in 1 .. c : q[r] = p[r]
    <3>1. q = Append(p, t.locals[m + 1]) /\ IsSeq(p) /\ Len(p) = c
      BY <1>2, <1>6
    <3> QED BY <3>1, AppendFacts
  <2>2. DOMAIN q = 1 .. c + 1
    BY <2>1, SeqFacts
  <2>3. /\ IsSeq(a) /\ Len(a) = c + 1 /\ a[c + 1] = e
        /\ \A r \in 1 .. c : a[r] = u[r]
    BY <1>5, AppendFacts
  <2>4. DOMAIN a = 1 .. c + 1
    BY <2>3, SeqFacts
  <2>5. \A r \in 1 .. c + 1 : r \in 1 .. c \/ r = c + 1
    BY <1>2, OneMorePlace
  <2>6. IsSeq(w)
    <3>1. w = [r \in 1 .. c + 1 |-> w[r]]
      BY <1>3, <2>2
    <3> QED BY <1>2, <3>1, FunctionIsSeq
  <2> HIDE DEF a
  <2>7. DOMAIN w = 1 .. c + 1 /\ \A r \in 1 .. c + 1 : w[r] = String(q[r].name)
    BY <1>3, <2>2
  <2>8. \A r \in 1 .. c + 1 : w[r] = a[r]
    BY <1>5, <2>1, <2>3, <2>5, <2>7
  <2>9. w = a
    BY <2>3, <2>4, <2>6, <2>7, <2>8, SameItems
  <2> QED BY <2>9 DEF a
<1>7. m + 1 \notin P => w = u
  BY <1>2 DEF u, w
<1> QED BY <1>4, <1>5, <1>6, <1>7 DEF P, u, w, c

LEMMA SameL ==
  ASSUME IInv, PackageInv, ProgramIsWellFormed, CodeInv, phase = "code", at \in InBody
  PROVE  WithL(L) = llvmFunctions
<1>1. current = n /\ n \in DOMAIN Kept /\ llvmFunctions = CodeUpTo(n, at, k, j)
  BY BodyFacts
<1>2. llvmFunctions = [r \in DOMAIN Kept |-> llvmFunctions[r]]
  BY <1>1 DEF CodeUpTo
<1> QED BY <1>1, <1>2 DEF WithL, L

LEMMA CodeAllocateLocal ==
  IInv /\ PackageInv /\ ProgramIsWellFormed /\ CodeInv /\ AllocateLocal => CodeInv'
<1> SUFFICES ASSUME IInv, PackageInv, ProgramIsWellFormed, CodeInv, AllocateLocal PROVE CodeInv'
  OBVIOUS
<1> DEFINE t == Kept[n]
           v == F.locals[k + 1]
           x == [name |-> v.name, type |-> LLVMType(v.type.tag)]
           a == Prefix(Allocas(t), k)
           a1 == Prefix(Allocas(t), k + 1)
           u == Stored(t, UpTo(ArgsAt(t), k))
           u1 == Stored(t, UpTo(ArgsAt(t), k + 1))
<1>1. phase = "code" /\ at = "allocas" /\ at \in InBody /\ k < Len(F.locals)
  BY DEF AllocateLocal, InBody
<1>2. /\ IsText(t) /\ FunctionRead(F, t) /\ BodyIsWellFormed(t) /\ k \in Nat
      /\ L = PartAt(t, "allocas", k, j)
  BY <1>1, BodyFacts
<1>3. /\ IsSeq(t.locals) /\ Len(t.locals) \in Nat /\ DOMAIN t.locals = 1 .. Len(t.locals)
      /\ IsSeq(Allocas(t)) /\ Len(Allocas(t)) = Len(t.locals) /\ Len(t.defaults) \in Nat
      /\ DOMAIN t.defaults = 1 .. Len(t.defaults) /\ ArgsAt(t) \in SUBSET (1 .. Len(t.locals))
  BY <1>2, TextFacts
<1>4. /\ F.locals = AllNamed(t.locals) /\ F.params = ParamsOf(t)
      /\ k < Len(t.locals) /\ k + 1 \in 1 .. Len(t.locals) /\ k + 1 \in 0 .. Len(t.locals)
  <2>1. F.locals = AllNamed(t.locals) /\ F.params = ParamsOf(t)
    BY <1>2 DEF FunctionRead
  <2>2. k < Len(t.locals)
    BY <1>1, <1>3, <2>1, AllNamedFacts
  <2> QED BY <1>2, <1>3, <2>1, <2>2
<1>5. v = Named(t.locals[k + 1])
  BY <1>3, <1>4, AllNamedFacts
<1>6. /\ v.name = String(t.locals[k + 1].name)
      /\ v.kind = "ARG" <=> k + 1 \in ArgsAt(t)
      /\ x = Allocas(t)[k + 1]
  BY <1>3, <1>4, <1>5 DEF Named, ArgsAt, Allocas, TypeAt
<1>7. L = With(t, a, u, Null, <<>>)
  BY <1>2 DEF PartAt
<1>8. Append(a, x) = a1
  BY <1>2, <1>6, PrefixFacts
<1>9. /\ IsSeq(u) /\ Len(u) = Cardinality(UpTo(ArgsAt(t), k))
      /\ k + 1 \in ArgsAt(t) =>
           /\ u1 = Append(u, String(t.locals[k + 1].name))
           /\ Cardinality(UpTo(ArgsAt(t), k)) < Cardinality(ArgsAt(t))
      /\ k + 1 \notin ArgsAt(t) => u1 = u
  BY <1>2, <1>4, StoredStep
<1>10. L.stored = u /\ L.allocas = a
  BY <1>7, WithFacts
<1>11. ~(v.kind = "ARG" /\ Len(L.stored) = Len(F.params))
  <2> SUFFICES ASSUME v.kind = "ARG" PROVE Len(L.stored) # Len(F.params)
    OBVIOUS
  <2>1. Len(F.params) = Len(t.defaults)
    <3>1. ParamsOf(t) = [i \in 1 .. Len(t.defaults) |-> ParamsOf(t)[i]]
      BY <1>3 DEF ParamsOf
    <3> QED BY <1>3, <1>4, <3>1, FunctionIsSeq
  <2>2. Cardinality(ArgsAt(t)) <= Len(t.defaults) /\ Cardinality(ArgsAt(t)) \in Nat
    BY <1>2, <1>3, PlacesAreFinite DEF BodyIsWellFormed
  <2>3. Len(u) < Cardinality(ArgsAt(t)) /\ Len(u) \in Nat
    BY <1>6, <1>9, SeqFacts
  <2>4. \A p, q, r \in Nat : p < q /\ q <= r => p # r
    OBVIOUS
  <2> HIDE DEF u
  <2> QED BY <1>3, <1>10, <2>1, <2>2, <2>3, <2>4
<1> DEFINE l == [L EXCEPT !.allocas = Append(@, x)]
<1>12. CASE ~HasLLVMType(v.type.tag)
  <2>1. ~HasType(t.locals[k + 1].type) /\ k + 1 \in DOMAIN t.locals
    BY <1>3, <1>4, <1>5, <1>12 DEF Named, HasType
  <2>2. ~BodyIsTranslatable(t)
    BY <2>1, Zenon DEF BodyIsTranslatable
  <2>3. phase' = "undefined" /\ UNCHANGED <<file, pool>>
    BY <1>12 DEF AllocateLocal, Fail
  <2> QED BY <1>1, <2>2, <2>3, BodyFacts, BodyGivesUp
<1> SUFFICES ASSUME HasLLVMType(v.type.tag) PROVE CodeInv'
  BY <1>12
<1>13. /\ v.kind = "ARG" => llvmFunctions' = WithL([l EXCEPT !.stored = Append(@, v.name)])
       /\ v.kind # "ARG" => llvmFunctions' = WithL(l)
       /\ k' = k + 1 /\ phase' = "code"
       /\ UNCHANGED <<at, n, j, llvmGlobals, current, file, pool>>
  BY <1>1, <1>11 DEF AllocateLocal
<1> HIDE DEF a, a1, u, u1, v, x, t
<1>14. l = With(t, a1, u, Null, <<>>)
  <2>1. l = [L EXCEPT !.allocas = a1]
    BY <1>8, <1>10
  <2> QED BY <1>7, <2>1, WithFacts
<1> HIDE DEF l
<1>15. llvmFunctions' = WithL(With(t, a1, u1, Null, <<>>))
  <2>1. CASE v.kind = "ARG"
    <3>1. u1 = Append(u, v.name)
      BY <1>6, <1>9, <2>1
    <3>2. l.stored = u
      BY <1>14, WithFacts
    <3>3. [l EXCEPT !.stored = Append(@, v.name)] = [l EXCEPT !.stored = u1]
      BY <3>1, <3>2
    <3>4. [l EXCEPT !.stored = u1] = With(t, a1, u1, Null, <<>>)
      BY <1>14, WithFacts
    <3> QED BY <1>13, <2>1, <3>3, <3>4
  <2>2. CASE v.kind # "ARG"
    BY <1>6, <1>9, <1>13, <1>14, <2>2
  <2> QED BY <2>1, <2>2
<1>16. PartAt(t, at', k', j') = With(t, a1, u1, Null, <<>>)
  <2>1. at' = "allocas" /\ k' = k + 1
    BY <1>1, <1>13
  <2> QED BY <2>1 DEF PartAt, a1, u1
<1> QED BY <1>1, <1>4, <1>13, <1>15, <1>16, BodyStep DEF t

LEMMA CodeEndAllocas ==
  IInv /\ PackageInv /\ ProgramIsWellFormed /\ CodeInv /\ EndAllocas => CodeInv'
<1> SUFFICES ASSUME IInv, PackageInv, ProgramIsWellFormed, CodeInv, EndAllocas PROVE CodeInv'
  OBVIOUS
<1> DEFINE t == Kept[n]
<1>1. /\ phase = "code" /\ at = "allocas" /\ at \in InBody /\ k = Len(F.locals)
      /\ at' = "create" /\ at' \in InBody /\ k' = 0 /\ phase' = "code"
      /\ UNCHANGED <<n, j, llvmGlobals, llvmFunctions, current, file, pool>>
  BY DEF EndAllocas, InBody
<1>2. /\ IsText(t) /\ FunctionRead(F, t) /\ L = PartAt(t, "allocas", k, j)
  BY <1>1, BodyFacts
<1>3. /\ IsSeq(t.locals) /\ Len(t.locals) \in Nat /\ Len(t.blocks) \in Nat
      /\ IsSeq(Allocas(t)) /\ Len(Allocas(t)) = Len(t.locals)
      /\ ArgsAt(t) \in SUBSET (1 .. Len(t.locals)) /\ ArgsAt(t) \in SUBSET (Nat \ {0})
  BY <1>2, TextFacts
<1>4. k = Len(t.locals)
  BY <1>1, <1>2, <1>3, AllNamedFacts DEF FunctionRead
<1>5. Prefix(Allocas(t), k) = Allocas(t) /\ UpTo(ArgsAt(t), k) = ArgsAt(t)
  BY <1>3, <1>4, WholePrefix, UpToFacts
<1>6. L = With(t, Allocas(t), Stored(t, ArgsAt(t)), Null, <<>>)
  BY <1>2, <1>5 DEF PartAt
<1>7. PartAt(t, "create", 0, j) = L
  <2>1. Prefix(EmptyBlocks(t), 0) = <<>>
    BY PrefixFacts
  <2> QED BY <1>6, <2>1 DEF PartAt
<1>8. llvmFunctions' = WithL(PartAt(t, at', k', j'))
  BY <1>1, <1>7, SameL
<1>9. 0 \in 0 .. Len(t.blocks)
  BY <1>3
<1>10. at' # "allocas" /\ at' # "visit"
  BY <1>1
<1> QED BY <1>1, <1>8, <1>9, <1>10, BodyStep

LEMMA ConcatFacts ==
  ASSUME NEW s, IsSeq(s), NEW x
  PROVE  s \o <<x>> = Append(s, x) /\ s \o <<>> = s /\ <<>> \o <<x>> = <<x>>
BY DEF IsSeq

\* The code of one instruction more.
LEMMA ItemsOfFacts ==
  ASSUME NEW s, IsSeq(s)
  PROVE  /\ IsSeq(ItemsOf(s)) /\ ItemsOf(s) \o <<>> = ItemsOf(s)
         /\ \A x : ItemsOf(s) \o <<ItemOf(x)>> = ItemsOf(Append(s, x))
<1> DEFINE u == ItemsOf(s)
           c == Len(s)
<1>1. c \in Nat /\ DOMAIN s = 1 .. c
  BY SeqFacts
<1>2. IsSeq(u) /\ Len(u) = c /\ \A r \in 1 .. c : u[r] = ItemOf(s[r])
  <2>1. u = [r \in 1 .. c |-> u[r]] /\ \A r \in 1 .. c : u[r] = ItemOf(s[r])
    BY <1>1 DEF ItemsOf
  <2> HIDE DEF u, c
  <2> QED BY <1>1, <2>1, FunctionIsSeq
<1>3. u \o <<>> = u
  <2> HIDE DEF u
  <2> QED BY <1>2, ConcatFacts
<1>4. ASSUME NEW x PROVE u \o <<ItemOf(x)>> = ItemsOf(Append(s, x))
  <2> DEFINE q == Append(s, x)
             w == ItemsOf(q)
             e == ItemOf(x)
             a == Append(u, e)
  <2>1. /\ IsSeq(q) /\ Len(q) = c + 1 /\ q[c + 1] = x
        /\ \A r \in 1 .. c : q[r] = s[r]
    BY <1>1, AppendFacts
  <2> HIDE DEF q, u, c, e
  <2>2. DOMAIN q = 1 .. c + 1
    BY <2>1, SeqFacts
  <2>3. /\ IsSeq(a) /\ Len(a) = c + 1 /\ a[c + 1] = e
        /\ \A r \in 1 .. c : a[r] = u[r]
    BY <1>2, AppendFacts
  <2> HIDE DEF a
  <2>4. DOMAIN a = 1 .. c + 1
    BY <2>3, SeqFacts
  <2>5. \A r \in 1 .. c + 1 : r \in 1 .. c \/ r = c + 1
    BY <1>1, OneMorePlace
  <2>6. DOMAIN w = 1 .. c + 1 /\ \A r \in 1 .. c + 1 : w[r] = ItemOf(q[r])
    BY <2>2 DEF ItemsOf
  <2>7. IsSeq(w)
    <3>1. w = [r \in 1 .. c + 1 |-> w[r]]
      BY <2>2 DEF ItemsOf
    <3> HIDE DEF w
    <3>2. c + 1 \in Nat
      BY <1>1
    <3> QED BY <3>1, <3>2, FunctionIsSeq
  <2> HIDE DEF w
  <2>8. \A r \in 1 .. c + 1 : w[r] = a[r]
    BY <1>2, <2>1, <2>3, <2>5, <2>6 DEF e
  <2>9. w = a
    BY <2>3, <2>4, <2>6, <2>7, <2>8, SameItems
  <2>10. u \o <<e>> = a
    BY <1>2, ConcatFacts DEF a
  <2> QED BY <2>9, <2>10 DEF w, q, e
<1> HIDE DEF u
<1> QED BY <1>2, <1>3, <1>4 DEF u

\* The places of the instructions that become code.
LEMMA CodePlaces ==
  ASSUME NEW t, NEW b, IsSeq(b.insns)
  PROVE  LET plain == Selected(b.insns, PlainAt(b))
             c == Cardinality(PlainAt(b))
         IN  /\ c \in Nat /\ IsSeq(plain) /\ Len(plain) = c /\ DOMAIN plain = 1 .. c
             /\ CodeAt(t, plain) \in SUBSET (1 .. c)
             /\ CodeAt(t, plain) \in SUBSET (Nat \ {0})
             /\ UpTo(CodeAt(t, plain), c) = CodeAt(t, plain)
<1> DEFINE plain == Selected(b.insns, PlainAt(b))
           c == Cardinality(PlainAt(b))
<1>1. c \in Nat
  BY PlacesOfInsns, PlacesAreFinite
<1>2. IsSeq(plain) /\ Len(plain) = c /\ DOMAIN plain = 1 .. c
  BY <1>1, SelectedIsSeq
<1> HIDE DEF plain, c
<1>3. CodeAt(t, plain) \in SUBSET (1 .. c)
  BY <1>2 DEF CodeAt
<1>4. CodeAt(t, plain) \in SUBSET (Nat \ {0})
  <2>1. \A l \in Nat : 1 .. l \in SUBSET (Nat \ {0})
    OBVIOUS
  <2> QED BY <1>1, <1>3, <2>1
<1>5. UpTo(CodeAt(t, plain), c) = CodeAt(t, plain)
  BY <1>1, <1>3, <1>4, UpToFacts
<1> QED BY <1>1, <1>2, <1>3, <1>4, <1>5 DEF plain, c

\* The code of a block, one instruction after the other.
LEMMA ItemsFacts ==
  ASSUME NEW t, NEW b, IsSeq(b.insns), NEW m \in Nat
  PROVE  LET plain == Selected(b.insns, PlainAt(b))
         IN  /\ PlainItems(t, b, 0) = <<>> /\ PlainItems(t, b, m) \o <<>> = PlainItems(t, b, m)
             /\ m + 1 \in CodeAt(t, plain) =>
                  PlainItems(t, b, m) \o <<ItemOf(plain[m + 1])>> = PlainItems(t, b, m + 1)
             /\ m + 1 \notin CodeAt(t, plain) => PlainItems(t, b, m) = PlainItems(t, b, m + 1)
<1> DEFINE plain == Selected(b.insns, PlainAt(b))
           P == CodeAt(t, plain)
           p == Selected(plain, UpTo(P, m))
<1>1. P \in SUBSET (Nat \ {0})
  BY CodePlaces
<1>2. \A l : PlainItems(t, b, l) = ItemsOf(Selected(plain, UpTo(P, l)))
  BY DEF PlainItems
<1> HIDE DEF P, plain
<1>3. /\ Selected(plain, UpTo(P, 0)) = <<>>
      /\ m + 1 \in P => Selected(plain, UpTo(P, m + 1)) = Append(p, plain[m + 1])
      /\ m + 1 \notin P => UpTo(P, m + 1) = UpTo(P, m)
      /\ IsSeq(p)
  BY <1>1, SelectedStep
<1>4. PlainItems(t, b, 0) = <<>>
  BY <1>2, <1>3 DEF ItemsOf
<1>5. m + 1 \notin P => PlainItems(t, b, m) = PlainItems(t, b, m + 1)
  BY <1>2, <1>3
<1>6. PlainItems(t, b, m) = ItemsOf(p) /\ IsSeq(p)
  BY <1>2, <1>3
<1>7. m + 1 \in P => PlainItems(t, b, m + 1) = ItemsOf(Append(p, plain[m + 1]))
  BY <1>2, <1>3
<1> HIDE DEF p
<1>8. /\ PlainItems(t, b, m) \o <<>> = PlainItems(t, b, m)
      /\ m + 1 \in P => PlainItems(t, b, m) \o <<ItemOf(plain[m + 1])>> = PlainItems(t, b, m + 1)
  BY <1>6, <1>7, ItemsOfFacts
<1> QED BY <1>4, <1>5, <1>8 DEF P, plain

\* createBasicBlock: a block before its code.
LEMMA EmptyBlockFacts ==
  ASSUME NEW t, IsText(t), NEW b \in 1 .. Len(t.blocks)
  PROVE  /\ EmptyBlocks(t)[b] = [id |-> String(t.blocks[b].name), code |-> <<>>, ends |-> <<>>]
         /\ EmptyBlocks(t)[b].id = String(t.blocks[b].name)
<1>1. DOMAIN t.blocks = 1 .. Len(t.blocks)
  BY TextFacts
<1>2. EmptyBlocks(t)[b] = BlockPart(t, t.blocks[b], 0)
  BY <1>1 DEF EmptyBlocks
<1>3. PlainItems(t, t.blocks[b], 0) = <<>>
  <2>1. IsSeq(t.blocks[b].insns)
    BY <1>1 DEF IsText
  <2> QED BY <2>1, ItemsFacts
<1>4. EmptyBlocks(t)[b] = [id |-> String(t.blocks[b].name), code |-> <<>>, ends |-> <<>>]
  BY <1>2, <1>3, Zenon DEF BlockPart
<1> QED BY <1>4

LEMMA CodeCreateBlock ==
  IInv /\ PackageInv /\ ProgramIsWellFormed /\ CodeInv /\ CreateBlock => CodeInv'
<1> SUFFICES ASSUME IInv, PackageInv, ProgramIsWellFormed, CodeInv, CreateBlock PROVE CodeInv'
  OBVIOUS
<1> DEFINE t == Kept[n]
           x == [id |-> B.id, code |-> <<>>, ends |-> <<>>]
           e == Prefix(EmptyBlocks(t), k)
           e1 == Prefix(EmptyBlocks(t), k + 1)
<1>1. /\ phase = "code" /\ at = "create" /\ at \in InBody /\ k < F.blocks.len
      /\ llvmFunctions' = WithL([L EXCEPT !.blocks = Append(@, x)])
      /\ k' = k + 1 /\ phase' = "code"
      /\ UNCHANGED <<at, n, j, llvmGlobals, current, file, pool>>
  BY DEF CreateBlock, InBody
<1>2. /\ IsText(t) /\ FunctionRead(F, t) /\ k \in Nat /\ L = PartAt(t, "create", k, j)
  BY <1>1, BodyFacts
<1>3. Len(t.blocks) \in Nat
  BY <1>2, TextFacts
<1>4. k + 1 \in 1 .. Len(t.blocks) /\ k + 1 \in 0 .. Len(t.blocks)
  <2>1. k < Len(t.blocks)
    BY <1>1, <1>2 DEF FunctionRead
  <2> QED BY <1>2, <1>3, <2>1
<1>5. B.id = String(t.blocks[k + 1].name)
  BY <1>2, <1>4 DEF FunctionRead, WholeBlock, BlockRead, B
<1>6. x = EmptyBlocks(t)[k + 1]
  BY <1>2, <1>4, <1>5, EmptyBlockFacts
<1>7. Append(e, x) = e1
  BY <1>2, <1>6, PrefixFacts
<1>8. L = With(t, Allocas(t), Stored(t, ArgsAt(t)), Null, e)
  BY <1>2 DEF PartAt
<1> HIDE DEF x, e, e1, t
<1>9. [L EXCEPT !.blocks = Append(@, x)] = With(t, Allocas(t), Stored(t, ArgsAt(t)), Null, e1)
  <2>1. L.blocks = e
    BY <1>8, WithFacts
  <2>2. [L EXCEPT !.blocks = Append(@, x)] = [L EXCEPT !.blocks = e1]
    BY <1>7, <2>1
  <2> QED BY <1>8, <2>2, WithFacts
<1>10. PartAt(t, at', k', j') = With(t, Allocas(t), Stored(t, ArgsAt(t)), Null, e1)
  <2>1. at' = "create" /\ k' = k + 1
    BY <1>1
  <2> QED BY <2>1 DEF PartAt, e1
<1>11. at' # "allocas" /\ at' # "visit"
  BY <1>1
<1> QED BY <1>1, <1>4, <1>9, <1>10, <1>11, BodyStep DEF t

\* getBasicBlock: the block with a name.
LEMMA FindBlock ==
  ASSUME NEW t, IsText(t), BodyIsWellFormed(t), DOMAIN L.blocks = DOMAIN t.blocks,
         \A b \in DOMAIN t.blocks : L.blocks[b].id = String(t.blocks[b].name),
         NEW b \in DOMAIN t.blocks
  PROVE  /\ Last(BlocksNamed(String(t.blocks[b].name))) = b
         /\ getBasicBlock(String(t.blocks[b].name)) = <<b>>
<1> DEFINE id == String(t.blocks[b].name)
<1>1. \A c \in DOMAIN t.blocks : String(t.blocks[c].name) = id <=> c = b
  BY DEF BodyIsWellFormed
<1>2. BlocksNamed(id) = {b}
  BY <1>1, Zenon DEF BlocksNamed
<1>3. b \in Nat
  BY TextFacts
<1>4. Last({b}) = b
  BY <1>3 DEF Last
<1> QED BY <1>2, <1>4 DEF getBasicBlock

LEMMA CodeBranchToFirst ==
  IInv /\ PackageInv /\ ProgramIsWellFormed /\ CodeInv /\ BranchToFirst => CodeInv'
<1> SUFFICES ASSUME IInv, PackageInv, ProgramIsWellFormed, CodeInv, BranchToFirst PROVE CodeInv'
  OBVIOUS
<1> DEFINE t == Kept[n]
           e == EmptyBlocks(t)
<1>1. /\ phase = "code" /\ at = "create" /\ at \in InBody /\ k = F.blocks.len
      /\ at' = "visit" /\ at' \in InBody /\ k' = 0 /\ j' = 0 /\ phase' = "code"
      /\ UNCHANGED <<n, llvmGlobals, current, file, pool>>
  BY DEF BranchToFirst, InBody
<1>2. /\ IsText(t) /\ FunctionRead(F, t) /\ BodyIsWellFormed(t) /\ k \in Nat
      /\ L = PartAt(t, "create", k, j)
  BY <1>1, BodyFacts
<1>3. /\ IsSeq(t.blocks) /\ Len(t.blocks) \in Nat /\ DOMAIN t.blocks = 1 .. Len(t.blocks)
      /\ IsSeq(e) /\ Len(e) = Len(t.blocks)
  BY <1>2, TextFacts
<1>4. 1 \in DOMAIN t.blocks /\ Len(t.blocks) # 0 /\ 0 \in 0 .. Len(t.blocks)
  <2>1. t.blocks # <<>>
    BY <1>2 DEF BodyIsWellFormed
  <2>2. Len(t.blocks) # 0
    BY <1>3, <2>1 DEF IsSeq
  <2> QED BY <1>3, <2>2
<1>5. k = Len(t.blocks) /\ F.blocks.len # 0 /\ F.blocks.items[1].id = String(t.blocks[1].name)
  BY <1>1, <1>2, <1>3, <1>4 DEF FunctionRead, WholeBlock, BlockRead
<1>6. L = With(t, Allocas(t), Stored(t, ArgsAt(t)), Null, e)
  <2>1. Prefix(e, k) = e
    BY <1>3, <1>5, WholePrefix
  <2> QED BY <1>2, <2>1 DEF PartAt
<1>7. /\ DOMAIN L.blocks = DOMAIN t.blocks
      /\ \A b \in DOMAIN t.blocks : L.blocks[b].id = String(t.blocks[b].name)
  <2>1. L.blocks = e
    BY <1>6, WithFacts
  <2>2. DOMAIN e = DOMAIN t.blocks
    BY DEF EmptyBlocks
  <2>3. \A b \in DOMAIN t.blocks : e[b].id = String(t.blocks[b].name)
    BY <1>2, <1>3, EmptyBlockFacts
  <2> QED BY <2>1, <2>2, <2>3
<1>8. getBasicBlock(F.blocks.items[1].id) = <<1>>
  BY <1>2, <1>4, <1>5, <1>7, FindBlock
<1>9. llvmFunctions' = WithL([L EXCEPT !.first = <<1>>])
  BY <1>5, <1>8 DEF BranchToFirst
<1>10. BlocksPart(t, 0, 0) = e
  <2>1. \A b \in DOMAIN t.blocks : ~(b <= 0) /\ (b = 0 + 1 => b = 1)
    BY <1>3
  <2>2. \A b \in DOMAIN t.blocks :
          (IF b <= 0 THEN BlockCode(t, t.blocks[b])
           ELSE BlockPart(t, t.blocks[b], IF b = 0 + 1 THEN 0 ELSE 0))
            = BlockPart(t, t.blocks[b], 0)
    BY <2>1, Zenon
  <2> QED BY <2>2, Zenon DEF BlocksPart, EmptyBlocks
<1>11. PartAt(t, at', k', j') = With(t, Allocas(t), Stored(t, ArgsAt(t)), <<1>>, e)
  BY <1>1, <1>10 DEF PartAt
<1> HIDE DEF e
<1>12. llvmFunctions' = WithL(PartAt(t, at', k', j'))
  BY <1>6, <1>9, <1>11, WithFacts
<1>13. 0 <= Cardinality(PlainAt(t.blocks[1]))
  <2>1. IsSeq(t.blocks[1].insns)
    BY <1>2, <1>4 DEF IsText
  <2>2. Cardinality(PlainAt(t.blocks[1])) \in Nat
    BY <2>1, PlacesOfInsns, PlacesAreFinite
  <2> QED BY <2>2
<1>14. at' # "allocas" /\ j' \in Nat /\ k' + 1 = 1
  BY <1>1
<1> QED BY <1>1, <1>4, <1>12, <1>13, <1>14, BodyStep

LEMMA CodeEndBody ==
  IInv /\ PackageInv /\ ProgramIsWellFormed /\ CodeInv /\ EndBody => CodeInv'
<1> SUFFICES ASSUME IInv, PackageInv, ProgramIsWellFormed, CodeInv, EndBody PROVE CodeInv'
  OBVIOUS
<1> DEFINE t == Kept[n]
<1>1. /\ phase = "code" /\ at = "visit" /\ at \in InBody /\ k = F.blocks.len
      /\ at' = "bodies" /\ phase' = "code"
      /\ UNCHANGED <<n, j, llvmGlobals, llvmFunctions, current, file, pool>>
  BY DEF EndBody, InBody
<1>2. /\ IsText(t) /\ FunctionRead(F, t) /\ ~IsNative(t)
      /\ n \in 1 .. Len(Kept) /\ llvmGlobals = GlobalsOf
      /\ llvmFunctions = CodeUpTo(n, "visit", k, j)
  BY <1>1, BodyFacts
<1>3. Len(t.blocks) \in Nat /\ DOMAIN t.blocks = 1 .. Len(t.blocks) /\ k = Len(t.blocks)
  BY <1>1, <1>2, TextFacts DEF FunctionRead
<1>4. BlocksPart(t, k, j) = [b \in DOMAIN t.blocks |-> BlockCode(t, t.blocks[b])]
  <2>1. \A b \in 1 .. Len(t.blocks) : b <= k
    BY <1>3
  <2> QED BY <1>3, <2>1 DEF BlocksPart
<1>5. PartAt(t, "visit", k, j) = Translated(t)
  BY <1>2, <1>4, Zenon DEF PartAt, Translated
<1>6. \A p, m : PartAt(t, "bodies", p, m) = Translated(t)
  BY DEF PartAt
<1>7. CodeUpTo(n, "visit", k, j) = CodeUpTo(n, "bodies", k', j')
  <2>1. \A r \in DOMAIN Kept : r = n => PartAt(Kept[r], "visit", k, j) = PartAt(Kept[r], "bodies", k', j')
    BY <1>5, <1>6
  <2> QED BY <2>1, Zenon DEF CodeUpTo
<1>8. llvmFunctions' = CodeUpTo(n', at', k', j') /\ llvmGlobals' = GlobalsOf
  BY <1>1, <1>2, <1>7
<1>9. CountersFit'
  <2>1. Kept' = Kept /\ n' = n /\ n \in 0 .. Len(Kept)
    BY <1>1, <1>2, SameProgram
  <2> QED BY <1>1, <2>1 DEF CountersFit, InBody
<1>10. at' # "globals" /\ at' # "declare"
  BY <1>1
<1> QED BY <1>1, <1>8, <1>9, <1>10, CodeStep

LEMMA OtherBlocks ==
  \A t, a, s, f, b, x : [With(t, a, s, f, b) EXCEPT !.blocks = x] = With(t, a, s, f, x)
<1> TAKE t, a, s, f, b, x
<1> QED BY WithFacts

\* getLocalOrGlobalVal: an operand that is declared is found.
LEMMA ValFacts ==
  ASSUME llvmGlobals = GlobalsOf, NEW t, IsSeq(t.locals), L.allocas = Allocas(t), NEW o, Knows(t, o)
  PROVE  /\ getLocalOrGlobalVal(OperandOf(o)) = ValOf(o)
         /\ ValOf(o) # Null
<1>1. OperandOf(o).name = String(o.name) /\ OperandOf(o).kind = o.kind
  BY DEF OperandOf
<1>2. ValOf(o) # Null
  BY DEF ValOf, Null
<1>3. CASE o.kind = "GLOBAL"
  <2>1. \E g \in DOMAIN Module.globals : String(Module.globals[g].name) = String(o.name)
    BY <1>3, Zenon DEF Knows
  <2>2. /\ DOMAIN llvmGlobals = DOMAIN Module.globals
        /\ \A g \in DOMAIN Module.globals : llvmGlobals[g].name = String(Module.globals[g].name)
    BY DEF GlobalsOf
  <2>3. getLocalOrGlobalVal(OperandOf(o)) = <<"global", String(o.name)>>
    BY <1>1, <1>3, <2>1, <2>2, Zenon DEF getLocalOrGlobalVal
  <2> QED BY <1>2, <1>3, <2>3, Zenon DEF ValOf
<1>4. CASE o.kind # "GLOBAL"
  <2>1. \E v \in DOMAIN t.locals : String(t.locals[v].name) = String(o.name)
    BY <1>4, Zenon DEF Knows
  <2>2. /\ DOMAIN L.allocas = DOMAIN t.locals
        /\ \A v \in DOMAIN t.locals : L.allocas[v].name = String(t.locals[v].name)
    BY DEF Allocas
  <2>3. getLocalOrGlobalVal(OperandOf(o)) = <<"local", String(o.name)>>
    BY <1>1, <1>4, <2>1, <2>2, Zenon DEF getLocalOrGlobalVal, getLocalVal
  <2> QED BY <1>2, <1>4, <2>3, Zenon DEF ValOf
<1> QED BY <1>3, <1>4

LEMMA MeansFacts ==
  ASSUME NEW x, NEW i, Means(x, i)
  PROVE  /\ x.kind = i.kind /\ x.rhs = Operands(Built(i))
         /\ x.lhs = IF i.lhs = <<>> THEN NoOperand ELSE OperandOf(i.lhs[1])
         /\ x.literal = IF i.kind = "const_load" THEN Literal(getTypeTag(pool, i.type), i.value) ELSE "none"
         /\ x.to = [b \in DOMAIN i.to |-> String(i.to[b])]
         /\ x.callee = IF i.kind = "call" THEN String(i.value) ELSE ""
<1> DEFINE lhs == IF i.lhs = <<>> THEN NoOperand ELSE OperandOf(i.lhs[1])
           lit == IF i.kind = "const_load" THEN Literal(getTypeTag(pool, i.type), i.value) ELSE "none"
           to == [b \in DOMAIN i.to |-> String(i.to[b])]
           callee == IF i.kind = "call" THEN String(i.value) ELSE ""
<1>1. x = [kind |-> i.kind, bb |-> x.bb, lhs |-> lhs, rhs |-> Operands(Built(i)), literal |-> lit,
           to |-> to, callee |-> callee]
  BY Zenon DEF Means, InsnAt
<1> HIDE DEF lhs, lit, to, callee
<1>2. /\ x.kind = i.kind /\ x.rhs = Operands(Built(i)) /\ x.lhs = lhs /\ x.literal = lit
      /\ x.to = to /\ x.callee = callee
  BY <1>1
<1> QED BY <1>2, Zenon DEF lhs, lit, to, callee

\* The code of an instruction.
LEMMA CodeFacts ==
  ASSUME llvmGlobals = GlobalsOf, NEW t, IsSeq(t.locals), L.allocas = Allocas(t),
         NEW i, InsnIsWellFormed(t, i), i.kind \notin {"new_typedesc", "goto", "return"},
         NEW x, Means(x, i)
  PROVE  /\ Item(x) = ItemOf(i) /\ ~UsesNull(x)
         /\ getLocalOrGlobalVal(x.lhs) = ValOf(i.lhs[1])
<1>1. /\ i.lhs # <<>> /\ Knows(t, i.lhs[1])
      /\ \A r \in DOMAIN Built(i) : Knows(t, Built(i)[r])
  BY DEF InsnIsWellFormed
<1>3. /\ x.kind = i.kind /\ x.rhs = Operands(Built(i))
      /\ x.lhs = IF i.lhs = <<>> THEN NoOperand ELSE OperandOf(i.lhs[1])
      /\ x.literal = IF i.kind = "const_load" THEN Literal(getTypeTag(pool, i.type), i.value) ELSE "none"
      /\ x.callee = IF i.kind = "call" THEN String(i.value) ELSE ""
  BY MeansFacts, Zenon
<1>4. x.lhs = OperandOf(i.lhs[1])
  BY <1>1, <1>3, Zenon
<1>5. getLocalOrGlobalVal(x.lhs) = ValOf(i.lhs[1]) /\ ValOf(i.lhs[1]) # Null
  BY <1>1, <1>4, ValFacts
<1>6. /\ DOMAIN x.rhs = DOMAIN Built(i)
      /\ \A r \in DOMAIN Built(i) : x.rhs[r] = OperandOf(Built(i)[r])
  BY <1>3 DEF Operands
<1>7. \A r \in DOMAIN Built(i) : /\ getLocalOrGlobalVal(x.rhs[r]) = ValOf(Built(i)[r])
                                 /\ ValOf(Built(i)[r]) # Null
  BY <1>1, <1>6, ValFacts
<1>8. ~UsesNull(x)
  BY <1>5, <1>6, <1>7 DEF UsesNull
<1>9. Vals(x.rhs) = [r \in DOMAIN Built(i) |-> ValOf(Built(i)[r])]
  BY <1>6, <1>7 DEF Vals
<1>10. (IF x.kind = "call" THEN x.callee ELSE x.literal)
         = CASE i.kind = "call" -> String(i.value)
             [] i.kind = "const_load" -> Literal(getTypeTag(pool, i.type), i.value)
             [] OTHER -> "none"
  BY <1>3
<1>11. Item(x) = ItemOf(i)
  BY <1>3, <1>5, <1>9, <1>10, Zenon DEF Item, ItemOf
<1> QED BY <1>5, <1>8, <1>11

\* Function::getLocalOrGlobalVariable: the type of an operand that is declared.
LEMMA TypeFacts ==
  ASSUME globals = AllNamed(Module.globals), IsSeq(Module.globals),
         NEW t, IsSeq(t.locals), NEW f, f.locals = AllNamed(t.locals), NEW o, Knows(t, o)
  PROVE  getLocalOrGlobalVariable(f, OperandOf(o)).type = TypeOfOperand(t, o)
<1> DEFINE vs == IF o.kind = "GLOBAL" THEN Module.globals ELSE t.locals
           id == String(o.name)
           S == {v \in DOMAIN vs : String(vs[v].name) = id}
<1>1. OperandOf(o).name = id /\ OperandOf(o).kind = o.kind
  BY DEF OperandOf
<1>2. /\ IsSeq(vs) /\ \E v \in DOMAIN vs : String(vs[v].name) = id
      /\ (IF o.kind = "GLOBAL" THEN globals ELSE f.locals) = AllNamed(vs)
  <2>1. CASE o.kind = "GLOBAL"
    BY <2>1 DEF Knows
  <2>2. CASE o.kind # "GLOBAL"
    BY <2>2 DEF Knows
  <2> QED BY <2>1, <2>2
<1>3. /\ getLocalOrGlobalVariable(f, OperandOf(o)) = VariableNamed(AllNamed(vs), id)
      /\ TypeOfOperand(t, o) = TypeOfIndex(vs[First(S)].type)
  BY <1>1, <1>2, Zenon DEF getLocalOrGlobalVariable, TypeOfOperand
<1> HIDE DEF vs, id
<1>4. /\ DOMAIN AllNamed(vs) = DOMAIN vs
      /\ \A v \in DOMAIN vs : /\ AllNamed(vs)[v].name = String(vs[v].name)
                             /\ AllNamed(vs)[v].type = TypeOfIndex(vs[v].type)
  BY DEF AllNamed, Named
<1>5. {v \in DOMAIN AllNamed(vs) : AllNamed(vs)[v].name = id} = S
  BY <1>4
<1>6. First(S) \in DOMAIN vs
  <2>1. Len(vs) \in Nat /\ DOMAIN vs = 1 .. Len(vs)
    BY <1>2, SeqFacts
  <2>2. S \in SUBSET Nat /\ S # {}
    BY <1>2, <2>1
  <2> HIDE DEF S
  <2>3. First(S) \in S
    BY <2>2, LeastNumber DEF First
  <2> QED BY <2>3 DEF S
<1>7. VariableNamed(AllNamed(vs), id) = AllNamed(vs)[First(S)]
  BY <1>5, Zenon DEF VariableNamed
<1> HIDE DEF S
<1> QED BY <1>3, <1>4, <1>6, <1>7

\* What there is code for, seen from the instruction and from the file.
LEMMA SupportedFacts ==
  ASSUME globals = AllNamed(Module.globals), IsSeq(Module.globals),
         NEW t, IsText(t), NEW f, FunctionRead(f, t),
         NEW i, InsnIsWellFormed(t, i), i.kind \notin {"new_typedesc", "goto", "return"},
         NEW x, Means(x, i), FunctionsOf(x) = {f}
  PROVE  /\ IsSupported(x) <=> InsnIsTranslatable(t, i)
         /\ LoadsMainsNil(x) <=> IsMainsNil(t, i)
<1>1. /\ i.lhs # <<>> /\ Knows(t, i.lhs[1])
      /\ \A r \in DOMAIN Built(i) : Knows(t, Built(i)[r])
  BY DEF InsnIsWellFormed
<1>2. /\ x.kind = i.kind /\ x.rhs = Operands(Built(i)) /\ x.lhs = OperandOf(i.lhs[1])
      /\ i.kind = "const_load" => x.literal = Literal(getTypeTag(pool, i.type), i.value)
  BY <1>1, MeansFacts
<1>3. /\ f.name = String(t.name) /\ f.returnVar = Returned(t) /\ f.locals = AllNamed(t.locals)
      /\ IsSeq(t.locals)
  BY TextFacts DEF FunctionRead
<1>4. getFunctionRef(x) = f
  BY DEF getFunctionRef
<1>5. LoadsNil(x) <=> IsNil(i)
  BY <1>2, Zenon DEF LoadsNil, IsNil
<1>6. isMainFunction(f) <=> String(t.name) = "main"
  BY <1>3 DEF isMainFunction
<1>7. /\ f.returnVar # <<>> <=> t.returnVar # <<>>
      /\ t.returnVar # <<>> => f.returnVar[1].name = String(t.returnVar[1].name)
  BY <1>3 DEF Returned, Named
<1>8. x.lhs.name = String(i.lhs[1].name)
  BY <1>2 DEF OperandOf
<1>9. LoadsMainsNil(x) <=> IsMainsNil(t, i)
  <2>1. LoadsMainsNil(x) <=> /\ LoadsNil(x) /\ isMainFunction(f) /\ f.returnVar # <<>>
                             /\ f.returnVar[1].name = x.lhs.name
    BY DEF LoadsMainsNil
  <2> QED BY <1>5, <1>6, <1>7, <1>8, <2>1 DEF IsMainsNil
<1> DEFINE type(o) == getLocalOrGlobalVariable(f, o).type
           lhs == TypeOfOperand(t, i.lhs[1])
           rhs == [r \in DOMAIN Built(i) |-> TypeOfOperand(t, Built(i)[r])]
<1>10. type(x.lhs) = lhs
  BY <1>1, <1>2, <1>3, TypeFacts
<1>11. [r \in DOMAIN x.rhs |-> type(x.rhs[r])] = rhs
  <2>1. /\ DOMAIN x.rhs = DOMAIN Built(i)
        /\ \A r \in DOMAIN Built(i) : x.rhs[r] = OperandOf(Built(i)[r])
    BY <1>2 DEF Operands
  <2>2. \A r \in DOMAIN Built(i) : type(x.rhs[r]) = TypeOfOperand(t, Built(i)[r])
    BY <1>1, <1>3, <2>1, TypeFacts
  <2> HIDE DEF type
  <2> QED BY <2>1, <2>2
<1>12. IsSupported(x) <=> /\ HasCode(x.kind, type(x.lhs), [r \in DOMAIN x.rhs |-> type(x.rhs[r])])
                          /\ LoadsNil(x) /\ isMainFunction(f) => f.returnVar # <<>>
  BY <1>4, Zenon DEF IsSupported
<1>13. InsnIsTranslatable(t, i) <=> /\ HasCode(i.kind, lhs, rhs)
                                    /\ IsNil(i) /\ String(t.name) = "main" => t.returnVar # <<>>
  BY Zenon DEF InsnIsTranslatable
<1> HIDE DEF type, lhs, rhs
<1>14. HasCode(x.kind, type(x.lhs), [r \in DOMAIN x.rhs |-> type(x.rhs[r])])
         <=> HasCode(i.kind, lhs, rhs)
  BY <1>2, <1>10, <1>11, Zenon
<1> QED BY <1>5, <1>6, <1>7, <1>9, <1>12, <1>13, <1>14, Zenon

\* getFunctionRef: the pointers of an instruction lead to its function.
LEMMA FunctionOfInsn ==
  ASSUME IInv, PackageInv, NEW f \in 1 .. functions.len,
         NEW b \in 1 .. functions.items[f].blocks.len,
         NEW x, x.bb = Address(functions.items[f].blocks, b)
  PROVE  FunctionsOf(x) = {functions.items[f]}
<1> DEFINE bs == functions.items[f].blocks
<1>1. GoodFunctions(functions) /\ BuffersApart
  BY DEF IInv, PackageInv
<1>2. bs.items[b].parent = Address(functions, f)
  BY <1>1 DEF GoodFunctions, GoodFunction, GoodBlocks, GoodBlock
<1>3. ASSUME NEW g \in 1 .. functions.len, NEW c \in 1 .. functions.items[g].blocks.len,
             Address(functions.items[g].blocks, c) = x.bb
      PROVE  g = f /\ c = b
  <2>1. functions.items[g].blocks.buf = bs.buf /\ c = b
    BY <1>3 DEF Address
  <2>2. bs.buf # 0
    BY <1>1 DEF BuffersApart
  <2> QED BY <1>1, <2>1, <2>2 DEF BuffersApart
<1>4. BlocksAt(x.bb) = {bs.items[b]}
  <2>1. bs.items[b] \in BlocksAt(x.bb)
    BY DEF BlocksAt
  <2>2. \A y \in BlocksAt(x.bb) : y = bs.items[b]
    BY <1>3 DEF BlocksAt
  <2> QED BY <2>1, <2>2
<1>5. \A g \in 1 .. functions.len : Address(functions, g) = Address(functions, f) <=> g = f
  BY DEF Address
<1> QED BY <1>2, <1>4, <1>5 DEF FunctionsOf

\* BasicBlockCodeGen::visit: where it is, and what is there.
LEMMA VisitFacts ==
  ASSUME IInv, PackageInv, ProgramIsWellFormed, CodeInv,
         phase = "code", at = "visit", k < F.blocks.len
  PROVE  /\ IsText(Kept[n]) /\ FunctionRead(F, Kept[n]) /\ BodyIsWellFormed(Kept[n])
         /\ llvmGlobals = GlobalsOf /\ k \in Nat /\ j \in Nat
         /\ k + 1 \in DOMAIN Kept[n].blocks /\ k + 1 \in 0 .. Len(Kept[n].blocks)
         /\ DOMAIN Kept[n].blocks = 1 .. Len(Kept[n].blocks) /\ k < Len(Kept[n].blocks)
         /\ IsSeq(Kept[n].blocks[k + 1].insns)
         /\ BlockIsWellFormed(Kept[n], Kept[n].blocks[k + 1])
         /\ WholeBlock(B, Kept[n].blocks[k + 1]) /\ IsSeq(B.insns)
         /\ \A i \in DOMAIN B.insns : FunctionsOf(B.insns[i]) = {F}
         /\ \A i \in DOMAIN B.terminator : FunctionsOf(B.terminator[i]) = {F}
         /\ j <= Cardinality(PlainAt(Kept[n].blocks[k + 1]))
<1> DEFINE t == Kept[n]
           b == t.blocks[k + 1]
<1>1. at \in InBody
  BY DEF InBody
<1>2. /\ IsText(t) /\ FunctionRead(F, t) /\ BodyIsWellFormed(t) /\ k \in Nat /\ CountersFit
      /\ llvmGlobals = GlobalsOf /\ n \in 1 .. Len(Kept)
  BY <1>1, BodyFacts
<1>3. /\ F.blocks.len = Len(t.blocks) /\ Len(t.blocks) \in Nat
      /\ DOMAIN t.blocks = 1 .. Len(t.blocks)
  BY <1>2, TextFacts DEF FunctionRead
<1>4. /\ k < Len(t.blocks) /\ k + 1 \in 1 .. Len(t.blocks) /\ k + 1 \in 0 .. Len(t.blocks)
  BY <1>2, <1>3
<1>5. j \in Nat /\ j <= Cardinality(PlainAt(b))
  BY <1>2, <1>4 DEF CountersFit
<1>6. IsSeq(b.insns)
  BY <1>2, <1>3, <1>4 DEF IsText
<1>7. BlockIsWellFormed(t, b)
  BY <1>2, <1>3, <1>4 DEF BodyIsWellFormed
<1>8. WholeBlock(B, b)
  BY <1>2, <1>4 DEF FunctionRead, B
<1>9. functions.len = Len(Kept)
  BY KeptFacts
<1>10. /\ IsSeq(B.insns)
       /\ \A i \in DOMAIN B.insns : B.insns[i].bb = Address(F.blocks, k + 1)
       /\ \A i \in DOMAIN B.terminator : B.terminator[i].bb = Address(F.blocks, k + 1)
  <2>1. GoodFunction(F, Address(functions, n))
    BY <1>2, <1>9 DEF IInv, GoodFunctions, F
  <2>2. k + 1 \in 1 .. F.blocks.len
    BY <1>3, <1>4
  <2>3. GoodBlock(B, Address(functions, n), Address(F.blocks, k + 1))
    BY <2>1, <2>2 DEF GoodFunction, GoodBlocks, B
  <2> QED BY <2>3 DEF GoodBlock
<1>11. \A x : x.bb = Address(F.blocks, k + 1) => FunctionsOf(x) = {F}
  <2>1. k + 1 \in 1 .. functions.items[n].blocks.len /\ n \in 1 .. functions.len
    BY <1>2, <1>3, <1>4, <1>9 DEF F
  <2> QED BY <2>1, FunctionOfInsn DEF F
<1> HIDE DEF t, b
<1> QED BY <1>2, <1>3, <1>4, <1>5, <1>6, <1>7, <1>8, <1>10, <1>11 DEF t, b

\* The code of a function of which some blocks are visited.
LEMMA VisitCode ==
  ASSUME IInv, PackageInv, ProgramIsWellFormed, CodeInv,
         phase = "code", at = "visit", k < F.blocks.len
  PROVE  LET t == Kept[n]
             b == t.blocks[k + 1]
         IN  /\ L = With(t, Allocas(t), Stored(t, ArgsAt(t)), <<1>>, BlocksPart(t, k, j))
             /\ L.allocas = Allocas(t)
             /\ BlocksPart(t, k, j)[k + 1]
                  = [id |-> String(b.name), code |-> PlainItems(t, b, j), ends |-> <<>>]
             /\ Here = k + 1
             /\ \A c \in DOMAIN t.blocks : getBasicBlock(String(t.blocks[c].name)) = <<c>>
             /\ [BlocksPart(t, k, j) EXCEPT ![k + 1] = BlockPart(t, b, j + 1)] = BlocksPart(t, k, j + 1)
             /\ [BlocksPart(t, k, j) EXCEPT ![k + 1] = BlockCode(t, b)] = BlocksPart(t, k + 1, 0)
<1> DEFINE t == Kept[n]
           b == t.blocks[k + 1]
           q == BlocksPart(t, k, j)
<1>1. /\ IsText(t) /\ BodyIsWellFormed(t) /\ k \in Nat /\ j \in Nat
      /\ k + 1 \in DOMAIN t.blocks /\ DOMAIN t.blocks = 1 .. Len(t.blocks)
      /\ WholeBlock(B, b)
  BY VisitFacts
<1>2. L = PartAt(t, "visit", k, j)
  BY BodyFacts DEF InBody
<1>3. L = With(t, Allocas(t), Stored(t, ArgsAt(t)), <<1>>, q)
  BY <1>2 DEF PartAt
<1>4. L.allocas = Allocas(t) /\ L.blocks = q
  BY <1>3, WithFacts
<1>5. \A c \in 1 .. Len(t.blocks) :
        /\ c <= k + 1 <=> c <= k \/ c = k + 1
        /\ c = k + 1 => ~(c <= k) /\ c # (k + 1) + 1
        /\ c <= k => c # k + 1
  BY <1>1
<1>6. q[k + 1] = BlockPart(t, b, j)
  BY <1>1, <1>5, Zenon DEF BlocksPart
<1>7. \A c \in DOMAIN t.blocks : q[c].id = String(t.blocks[c].name)
  <2>1. \A c \in DOMAIN t.blocks :
          q[c] = BlockCode(t, t.blocks[c]) \/ \E m : q[c] = BlockPart(t, t.blocks[c], m)
    BY Zenon DEF BlocksPart
  <2>2. \A c \in DOMAIN t.blocks : BlockCode(t, t.blocks[c]).id = String(t.blocks[c].name)
    BY DEF BlockCode
  <2>3. \A c \in DOMAIN t.blocks : \A m : BlockPart(t, t.blocks[c], m).id = String(t.blocks[c].name)
    BY DEF BlockPart
  <2> HIDE DEF q, t
  <2> QED BY <2>1, <2>2, <2>3, Zenon
<1>8. DOMAIN q = DOMAIN t.blocks
  BY DEF BlocksPart
<1>9. \A c \in DOMAIN t.blocks : /\ Last(BlocksNamed(String(t.blocks[c].name))) = c
                                 /\ getBasicBlock(String(t.blocks[c].name)) = <<c>>
  BY <1>1, <1>4, <1>7, <1>8, FindBlock
<1>10. Here = k + 1
  <2>1. B.id = String(b.name)
    BY <1>1 DEF WholeBlock, BlockRead
  <2> QED BY <1>1, <1>9, <2>1 DEF Here
<1>11. [q EXCEPT ![k + 1] = BlockPart(t, b, j + 1)] = BlocksPart(t, k, j + 1)
  BY <1>1, <1>5 DEF BlocksPart
<1>12. [q EXCEPT ![k + 1] = BlockCode(t, b)] = BlocksPart(t, k + 1, 0)
  BY <1>1, <1>5 DEF BlocksPart
<1> QED BY <1>3, <1>4, <1>6, <1>9, <1>10, <1>11, <1>12, Zenon DEF BlockPart

\* The code of the block grows.
LEMMA VisitStep ==
  ASSUME IInv, PackageInv, ProgramIsWellFormed, CodeInv,
         phase = "code", at = "visit", k < F.blocks.len, NEW items, NEW ends
  PROVE  LET t == Kept[n]
             b == t.blocks[k + 1]
         IN  WithCode(k + 1, items, ends)
               = WithL(With(t, Allocas(t), Stored(t, ArgsAt(t)), <<1>>,
                            [BlocksPart(t, k, j) EXCEPT
                              ![k + 1] = [id |-> String(b.name),
                                          code |-> PlainItems(t, b, j) \o items,
                                          ends |-> <<>> \o ends]]))
<1> DEFINE t == Kept[n]
           b == t.blocks[k + 1]
           q == BlocksPart(t, k, j)
           c == PlainItems(t, b, j)
           d == String(b.name)
           a == Allocas(t)
           s == Stored(t, ArgsAt(t))
           f == <<1>>
           p == k + 1
           e == <<>>
<1>1. L = With(t, a, s, f, q) /\ q[p] = [id |-> d, code |-> c, ends |-> e]
  BY VisitCode
<1> HIDE DEF t, b, q, c, d, a, s, f, p, e
<1>2. q[p].id = d /\ q[p].code = c /\ q[p].ends = e
  BY <1>1
<1>3. L.blocks = q
  <2>1. With(t, a, s, f, q).blocks = q
    BY WithFacts
  <2> QED BY <1>1, <2>1, Zenon
<1> DEFINE x == [id |-> q[p].id, code |-> q[p].code \o items, ends |-> q[p].ends \o ends]
           q1 == [q EXCEPT ![p] = x]
<1>4. [L EXCEPT !.blocks[p] = [id |-> @.id, code |-> @.code \o items, ends |-> @.ends \o ends]]
        = [L EXCEPT !.blocks = q1]
  BY <1>3
<1> HIDE DEF q1
<1>5. [L EXCEPT !.blocks = q1] = With(t, a, s, f, q1)
  <2>1. \A y : [With(t, a, s, f, q) EXCEPT !.blocks = y] = With(t, a, s, f, y)
    BY OtherBlocks
  <2> QED BY <1>1, <2>1, Zenon
<1>6. WithCode(p, items, ends) = WithL(With(t, a, s, f, q1))
  BY <1>4, <1>5 DEF WithCode
<1>7. q1 = [q EXCEPT ![p] = [id |-> d, code |-> c \o items, ends |-> e \o ends]]
  BY <1>2 DEF q1
<1> QED BY <1>6, <1>7, Zenon DEF t, b, q, c, d, a, s, f, p, e

LEMMA SamePlaces == \A a, c \in Nat : 1 .. a = 1 .. c => a = c
OBVIOUS

\* The instructions that were read of a block, and its terminator.
LEMMA InsnsOfBlock ==
  ASSUME NEW t, NEW b, IsSeq(b.insns), BlockIsWellFormed(t, b),
         NEW x, WholeBlock(x, b), IsSeq(x.insns)
  PROVE  /\ Len(x.insns) = Cardinality(PlainAt(b)) /\ Len(x.insns) \in Nat
         /\ DOMAIN x.insns = 1 .. Len(x.insns)
         /\ DOMAIN Selected(b.insns, PlainAt(b)) = 1 .. Len(x.insns)
         /\ \A r \in 1 .. Len(x.insns) : \E i \in PlainAt(b) :
              /\ Selected(b.insns, PlainAt(b))[r] = b.insns[i]
              /\ Means(x.insns[r], b.insns[i]) /\ InsnIsWellFormed(t, b.insns[i])
              /\ b.insns[i].kind \notin Terminators \cup {"new_typedesc"}
         /\ \E y : x.terminator = <<y>> /\ Means(y, b.insns[Len(b.insns)])
         /\ Len(b.insns) \in DOMAIN b.insns
         /\ b.insns[Len(b.insns)].kind \in Terminators
         /\ InsnIsWellFormed(t, b.insns[Len(b.insns)])
<1> DEFINE plain == Selected(b.insns, PlainAt(b))
           l == Len(b.insns)
<1>1. /\ l \in Nat /\ DOMAIN b.insns = 1 .. l
      /\ PlainAt(b) \in SUBSET (1 .. l) /\ EndsAt(b) \in SUBSET (1 .. l)
      /\ PlainAt(b) \in SUBSET (Nat \ {0}) /\ EndsAt(b) \in SUBSET (Nat \ {0})
  BY PlacesOfInsns
<1>2. UpTo(PlainAt(b), l) = PlainAt(b) /\ UpTo(EndsAt(b), l) = EndsAt(b)
  BY <1>1, UpToFacts
<1>3. /\ Cardinality(PlainAt(b)) \in Nat /\ DOMAIN plain = 1 .. Cardinality(PlainAt(b))
      /\ \A r \in 1 .. Cardinality(PlainAt(b)) : \E i \in PlainAt(b) : plain[r] = b.insns[i]
  <2> DEFINE s == b.insns
             P == PlainAt(b)
  <2>1. l \in Nat /\ P \in SUBSET (1 .. l)
    BY <1>1
  <2> HIDE DEF s, P, l
  <2>2. Cardinality(P) \in Nat
    BY <2>1, PlacesAreFinite
  <2>3. /\ DOMAIN Selected(s, P) = 1 .. Cardinality(P)
        /\ \A r \in 1 .. Cardinality(P) : Selected(s, P)[r] = s[NthOf(P, r)]
    BY <2>2, SelectedIsSeq
  <2>4. \A r \in 1 .. Cardinality(P) : NthOf(P, r) \in P
    BY <2>1, NthIsThere
  <2> QED BY <2>2, <2>3, <2>4 DEF s, P
<1>4. /\ DOMAIN x.insns = DOMAIN plain
      /\ \A r \in DOMAIN plain : Means(x.insns[r], plain[r])
      /\ \A i \in EndsAt(b) : (\A h \in EndsAt(b) : h <= i) =>
           \E y : x.terminator = <<y>> /\ Means(y, b.insns[i])
  BY <1>2 DEF WholeBlock, BlockRead
<1>5. b.insns # <<>> /\ \A i \in DOMAIN b.insns : /\ b.insns[i].kind \in Terminators <=> i = l
                                                 /\ InsnIsWellFormed(t, b.insns[i])
  BY DEF BlockIsWellFormed
<1>6. l \in DOMAIN b.insns
  <2>1. l # 0
    BY <1>1, <1>5 DEF IsSeq
  <2> QED BY <1>1, <2>1
<1>7. EndsAt(b) = {l}
  BY <1>5, <1>6, Zenon DEF EndsAt
<1>8. l <= l
  BY <1>1
<1>9. \E y : x.terminator = <<y>> /\ Means(y, b.insns[l])
  BY <1>4, <1>7, <1>8, Zenon
<1>10. Len(x.insns) = Cardinality(PlainAt(b)) /\ DOMAIN x.insns = 1 .. Len(x.insns)
  <2>1. DOMAIN x.insns = 1 .. Len(x.insns) /\ Len(x.insns) \in Nat
    BY SeqFacts
  <2>2. 1 .. Len(x.insns) = 1 .. Cardinality(PlainAt(b))
    BY <1>3, <1>4, <2>1
  <2> HIDE DEF plain, l
  <2> QED BY <1>3, <2>1, <2>2, SamePlaces
<1>11. \A i \in PlainAt(b) : /\ InsnIsWellFormed(t, b.insns[i])
                             /\ b.insns[i].kind \notin Terminators \cup {"new_typedesc"}
  BY <1>5 DEF PlainAt
<1> HIDE DEF plain, l
<1>12. ASSUME NEW r \in 1 .. Len(x.insns)
       PROVE  \E i \in PlainAt(b) :
                /\ plain[r] = b.insns[i] /\ Means(x.insns[r], b.insns[i])
                /\ InsnIsWellFormed(t, b.insns[i])
                /\ b.insns[i].kind \notin Terminators \cup {"new_typedesc"}
  BY <1>3, <1>4, <1>10, <1>11
<1> QED BY <1>3, <1>4, <1>5, <1>6, <1>9, <1>10, <1>12 DEF plain, l

LEMMA CodeEmitInsn ==
  IInv /\ PackageInv /\ ProgramIsWellFormed /\ CodeInv /\ EmitInsn => CodeInv'
<1> SUFFICES ASSUME IInv, PackageInv, ProgramIsWellFormed, CodeInv, EmitInsn PROVE CodeInv'
  OBVIOUS
<1> DEFINE t == Kept[n]
           b == t.blocks[k + 1]
           x == B.insns[j + 1]
           q == BlocksPart(t, k, j)
           plain == Selected(b.insns, PlainAt(b))
<1>1. phase = "code" /\ at = "visit" /\ at \in InBody /\ k < F.blocks.len /\ j < Len(B.insns)
  BY DEF EmitInsn, InBody
<1>2. /\ IsText(t) /\ FunctionRead(F, t) /\ llvmGlobals = GlobalsOf /\ k \in Nat /\ j \in Nat
      /\ k + 1 \in 0 .. Len(t.blocks) /\ k < Len(t.blocks)
      /\ IsSeq(b.insns) /\ BlockIsWellFormed(t, b) /\ WholeBlock(B, b) /\ IsSeq(B.insns)
      /\ \A i \in DOMAIN B.insns : FunctionsOf(B.insns[i]) = {F}
      /\ k \in 0 .. Len(t.blocks)
  <2>1. CountersFit
    BY <1>1, BodyFacts
  <2> QED BY <1>1, <2>1, VisitFacts DEF CountersFit
<1>3. /\ L = With(t, Allocas(t), Stored(t, ArgsAt(t)), <<1>>, q) /\ L.allocas = Allocas(t)
      /\ q[k + 1] = [id |-> String(b.name), code |-> PlainItems(t, b, j), ends |-> <<>>]
      /\ Here = k + 1
      /\ [q EXCEPT ![k + 1] = BlockPart(t, b, j + 1)] = BlocksPart(t, k, j + 1)
  BY <1>1, VisitCode
<1>4. j + 1 \in 1 .. Len(B.insns) /\ j + 1 \in DOMAIN B.insns
      /\ Len(B.insns) = Cardinality(PlainAt(b)) /\ j + 1 <= Len(B.insns)
  <2>1. /\ DOMAIN B.insns = 1 .. Len(B.insns) /\ Len(B.insns) \in Nat
        /\ Len(B.insns) = Cardinality(PlainAt(b))
    BY <1>2, InsnsOfBlock
  <2> QED BY <1>1, <1>2, <2>1
<1>5. PICK p \in PlainAt(b) :
        /\ plain[j + 1] = b.insns[p]
        /\ Means(x, b.insns[p]) /\ InsnIsWellFormed(t, b.insns[p])
        /\ b.insns[p].kind \notin Terminators \cup {"new_typedesc"}
  BY <1>2, <1>4, InsnsOfBlock
<1> DEFINE i == b.insns[p]
<1>6. i.kind \notin {"new_typedesc", "goto", "return", "cond_br", "call"} /\ x.kind = i.kind
  <2>1. x.kind = i.kind
    BY <1>5, MeansFacts
  <2> QED BY <1>5, <2>1 DEF Terminators
<1>7. FunctionsOf(x) = {F} /\ IsSeq(t.locals)
  BY <1>2, <1>4, TextFacts
<1>8. Item(x) = ItemOf(i) /\ ~UsesNull(x)
  <2>1. /\ IsSeq(t.locals) /\ L.allocas = Allocas(t) /\ llvmGlobals = GlobalsOf
        /\ InsnIsWellFormed(t, i) /\ Means(x, i) /\ i.kind \notin {"new_typedesc", "goto", "return"}
    BY <1>2, <1>3, <1>5, <1>6, <1>7
  <2> HIDE DEF i, t, x
  <2> QED BY <2>1, CodeFacts
<1>9. /\ IsSupported(x) <=> InsnIsTranslatable(t, i)
      /\ LoadsMainsNil(x) <=> IsMainsNil(t, i)
  <2>1. globals = AllNamed(Module.globals) /\ IsSeq(Module.globals)
    BY <1>1, KeptFacts
  <2>2. /\ InsnIsWellFormed(t, i) /\ Means(x, i) /\ i.kind \notin {"new_typedesc", "goto", "return"}
    BY <1>5, <1>6
  <2> HIDE DEF i, t, x
  <2> QED BY <1>2, <1>7, <2>1, <2>2, SupportedFacts
<1>10. ~HitsNull(x)
  <2> HIDE DEF x, i
  <2> QED BY <1>6, <1>7, <1>8 DEF HitsNull
<1>11. CASE ~IsSupported(x)
  <2>1. ~InsnIsTranslatable(t, i)
    BY <1>9, <1>11
  <2>2. k + 1 \in DOMAIN t.blocks /\ p \in DOMAIN b.insns
    BY <1>1, VisitFacts DEF PlainAt
  <2>3. ~BodyIsTranslatable(t)
    BY <2>1, <2>2, Zenon DEF BodyIsTranslatable
  <2>4. phase' = "undefined" /\ UNCHANGED <<file, pool>>
    BY <1>10, <1>11 DEF EmitInsn, Fail
  <2> QED BY <1>1, <2>3, <2>4, BodyFacts, BodyGivesUp
<1> SUFFICES ASSUME IsSupported(x) PROVE CodeInv'
  BY <1>11
<1>12. /\ llvmFunctions' = WithCode(k + 1, Code(x), <<>>) /\ j' = j + 1 /\ phase' = "code"
       /\ UNCHANGED <<at, n, k, llvmGlobals, current, file, pool>>
  BY <1>1, <1>3, <1>10 DEF EmitInsn
<1>13. PlainItems(t, b, j) \o Code(x) = PlainItems(t, b, j + 1)
  <2>1. i.kind # "type_test"
    <3>1. HasCode(i.kind, TypeOfOperand(t, i.lhs[1]),
                  [r \in DOMAIN Built(i) |-> TypeOfOperand(t, Built(i)[r])])
      BY <1>9 DEF InsnIsTranslatable
    <3> QED BY <3>1 DEF HasCode
  <2>2. DOMAIN plain = 1 .. Len(B.insns)
    <3> HIDE DEF t, b
    <3> QED BY <1>2, InsnsOfBlock DEF plain
  <2>3. j + 1 \in CodeAt(t, plain) <=> ~IsMainsNil(t, i)
    <3>1. j + 1 \in DOMAIN plain /\ plain[j + 1] = i
      BY <1>4, <1>5, <2>2
    <3> HIDE DEF i, plain
    <3> QED BY <2>1, <3>1 DEF CodeAt
  <2>4. /\ PlainItems(t, b, j) \o <<>> = PlainItems(t, b, j)
        /\ j + 1 \in CodeAt(t, plain) =>
             PlainItems(t, b, j) \o <<ItemOf(plain[j + 1])>> = PlainItems(t, b, j + 1)
        /\ j + 1 \notin CodeAt(t, plain) => PlainItems(t, b, j) = PlainItems(t, b, j + 1)
    <3> HIDE DEF t, b
    <3> QED BY <1>2, ItemsFacts DEF plain
  <2>5. plain[j + 1] = i
    BY <1>5
  <2> HIDE DEF x, i, plain, t, b
  <2> QED BY <1>8, <1>9, <2>3, <2>4, <2>5 DEF Code
<1> HIDE DEF x, q, i, plain
<1>14. llvmFunctions' = WithL(With(t, Allocas(t), Stored(t, ArgsAt(t)), <<1>>,
                                  BlocksPart(t, k, j + 1)))
  <2>1. WithCode(k + 1, Code(x), <<>>)
          = WithL(With(t, Allocas(t), Stored(t, ArgsAt(t)), <<1>>,
                       [q EXCEPT ![k + 1] = [id |-> String(b.name),
                                             code |-> PlainItems(t, b, j) \o Code(x),
                                             ends |-> <<>> \o <<>>]]))
    BY <1>1, VisitStep DEF q
  <2>2. <<>> \o <<>> = <<>>
    OBVIOUS
  <2>3. BlockPart(t, b, j + 1)
          = [id |-> String(b.name), code |-> PlainItems(t, b, j) \o Code(x), ends |-> <<>> \o <<>>]
    BY <1>13, <2>2 DEF BlockPart
  <2> QED BY <1>3, <1>12, <2>1, <2>3, Zenon
<1>15. PartAt(t, at', k', j')
         = With(t, Allocas(t), Stored(t, ArgsAt(t)), <<1>>, BlocksPart(t, k, j + 1))
  <2>1. at' = "visit" /\ k' = k /\ j' = j + 1
    BY <1>1, <1>12
  <2> QED BY <2>1 DEF PartAt
<1>16. /\ llvmFunctions' = WithL(PartAt(t, at', k', j'))
       /\ at' \in InBody /\ at' # "allocas" /\ k' \in 0 .. Len(t.blocks) /\ j' \in Nat
       /\ j' <= Cardinality(PlainAt(t.blocks[k' + 1]))
  BY <1>1, <1>2, <1>4, <1>12, <1>14, <1>15
<1> QED BY <1>1, <1>12, <1>16, BodyStep

\* The blocks a terminator goes to.
LEMMA TargetsFacts ==
  ASSUME NEW t, \A c \in DOMAIN t.blocks : getBasicBlock(String(t.blocks[c].name)) = <<c>>,
         NEW i, i.kind \in {"goto", "cond_br", "call"}, InsnIsWellFormed(t, i), IsSeq(i.to),
         NEW x, Means(x, i)
  PROVE  /\ Targets(x) = [d \in DOMAIN i.to |-> <<BlockOf(t, i.to[d])>>]
         /\ DOMAIN x.to = DOMAIN i.to /\ 1 \in DOMAIN i.to
         /\ \A d \in DOMAIN i.to : getBasicBlock(x.to[d]) # Null
         /\ Targets(x)[1] # Null
<1>1. /\ i.to # <<>>
      /\ \A d \in DOMAIN i.to :
           \E b \in DOMAIN t.blocks : String(t.blocks[b].name) = String(i.to[d])
  BY DEF InsnIsWellFormed
<1>2. DOMAIN x.to = DOMAIN i.to /\ \A d \in DOMAIN i.to : x.to[d] = String(i.to[d])
  <2>1. x.to = [d \in DOMAIN i.to |-> String(i.to[d])]
    BY MeansFacts, Zenon
  <2> QED BY <2>1
<1>3. ASSUME NEW d \in DOMAIN i.to
      PROVE  getBasicBlock(x.to[d]) = <<BlockOf(t, i.to[d])>>
  <2>1. /\ BlockOf(t, i.to[d]) \in DOMAIN t.blocks
        /\ String(t.blocks[BlockOf(t, i.to[d])].name) = String(i.to[d])
    BY <1>1 DEF BlockOf
  <2> QED BY <1>2, <2>1
<1>4. \A b : <<b>> # Null
  BY DEF Null
<1>5. 1 \in DOMAIN i.to
  <2>1. Len(i.to) # 0 /\ DOMAIN i.to = 1 .. Len(i.to) /\ Len(i.to) \in Nat
    BY <1>1 DEF IsSeq
  <2> QED BY <2>1
<1>6. Targets(x) = [d \in DOMAIN i.to |-> <<BlockOf(t, i.to[d])>>]
  BY <1>2, <1>3 DEF Targets
<1> QED BY <1>2, <1>3, <1>4, <1>5, <1>6

\* The same places of two sequences that agree there.
LEMMA SelectedAgrees ==
  ASSUME NEW m \in Nat, NEW P \in SUBSET (1 .. m), NEW s, NEW u, \A i \in 1 .. m : s[i] = u[i]
  PROVE  Selected(s, P) = Selected(u, P)
<1>1. \A r \in 1 .. Cardinality(P) : NthOf(P, r) \in 1 .. m
  BY NthIsThere
<1> QED BY <1>1 DEF Selected

\* A whole block: its plain instructions, the call it may end with, its end.
LEMMA BlockCodeFacts ==
  ASSUME NEW t, NEW b, IsSeq(b.insns), BlockIsWellFormed(t, b)
  PROVE  LET e == b.insns[Len(b.insns)]
             c == Cardinality(PlainAt(b))
         IN  /\ e.kind # "call" =>
                  BlockCode(t, b) = [id |-> String(b.name), code |-> PlainItems(t, b, c) \o <<>>,
                                     ends |-> <<>> \o <<EndOf(t, e)>>]
             /\ e.kind = "call" =>
                  BlockCode(t, b) = [id |-> String(b.name),
                                     code |-> PlainItems(t, b, c) \o <<ItemOf(e)>>,
                                     ends |-> <<>> \o <<EndOf(t, e)>>]
<1> DEFINE l == Len(b.insns)
           e == b.insns[l]
           c == Cardinality(PlainAt(b))
           plain == Selected(b.insns, PlainAt(b))
           Q == CodeAt(t, plain)
           kept == Selected(b.insns, KeptInsns(b))
           code == Selected(kept, CodeAt(t, kept))
<1>1. /\ l \in Nat /\ DOMAIN b.insns = 1 .. l /\ PlainAt(b) \in SUBSET (1 .. l)
  BY PlacesOfInsns
<1>2. \A i \in DOMAIN b.insns : b.insns[i].kind \in Terminators <=> i = l
  BY DEF BlockIsWellFormed
<1>3. l \in DOMAIN b.insns
  <2>1. b.insns # <<>>
    BY DEF BlockIsWellFormed
  <2>2. l # 0
    BY <2>1 DEF IsSeq
  <2> QED BY <1>1, <2>2
<1>4. /\ c \in Nat /\ IsSeq(plain) /\ Len(plain) = c /\ DOMAIN plain = 1 .. c
      /\ Q \in SUBSET (1 .. c) /\ UpTo(Q, c) = Q
  BY CodePlaces
<1>5. PlainItems(t, b, c) = ItemsOf(Selected(plain, Q))
  BY <1>4 DEF PlainItems
<1>6. IsSeq(Selected(plain, Q))
  <2> HIDE DEF plain, Q, c
  <2> QED BY <1>4, SelectedFacts
<1>7. <<>> \o <<EndOf(t, e)>> = <<EndOf(t, e)>>
  <2>1. IsSeq(<<>>)
    BY DEF IsSeq
  <2> HIDE DEF e
  <2> QED BY <2>1, ConcatFacts
<1>8. BlockCode(t, b) = [id |-> String(b.name), code |-> ItemsOf(code), ends |-> <<EndOf(t, e)>>]
  BY Zenon DEF BlockCode, ItemsOf
<1>9. CASE e.kind # "call"
  <2>1. KeptInsns(b) = PlainAt(b)
    <3>1. \A i \in DOMAIN b.insns :
            b.insns[i].kind \notin {"new_typedesc", "goto", "return", "cond_br"}
              <=> b.insns[i].kind \notin Terminators \cup {"new_typedesc"}
      BY <1>2, <1>9 DEF Terminators
    <3> QED BY <3>1, Zenon DEF KeptInsns, PlainAt
  <2>2. code = Selected(plain, Q)
    BY <2>1
  <2>3. ItemsOf(code) = PlainItems(t, b, c) \o <<>>
    <3>1. ItemsOf(Selected(plain, Q)) \o <<>> = ItemsOf(Selected(plain, Q))
      <4> HIDE DEF plain, Q
      <4> QED BY <1>6, ItemsOfFacts
    <3> QED BY <1>5, <2>2, <3>1, Zenon
  <2> QED BY <1>7, <1>8, <1>9, <2>3, Zenon
<1>10. CASE e.kind = "call"
  <2> DEFINE P == PlainAt(b)
             p == l - 1
             s == b.insns
  <2>1. p \in Nat /\ p + 1 = l
    BY <1>1, <1>3
  <2>2. P \in SUBSET (1 .. p)
    <3>1. l \notin P
      BY <1>2, <1>3 DEF PlainAt
    <3>2. \A i \in 1 .. l : i # l => i \in 1 .. p
      BY <1>1
    <3> QED BY <1>1, <3>1, <3>2
  <2>3. KeptInsns(b) = P \cup {l}
    <3>1. \A i \in DOMAIN b.insns :
            b.insns[i].kind \notin {"new_typedesc", "goto", "return", "cond_br"}
              <=> b.insns[i].kind \notin Terminators \cup {"new_typedesc"} \/ i = l
      BY <1>2, <1>10 DEF Terminators
    <3> QED BY <1>3, <3>1, Zenon DEF KeptInsns, PlainAt
  <2>4. kept = Append(plain, e)
    <3>1. KeptInsns(b) = P \cup {p + 1} /\ e = s[p + 1]
      BY <2>1, <2>3
    <3> HIDE DEF p, P, s
    <3>2. Selected(s, P \cup {p + 1}) = Append(Selected(s, P), s[p + 1])
      BY <2>1, <2>2, SelectedFacts
    <3> HIDE DEF e
    <3> QED BY <3>1, <3>2 DEF P, s
  <2> HIDE DEF p, P, s
  <2>5. /\ IsSeq(kept) /\ Len(kept) = c + 1 /\ kept[c + 1] = e
        /\ \A r \in 1 .. c : kept[r] = plain[r]
    <3> HIDE DEF kept, plain, e, c
    <3> QED BY <1>4, <2>4, AppendFacts
  <2>6. DOMAIN kept = 1 .. c + 1
    <3> HIDE DEF kept, c
    <3> QED BY <2>5, SeqFacts
  <2>7. e.kind # "type_test" /\ ~IsMainsNil(t, e)
    BY <1>10 DEF IsMainsNil, IsNil
  <2> HIDE DEF code, kept, plain, e, c, Q
  <2>8. CodeAt(t, kept) = Q \cup {c + 1}
    <3>1. \A r \in 1 .. c + 1 : r \in 1 .. c \/ r = c + 1
      BY <1>4, OneMorePlace
    <3>2. \A r \in 1 .. c : r \in 1 .. c + 1 /\ r # c + 1
      BY <1>4
    <3>3. c + 1 \in 1 .. c + 1
      BY <1>4
    <3>4. \A r : r \in CodeAt(t, kept)
                 <=> r \in 1 .. c + 1 /\ kept[r].kind # "type_test" /\ ~IsMainsNil(t, kept[r])
      BY <2>6 DEF CodeAt
    <3>5. \A r : r \in Q
                 <=> r \in 1 .. c /\ plain[r].kind # "type_test" /\ ~IsMainsNil(t, plain[r])
      BY <1>4 DEF CodeAt, Q
    <3>6. \A r \in 1 .. c : r \in CodeAt(t, kept) <=> r \in Q
      BY <2>5, <3>2, <3>4, <3>5
    <3>7. c + 1 \in CodeAt(t, kept)
      BY <2>5, <2>7, <3>3, <3>4
    <3> QED BY <3>1, <3>4, <3>5, <3>6, <3>7, Zenon
  <2>9. Selected(kept, Q \cup {c + 1}) = Append(Selected(kept, Q), kept[c + 1])
    BY <1>4, SelectedFacts
  <2>10. Selected(kept, Q) = Selected(plain, Q)
    BY <1>4, <2>5, SelectedAgrees
  <2>11. code = Append(Selected(plain, Q), e)
    BY <2>5, <2>8, <2>9, <2>10 DEF code
  <2>12. ItemsOf(code) = PlainItems(t, b, c) \o <<ItemOf(e)>>
    <3>1. ItemsOf(Selected(plain, Q)) \o <<ItemOf(e)>> = ItemsOf(Append(Selected(plain, Q), e))
      BY <1>6, ItemsOfFacts
    <3> QED BY <1>5, <2>11, <3>1, Zenon
  <2> QED BY <1>7, <1>8, <1>10, <2>12, Zenon DEF e, c
<1> QED BY <1>9, <1>10

\* TerminatorInsnCodeGen, FunctionCallInsnCodeGen: a terminator ends its block.
LEMMA EmittedFacts ==
  ASSUME IInv, PackageInv, ProgramIsWellFormed, CodeInv,
         phase = "code", at = "visit", k < F.blocks.len, j = Len(B.insns)
  PROVE  \E y : /\ B.terminator = <<y>> /\ ~HitsNull(y)
                /\ ~(y.kind = "return" /\ ReturnVal(y) = Null)
                /\ Emitted(y) = WithL(With(Kept[n], Allocas(Kept[n]), Stored(Kept[n], ArgsAt(Kept[n])),
                                           <<1>>, BlocksPart(Kept[n], k + 1, 0)))
<1> DEFINE t == Kept[n]
           b == t.blocks[k + 1]
           e == b.insns[Len(b.insns)]
           q == BlocksPart(t, k, j)
           Whole == WithL(With(t, Allocas(t), Stored(t, ArgsAt(t)), <<1>>, BlocksPart(t, k + 1, 0)))
<1>1. /\ IsText(t) /\ FunctionRead(F, t) /\ llvmGlobals = GlobalsOf
      /\ IsSeq(b.insns) /\ BlockIsWellFormed(t, b) /\ WholeBlock(B, b) /\ IsSeq(B.insns)
      /\ \A i \in DOMAIN B.terminator : FunctionsOf(B.terminator[i]) = {F}
      /\ k + 1 \in DOMAIN t.blocks
  BY VisitFacts
<1>2. /\ L.allocas = Allocas(t) /\ Here = k + 1
      /\ \A c \in DOMAIN t.blocks : getBasicBlock(String(t.blocks[c].name)) = <<c>>
      /\ [q EXCEPT ![k + 1] = BlockCode(t, b)] = BlocksPart(t, k + 1, 0)
  BY VisitCode
<1>3. /\ j = Cardinality(PlainAt(b)) /\ e.kind \in Terminators /\ InsnIsWellFormed(t, e)
      /\ \E y : B.terminator = <<y>> /\ Means(y, e)
      /\ Len(b.insns) \in DOMAIN b.insns
  <2> HIDE DEF t, b
  <2> QED BY <1>1, InsnsOfBlock
<1>4. PICK y : B.terminator = <<y>> /\ Means(y, e)
  BY <1>3
<1>5. FunctionsOf(y) = {F}
  <2>1. 1 \in DOMAIN B.terminator /\ B.terminator[1] = y
    BY <1>4
  <2> QED BY <1>1, <2>1
<1>6. y.kind = e.kind
  <2> HIDE DEF e
  <2> QED BY <1>4, MeansFacts
<1>7. IsSeq(e.to) /\ IsSeq(t.locals)
  BY <1>1, <1>3 DEF IsText
<1>8. \A items : WithCode(k + 1, items, <<EndOf(t, e)>>)
                   = WithL(With(t, Allocas(t), Stored(t, ArgsAt(t)), <<1>>,
                                [q EXCEPT ![k + 1] = [id |-> String(b.name),
                                                      code |-> PlainItems(t, b, j) \o items,
                                                      ends |-> <<>> \o <<EndOf(t, e)>>]]))
  BY VisitStep
<1>9. /\ e.kind # "call" =>
           BlockCode(t, b) = [id |-> String(b.name), code |-> PlainItems(t, b, j) \o <<>>,
                              ends |-> <<>> \o <<EndOf(t, e)>>]
      /\ e.kind = "call" =>
           BlockCode(t, b) = [id |-> String(b.name), code |-> PlainItems(t, b, j) \o <<ItemOf(e)>>,
                              ends |-> <<>> \o <<EndOf(t, e)>>]
  <2> HIDE DEF t, b
  <2> QED BY <1>1, <1>3, BlockCodeFacts DEF e
<1>10. /\ e.kind # "call" => WithCode(k + 1, <<>>, <<EndOf(t, e)>>) = Whole
       /\ e.kind = "call" => WithCode(k + 1, <<ItemOf(e)>>, <<EndOf(t, e)>>) = Whole
  <2>1. e.kind # "call" => WithCode(k + 1, <<>>, <<EndOf(t, e)>>) = Whole
    BY <1>2, <1>8, <1>9, Zenon
  <2>2. ASSUME e.kind = "call" PROVE WithCode(k + 1, <<ItemOf(e)>>, <<EndOf(t, e)>>) = Whole
    <3> DEFINE new == [id |-> String(b.name), code |-> PlainItems(t, b, j) \o <<ItemOf(e)>>,
                       ends |-> <<>> \o <<EndOf(t, e)>>]
    <3>1. BlockCode(t, b) = new
      BY <1>9, <2>2
    <3>2. WithCode(k + 1, <<ItemOf(e)>>, <<EndOf(t, e)>>)
          = WithL(With(t, Allocas(t), Stored(t, ArgsAt(t)), <<1>>, [q EXCEPT ![k + 1] = new]))
      BY <1>8, Zenon
    <3> HIDE DEF new, q, b, e
    <3>3. [q EXCEPT ![k + 1] = new] = BlocksPart(t, k + 1, 0)
      BY <1>2, <3>1, Zenon
    <3> QED BY <3>2, <3>3, Zenon
  <2> QED BY <2>1, <2>2
<1> DEFINE ts == [d \in DOMAIN e.to |-> <<BlockOf(t, e.to[d])>>]
<1>11. e.kind \in {"goto", "cond_br", "call"} =>
         /\ Targets(y) = ts /\ Targets(y)[1] # Null
         /\ \A d \in DOMAIN y.to : getBasicBlock(y.to[d]) # Null
  <2> SUFFICES ASSUME e.kind \in {"goto", "cond_br", "call"}
               PROVE  /\ Targets(y) = ts /\ Targets(y)[1] # Null
                      /\ \A d \in DOMAIN y.to : getBasicBlock(y.to[d]) # Null
    OBVIOUS
  <2> HIDE DEF t, b, e
  <2> QED BY <1>2, <1>3, <1>4, <1>7, TargetsFacts
<1>12. e.kind \notin {"new_typedesc", "goto", "return"} =>
         /\ Item(y) = ItemOf(e) /\ ~UsesNull(y) /\ getLocalOrGlobalVal(y.lhs) = ValOf(e.lhs[1])
  <2> HIDE DEF t, b, e
  <2> QED BY <1>1, <1>2, <1>3, <1>4, <1>7, CodeFacts
<1>13. e.kind \in {"goto", "return", "cond_br", "call"}
  BY <1>3 DEF Terminators
<1> SUFFICES ~HitsNull(y) /\ ~(y.kind = "return" /\ ReturnVal(y) = Null) /\ Emitted(y) = Whole
  BY <1>4
<1> HIDE DEF Whole, ts
<1>14. CASE e.kind = "goto"
  <2>1. EndOf(t, e) = End("br", Null, ts)
    BY <1>14, Zenon DEF EndOf, ts
  <2> HIDE DEF t, b, e
  <2>2. ~HitsNull(y)
    BY <1>6, <1>11, <1>14 DEF HitsNull, AsksItsFunction, LoadsMainsNil, LoadsNil
  <2>3. Emitted(y) = WithCode(k + 1, <<>>, <<EndOf(t, e)>>)
    BY <1>2, <1>6, <1>11, <1>14, <2>1 DEF Emitted
  <2> QED BY <1>6, <1>10, <1>14, <2>2, <2>3
<1>15. CASE e.kind = "cond_br"
  <2>1. EndOf(t, e) = End("br", ValOf(e.lhs[1]), ts)
    BY <1>15 DEF EndOf, ts
  <2> HIDE DEF t, b, e
  <2>2. ~HitsNull(y)
    BY <1>6, <1>11, <1>12, <1>15 DEF HitsNull, AsksItsFunction, LoadsMainsNil, LoadsNil
  <2>3. Emitted(y) = WithCode(k + 1, <<>>, <<EndOf(t, e)>>)
    BY <1>2, <1>6, <1>11, <1>12, <1>15, <2>1 DEF Emitted
  <2> QED BY <1>6, <1>10, <1>15, <2>2, <2>3
<1>16. CASE e.kind = "call"
  <2>1. EndOf(t, e) = End("br", Null, ts)
    BY <1>16 DEF EndOf, ts
  <2>2. y.callee = String(e.value)
    <3> HIDE DEF e
    <3> QED BY <1>4, <1>16, MeansFacts
  <2>3. FunctionsNamed(y.callee) # {}
    <3>1. \E r \in DOMAIN Kept : String(Kept[r].name) = y.callee
      BY <1>3, <1>16, <2>2 DEF InsnIsWellFormed
    <3>2. llvmFunctions = CodeUpTo(n, at, k, j)
      BY BodyFacts DEF InBody
    <3>3. /\ DOMAIN llvmFunctions = DOMAIN Kept
          /\ \A r \in DOMAIN Kept : llvmFunctions[r].name = String(Kept[r].name)
      BY <3>2, NamesOfCode
    <3> QED BY <3>1, <3>3, Zenon DEF FunctionsNamed
  <2> HIDE DEF t, b, e
  <2>4. ~HitsNull(y)
    BY <1>6, <1>11, <1>12, <1>16, <2>3 DEF HitsNull, AsksItsFunction, LoadsMainsNil, LoadsNil
  <2>5. Emitted(y) = WithCode(k + 1, <<ItemOf(e)>>, <<EndOf(t, e)>>)
    BY <1>2, <1>6, <1>11, <1>12, <1>16, <2>1 DEF Emitted
  <2> QED BY <1>6, <1>10, <1>16, <2>4, <2>5
<1>17. CASE e.kind = "return"
  <2> DEFINE val == IF String(t.name) = "main" THEN <<"void">>
                    ELSE <<"local", String(t.returnVar[1].name)>>
  <2>1. EndOf(t, e) = End("ret", val, <<>>)
    BY <1>17 DEF EndOf
  <2>2. F.name = String(t.name) /\ F.returnVar = Returned(t)
    BY <1>1 DEF FunctionRead
  <2>3. ReturnVal(y) = val
    <3>1. ReturnVal(y) = IF isMainFunction(F) THEN <<"void">>
                         ELSE getLocalVal(F.returnVar[1].name)
      <4>1. getFunctionRef(y) = F
        BY <1>5 DEF getFunctionRef
      <4> QED BY <4>1, Zenon DEF ReturnVal
    <3>2. CASE String(t.name) = "main"
      BY <2>2, <3>1, <3>2 DEF isMainFunction
    <3>3. CASE String(t.name) # "main"
      <4>1. t.returnVar # <<>>
        <5>1. n \in DOMAIN Kept
          BY BodyFacts DEF InBody
        <5> QED BY <3>3, <5>1, WellFormedFacts
      <4>2. F.returnVar = <<Named(t.returnVar[1])>>
        BY <2>2, <4>1 DEF Returned
      <4>3. F.returnVar # <<>> /\ F.returnVar[1].name = String(t.returnVar[1].name)
        BY <4>2 DEF Named
      <4>4. \E v \in DOMAIN t.locals : String(t.locals[v].name) = String(t.returnVar[1].name)
        BY <1>3, <1>17, <3>3 DEF InsnIsWellFormed
      <4>5. /\ DOMAIN L.allocas = DOMAIN t.locals
            /\ \A v \in DOMAIN t.locals : L.allocas[v].name = String(t.locals[v].name)
        BY <1>2 DEF Allocas
      <4>6. getLocalVal(String(t.returnVar[1].name)) = <<"local", String(t.returnVar[1].name)>>
        BY <4>4, <4>5, Zenon DEF getLocalVal
      <4> QED BY <2>2, <3>1, <3>3, <4>3, <4>6, Zenon DEF isMainFunction
    <3> QED BY <3>2, <3>3
  <2>4. val # Null
    BY DEF Null
  <2> HIDE DEF t, b, e, val
  <2>5. ~HitsNull(y)
    BY <1>5, <1>6, <1>17 DEF HitsNull, AsksItsFunction, LoadsMainsNil, LoadsNil
  <2>6. Emitted(y) = WithCode(k + 1, <<>>, <<EndOf(t, e)>>)
    BY <1>2, <1>6, <1>17, <2>1, <2>3 DEF Emitted
  <2> QED BY <1>6, <1>10, <1>17, <2>3, <2>4, <2>5, <2>6
<1> QED BY <1>13, <1>14, <1>15, <1>16, <1>17

LEMMA CodeEmitTerminator ==
  IInv /\ PackageInv /\ ProgramIsWellFormed /\ CodeInv /\ EmitTerminator => CodeInv'
<1> SUFFICES ASSUME IInv, PackageInv, ProgramIsWellFormed, CodeInv, EmitTerminator PROVE CodeInv'
  OBVIOUS
<1> DEFINE t == Kept[n]
           Whole == WithL(With(t, Allocas(t), Stored(t, ArgsAt(t)), <<1>>, BlocksPart(t, k + 1, 0)))
<1>1. phase = "code" /\ at = "visit" /\ at \in InBody /\ k < F.blocks.len /\ j = Len(B.insns)
  BY DEF EmitTerminator, InBody
<1>2. /\ IsText(t) /\ k \in Nat /\ k + 1 \in 0 .. Len(t.blocks)
      /\ DOMAIN t.blocks = 1 .. Len(t.blocks)
  BY <1>1, VisitFacts
<1>3. PICK y : /\ B.terminator = <<y>> /\ ~HitsNull(y)
               /\ ~(y.kind = "return" /\ ReturnVal(y) = Null)
               /\ Emitted(y) = Whole
  BY <1>1, EmittedFacts
<1>4. B.terminator # <<>> /\ B.terminator[1] = y
  BY <1>3
<1> HIDE DEF Whole
<1>5. /\ llvmFunctions' = Whole /\ k' = k + 1 /\ j' = 0 /\ phase' = "code"
      /\ UNCHANGED <<at, n, llvmGlobals, current, file, pool>>
  BY <1>1, <1>3, <1>4 DEF EmitTerminator
<1>6. PartAt(t, at', k', j')
        = With(t, Allocas(t), Stored(t, ArgsAt(t)), <<1>>, BlocksPart(t, k + 1, 0))
  <2>1. at' = "visit"
    BY <1>1, <1>5
  <2> QED BY <1>5, <2>1 DEF PartAt
<1>7. llvmFunctions' = WithL(PartAt(t, at', k', j'))
  BY <1>5, <1>6, Zenon DEF Whole
<1>8. ASSUME k' < Len(t.blocks)
      PROVE  j' <= Cardinality(PlainAt(t.blocks[k' + 1]))
  <2>1. Len(t.blocks) \in Nat
    BY <1>2, TextFacts
  <2>2. k' + 1 \in DOMAIN t.blocks
    BY <1>2, <1>5, <1>8, <2>1
  <2>3. IsSeq(t.blocks[k' + 1].insns)
    BY <1>2, <2>2 DEF IsText
  <2>4. Cardinality(PlainAt(t.blocks[k' + 1])) \in Nat
    BY <2>3, PlacesOfInsns, PlacesAreFinite
  <2> QED BY <1>5, <2>4
<1>9. at' \in InBody /\ at' # "allocas" /\ k' \in 0 .. Len(t.blocks) /\ j' \in Nat
  BY <1>1, <1>2, <1>5
<1> QED BY <1>1, <1>5, <1>7, <1>8, <1>9, BodyStep

LEMMA CodeStutter == CodeInv /\ UNCHANGED vars => CodeInv'
<1> SUFFICES ASSUME CodeInv, UNCHANGED vars PROVE CodeInv'
  OBVIOUS
<1>1. /\ file' = file /\ pool' = pool /\ phase' = phase /\ at' = at
      /\ n' = n /\ k' = k /\ j' = j /\ current' = current
      /\ llvmGlobals' = llvmGlobals /\ llvmFunctions' = llvmFunctions
  BY DEF vars, poolVars, readerVars, counters
<1>2. /\ Module' = Module /\ Kept' = Kept /\ GlobalsOf' = GlobalsOf
      /\ Declarations' = Declarations
      /\ \A u, place, p, m : CodeUpTo(u, place, p, m)' = CodeUpTo(u, place, p, m)
      /\ \A t : Translated(t)' = Translated(t)
  BY <1>1, SameCode
<1>3. CountersFit => CountersFit'
  BY <1>1, <1>2 DEF CountersFit, InBody
<1>4. CodeFits => CodeFits'
  <2>1. CodeUpTo(n, at, k, j)' = CodeUpTo(n, at, k, j)
    BY <1>1, <1>2
  <2> QED BY <1>1, <1>2, <2>1 DEF CodeFits, InBody
<1>5. CodeIsTheProgram => CodeIsTheProgram'
  BY <1>1, <1>2 DEF CodeIsTheProgram
<1>6. NothingIsMissing => NothingIsMissing'
  BY <1>1, SameCode, Zenon DEF NothingIsMissing
<1> QED BY <1>1, <1>3, <1>4, <1>5, <1>6 DEF CodeInv

LEMMA InitCodeInv == Init => CodeInv
  BY DEF Init, InitPool, InitCode, CodeInv, NothingIsMissing, CodeIsTheProgram

LEMMA StepCode ==
  IInv /\ PackageInv /\ ProgramIsWellFormed /\ CodeInv /\ [Next]_vars => CodeInv'
<1> SUFFICES ASSUME IInv, PackageInv, ProgramIsWellFormed, CodeInv, [Next]_vars PROVE CodeInv'
  OBVIOUS
<1>1. CASE PoolNext /\ UNCHANGED <<at, counters, readerVars, codeVars>>
  BY <1>1, CodePool
<1>2. CASE ReaderNext /\ UNCHANGED codeVars
  BY <1>2, CodeReader
<1>3. CASE GenNext
  BY <1>3, CodeDefineGlobal, CodeEndGlobals, CodeDeclareFunction, CodeEndDeclarations,
     CodeStartBody, CodeEndCode, CodeAllocateLocal, CodeEndAllocas, CodeCreateBlock,
     CodeBranchToFirst, CodeEndBody, CodeEmitInsn, CodeEmitTerminator, Zenon DEF GenNext
<1>4. CASE UNCHANGED vars
  BY <1>4, CodeStutter
<1> QED BY <1>1, <1>2, <1>3, <1>4 DEF Next

\* PackageCodeGen, FunctionCodeGen, BasicBlockCodeGen: of a well-formed file the
\* LLVM module is, after every step, what the file says of the functions that
\* are done, of the blocks of the current one and of the items of the current
\* block, and it declares the rest; the generator gives up nowhere else than at
\* what it has no code for.
THEOREM CodeIsWhatWasRead == Spec /\ []ProgramIsWellFormed => []CodeInv
<1> QED BY InitCodeInv, StepCode, CompilerInvariance, PackageIsTheModule, PTL DEF Spec

\* createTempVal, getBasicBlock, Module::getFunction, getFunctionRef, accept: of
\* a well-formed file, whatever the code generator looks up is there, and if all
\* that is kept can be translated (no type test, no type without code), it
\* never runs into llvm_unreachable.
THEOREM NothingMissing == Spec /\ []ProgramIsWellFormed => []NothingIsMissing
<1>1. CodeInv => NothingIsMissing
  BY DEF CodeInv
<1> QED BY <1>1, CodeIsWhatWasRead, PTL

\* CodeGenerator::generateLLVMIR: where it ends with a module, the LLVM module
\* of a well-formed file is the file's module, function by function, block by
\* block, item by item, but for the nil that main would return.
THEOREM CodeRight == Spec /\ []ProgramIsWellFormed => []CodeIsTheProgram
<1>1. CodeInv => CodeIsTheProgram
  BY DEF CodeInv
<1> QED BY <1>1, CodeIsWhatWasRead, PTL
=============================================================================
