--------------------------- MODULE DoxyDocsProofs ---------------------------
(* Proofs about DoxyDocs, for every set of classes, every index, whatever  *)
(* number of compounds and memberdefs it has, and every state its files    *)
(* are in.                                                                 *)
EXTENDS DoxyDocs, FiniteSetTheorems, TLAPS

-----------------------------------------------------------------------------
(* Sets of positions, and the sequences made of them.                      *)

(* A set of positions has a first: that with the smallest of the sets      *)
(* 1 .. k, ordered by inclusion.                                           *)
LEMMA First ==
  ASSUME NEW T, T \subseteq Nat, T # {}
  PROVE  \E k \in T : \A j \in T : k <= j
<1> DEFINE R == StrictSubsetOrdering(Nat)
           Uptos == {1 .. k : k \in T}
<1>1. IsWellFoundedOn(R, FiniteSubsetsOf(Nat))
  BY FS_StrictSubsetOrderingWellFounded
<1>2. Uptos \subseteq FiniteSubsetsOf(Nat) /\ Uptos # {}
  <2>1. \A k \in T : IsFiniteSet(1 .. k)
    BY FS_Interval
  <2>2. \A k \in T : 1 .. k \in SUBSET Nat
    OBVIOUS
  <2> QED BY <2>1, <2>2, Zenon DEF FiniteSubsetsOf
<1>3. \E x \in Uptos : \A y \in Uptos : <<y, x>> \notin R
  <2> HIDE DEF R, Uptos
  <2> QED BY <1>1, <1>2, WFMin
<1>4. PICK k \in T : \A j \in T : <<1 .. j, 1 .. k>> \notin R
  BY <1>3
<1>5. ASSUME NEW j \in T, j < k PROVE FALSE
  <2>1. k \in 1 .. k /\ k \notin 1 .. j /\ 1 .. j \subseteq 1 .. k
    BY <1>5
  <2>2. <<1 .. j, 1 .. k>> \in R
    BY <2>1 DEF StrictSubsetOrdering
  <2> QED BY <2>2, <1>4
<1> QED BY <1>5

(* SetToSeq takes each element of a finite set once.                       *)
LEMMA SetToSeqIs ==
  ASSUME NEW S, IsFiniteSet(S)
  PROVE  /\ SetToSeq(S) \in Seq(S)
         /\ \A p, q \in DOMAIN SetToSeq(S) :
              SetToSeq(S)[p] = SetToSeq(S)[q] => p = q
         /\ {SetToSeq(S)[p] : p \in DOMAIN SetToSeq(S)} = S
<1> DEFINE n == Cardinality(S)
           s == SetToSeq(S)
<1>1. n \in Nat /\ \E f \in [1 .. n -> S] : IsInjective(f)
  BY FS_CardinalityType DEF ExistsBijection, Bijection, Injection
<1>2. s \in [1 .. n -> S] /\ IsInjective(s)
  BY <1>1, Zenon DEF SetToSeq
<1>3. IsFiniteSet(1 .. n) /\ Cardinality(1 .. n) = n
  BY <1>1, FS_Interval
<1>4. s \in Injection(1 .. n, S)
  BY <1>2 DEF Injection
<1>5. s \in Surjection(1 .. n, S)
  <2> HIDE DEF s
  <2> QED BY <1>3, <1>4, FS_Injection
<1> HIDE DEF s, n
<1>6. s \in Seq(S) /\ DOMAIN s = 1 .. n
  BY <1>1, <1>2
<1>7. {s[p] : p \in DOMAIN s} = S
  BY <1>5, <1>6 DEF Surjection
<1> QED BY <1>2, <1>6, <1>7 DEF IsInjective, s

(* A sequence over a set is one over any larger set.                       *)
LEMMA Widens ==
  ASSUME NEW S, NEW T, S \subseteq T, NEW s \in Seq(S)
  PROVE  s \in Seq(T)
<1>1. s \in [1 .. Len(s) -> S] /\ Len(s) \in Nat
  OBVIOUS
<1>2. s \in [1 .. Len(s) -> T]
  BY <1>1
<1> QED BY <1>1, <1>2

(* Two sequences without repetitions that share nothing.                   *)
Once(s) == \A p, q \in DOMAIN s : s[p] = s[q] => p = q
Elements(s) == {s[p] : p \in DOMAIN s}

LEMMA Joined ==
  ASSUME NEW E, NEW s \in Seq(E), NEW t \in Seq(E)
  PROVE  /\ s \o t \in Seq(E)
         /\ Elements(s \o t) = Elements(s) \cup Elements(t)
         /\ Once(s) /\ Once(t) /\ Elements(s) \cap Elements(t) = {} => Once(s \o t)
<1>1. /\ s \o t \in Seq(E) /\ DOMAIN (s \o t) = 1 .. Len(s) + Len(t)
      /\ DOMAIN s = 1 .. Len(s) /\ DOMAIN t = 1 .. Len(t)
      /\ Len(s) \in Nat /\ Len(t) \in Nat
  OBVIOUS
<1>2. \A p \in 1 .. Len(s) : (s \o t)[p] = s[p]
  OBVIOUS
<1>3. \A p \in 1 .. Len(t) : (s \o t)[p + Len(s)] = t[p]
  OBVIOUS
<1>4. \A p \in DOMAIN (s \o t) :
        \/ p \in DOMAIN s /\ (s \o t)[p] = s[p]
        \/ p - Len(s) \in DOMAIN t /\ (s \o t)[p] = t[p - Len(s)]
  BY <1>1, <1>2, <1>3
<1>5. Elements(s \o t) = Elements(s) \cup Elements(t)
  <2>1. Elements(s \o t) \subseteq Elements(s) \cup Elements(t)
    BY <1>4 DEF Elements
  <2>2. Elements(s) \subseteq Elements(s \o t)
    BY <1>1, <1>2 DEF Elements
  <2>3. ASSUME NEW p \in DOMAIN t PROVE t[p] \in Elements(s \o t)
    <3>1. p + Len(s) \in DOMAIN (s \o t) /\ (s \o t)[p + Len(s)] = t[p]
      BY <1>1, <1>3
    <3> QED BY <3>1 DEF Elements
  <2> QED BY <2>1, <2>2, <2>3 DEF Elements
<1>6. ASSUME Once(s), Once(t), Elements(s) \cap Elements(t) = {}
      PROVE  Once(s \o t)
  <2> SUFFICES ASSUME NEW p \in DOMAIN (s \o t), NEW q \in DOMAIN (s \o t),
                      (s \o t)[p] = (s \o t)[q]
               PROVE  p = q
    BY DEF Once
  <2>1. \A a \in DOMAIN s, b \in DOMAIN t : s[a] # t[b]
    BY <1>6 DEF Elements
  <2>2. p \in Int /\ q \in Int
    BY <1>1
  <2>3. CASE p \in DOMAIN s /\ (s \o t)[p] = s[p]
    BY <1>4, <1>6, <2>1, <2>3 DEF Once
  <2>4. CASE p - Len(s) \in DOMAIN t /\ (s \o t)[p] = t[p - Len(s)]
    <3>1. q - Len(s) \in DOMAIN t /\ (s \o t)[q] = t[q - Len(s)]
      BY <1>4, <2>1, <2>4
    <3>2. p - Len(s) = q - Len(s)
      BY <1>6, <2>4, <3>1 DEF Once
    <3> QED BY ONLY <1>1, <2>2, <3>2
  <2> QED BY <1>4, <2>3, <2>4
<1> QED BY <1>1, <1>5, <1>6

-----------------------------------------------------------------------------
(* The index.                                                              *)

IndexOK ==
  /\ index \in Seq(Compounds)
  /\ \A i, j \in DOMAIN index :
       index[i].kind = "class" /\ index[j].kind = "class"
         /\ index[i].name = index[j].name => i = j

(* Only a file that is well formed has memberdefs, and only one that is    *)
(* asked for them.                                                         *)
LEMMA CompoundIs ==
  ASSUME NEW f \in Compounds
  PROVE  /\ DOMAIN f.mems = 1 .. Len(f.mems) /\ Len(f.mems) \in Nat
         /\ f.xml # "good" => DOMAIN f.mems = {}
         /\ f.kind \notin {"class", "header"} => DOMAIN f.mems = {}
<1>1. ASSUME NEW kind, NEW name, NEW S, f \in Files(kind, name, S)
      PROVE  /\ DOMAIN f.mems = 1 .. Len(f.mems) /\ Len(f.mems) \in Nat
             /\ f.xml # "good" => DOMAIN f.mems = {}
             /\ f.kind = kind
  <2>1. CASE f \in [kind : {kind}, name : {name}, xml : {"good"}, mems : Upto(MaxMems, S)]
    <3>1. PICK m \in 0 .. MaxMems : f.mems \in [1 .. m -> S]
      BY <2>1 DEF Upto
    <3> QED BY <2>1, <3>1
  <2>2. CASE f \in [kind : {kind}, name : {name}, xml : {"bad", "missing"}, mems : {<<>>}]
    BY <2>2
  <2> QED BY <1>1, <2>1, <2>2 DEF Files
<1>2. CASE f \in Headers
  BY <1>1, <1>2 DEF Headers
<1>3. CASE f \in ClassFiles
  BY <1>1, <1>3 DEF ClassFiles
<1>4. CASE f \in Others
  BY <1>4 DEF Others
<1> QED BY <1>2, <1>3, <1>4 DEF Compounds

(* process_memberdefs keeps as many memberdefs as there are names.         *)
LEMMA MembersAre ==
  ASSUME IndexOK, NEW i \in DOMAIN index
  PROVE  /\ IsFiniteSet(Members(i))
         /\ \A m \in Members(i) : m \in (DOMAIN index) \X Nat /\ m[1] = i /\ m[2] > 0
         /\ \A m, k \in Members(i) : Def(m).name = Def(k).name => m = k
<1> DEFINE mems == index[i].mems
<1>1. DOMAIN mems = 1 .. Len(mems) /\ Len(mems) \in Nat
  BY CompoundIs DEF IndexOK
<1>2. Members(i) \subseteq {i} \X (1 .. Len(mems))
  BY <1>1 DEF Members
<1>3. IsFiniteSet({i} \X (1 .. Len(mems)))
  <2>1. IsFiniteSet({i})
    BY FS_Singleton, Zenon
  <2>2. IsFiniteSet(1 .. Len(mems))
    BY <1>1, FS_Interval
  <2> QED BY <2>1, <2>2, FS_Product
<1>4. IsFiniteSet(Members(i))
  BY <1>2, <1>3, FS_Subset
<1>5. ASSUME NEW m \in Members(i), NEW k \in Members(i), Def(m).name = Def(k).name
      PROVE  m = k
  <2>1. PICK a \in DOMAIN mems : m = <<i, a>> /\ \A b \in 1 .. a - 1 : mems[b].name # mems[a].name
    BY DEF Members
  <2>2. PICK b \in DOMAIN mems : k = <<i, b>> /\ \A c \in 1 .. b - 1 : mems[c].name # mems[b].name
    BY DEF Members
  <2>3. mems[a].name = mems[b].name
    BY <1>5, <2>1, <2>2 DEF Def
  <2> QED BY <1>1, <2>1, <2>2, <2>3
<1>6. ASSUME NEW m \in Members(i)
      PROVE  m \in (DOMAIN index) \X Nat /\ m[1] = i /\ m[2] > 0
  <2>1. PICK a \in DOMAIN mems : m = <<i, a>>
    BY DEF Members
  <2> QED BY <1>1, <2>1
<1> QED BY <1>4, <1>5, <1>6

(* No function's name is lost with it, unless a memberdef of another kind  *)
(* has it first.                                                           *)
LEMMA NameIsKept ==
  ASSUME IndexOK, NEW i \in DOMAIN index, NEW j \in DOMAIN index[i].mems,
         HasEntry(<<i, j>>), ~IsShadowed(i, j)
  PROVE  \E m \in Members(i) : HasEntry(m) /\ Def(m).name = index[i].mems[j].name
<1> DEFINE mems == index[i].mems
           T == {k \in DOMAIN mems : mems[k].name = mems[j].name}
<1>1. DOMAIN mems = 1 .. Len(mems) /\ Len(mems) \in Nat
  BY CompoundIs DEF IndexOK
<1>2. T \subseteq Nat /\ T # {}
  BY <1>1
<1>3. PICK k \in T : \A l \in T : k <= l
  <2> HIDE DEF T
  <2> QED BY <1>2, First
<1>4. <<i, k>> \in Members(i)
  BY <1>1, <1>3 DEF Members
<1>5. Def(<<i, k>>) = mems[k] /\ Def(<<i, j>>) = mems[j] /\ mems[k].name = mems[j].name
  BY <1>3 DEF Def
<1>6. k \in 1 .. j - 1 \/ k = j
  BY <1>1, <1>3
<1>7. mems[k].kind = "function"
  BY <1>5, <1>6 DEF HasEntry, IsShadowed
<1>8. HasEntry(<<i, k>>)
  BY <1>5, <1>7 DEF HasEntry
<1> QED BY <1>4, <1>5, <1>8

-----------------------------------------------------------------------------
(* The inductive invariant.                                                *)

(* What a class has docstrings for, and what a block has.                  *)
OfClass(i) ==
  (IF IsSpokenOf(i) THEN {<<i, 0>>} ELSE {}) \cup {m \in Members(i) : HasEntry(m)}
OfBlock(i) == OfClass(i) \cup Named(Make(index[i].name))

(* The classes that are no blocks and can be parsed.                       *)
Left == {i \in InCategory("class") \ Blocks : Good(i)}

(* What the three loops have made docstrings for before they come to n.    *)
BlocksTo(n) == UNION {OfBlock(i) : i \in {j \in Blocks : j < n}}
FunctionsTo(n) ==
  {m \in Functions : m[1] < n /\ HasEntry(m) /\ Def(m).name \notin MakeFuncs}
ClassesTo(n) == UNION {OfClass(i) : i \in {j \in Left : j < n}}

End == Len(index) + 1
Looping == {"index", "blocks", "functions", "classes"}

Types ==
  /\ IndexOK
  /\ phase \in Looping \cup {"writes", "written", "stopped"}
  /\ next \in 1 .. Len(index) \/ (index = <<>> /\ next = 1)

(* What has been taken in can be read, as far as the first loop sees.      *)
FoundTo(n) ==
  /\ found = {i \in 1 .. n - 1 : index[i].kind # "source"}
  /\ \A i \in 1 .. n - 1 : ~Unreadable(i)

FoundOK ==
  /\ found \subseteq DOMAIN index
  /\ phase = "index" => FoundTo(next)
  /\ phase \notin {"index", "stopped"} => FoundTo(End)

(* The docstrings are those of the loops, as far as they are, each once.   *)
DocsOK ==
  /\ docs \in Seq((DOMAIN index) \X Nat) /\ Once(docs)
  /\ \A m \in Elements(docs) : m[2] > 0 => m \in Members(m[1])
  /\ phase = "index" => docs = <<>>
  /\ phase = "blocks" => Elements(docs) = BlocksTo(next)
  /\ phase = "functions" => Elements(docs) = BlocksTo(End) \cup FunctionsTo(next)
  /\ phase = "classes" =>
       Elements(docs) = BlocksTo(End) \cup FunctionsTo(End) \cup ClassesTo(next)
  /\ phase \in {"writes", "written"} =>
       Elements(docs) = BlocksTo(End) \cup FunctionsTo(End) \cup ClassesTo(End)

IInv == Types /\ FoundOK /\ DocsOK /\ StopsOnlyFor

-----------------------------------------------------------------------------
(* What each loop adds is new.                                             *)

LEMMA OfClassIs ==
  ASSUME IndexOK, NEW i \in DOMAIN index
  PROVE  /\ \A m \in OfClass(i) : /\ m \in (DOMAIN index) \X Nat /\ m[1] = i
                                  /\ m[2] > 0 => m \in Members(i)
         /\ ClassEntry(i) \in Seq((DOMAIN index) \X Nat)
         /\ Once(ClassEntry(i)) /\ Elements(ClassEntry(i)) = OfClass(i)
<1> DEFINE E == (DOMAIN index) \X Nat
           F == {m \in Members(i) : HasEntry(m)}
           s == IF IsSpokenOf(i) THEN <<<<i, 0>>>> ELSE <<>>
           C == IF IsSpokenOf(i) THEN {<<i, 0>>} ELSE {}
           t == SetToSeq(F)
<1>1. \A m \in Members(i) : m \in E /\ m[1] = i /\ m[2] > 0
  BY MembersAre
<1>2. IsFiniteSet(F)
  BY MembersAre, FS_Subset
<1>3. t \in Seq(F) /\ Once(t) /\ Elements(t) = F
  BY <1>2, SetToSeqIs DEF Once, Elements
<1>4. s \in Seq(E) /\ Once(s) /\ Elements(s) = C
  <2>1. CASE IsSpokenOf(i)
    <3>1. DOMAIN s = {1} /\ s[1] = <<i, 0>> /\ Len(s) = 1 /\ C = {<<i, 0>>}
      BY <2>1
    <3>2. s \in Seq(E)
      <4>1. <<i, 0>> \in E /\ s = <<<<i, 0>>>>
        BY <2>1
      <4> HIDE DEF E
      <4> QED BY <4>1
    <3> QED BY ONLY <3>1, <3>2 DEF Once, Elements
  <2>2. CASE ~IsSpokenOf(i)
    <3>1. s = <<>> /\ C = {}
      BY <2>2
    <3> HIDE DEF s, C, E
    <3> QED BY <3>1 DEF Once, Elements
  <2> QED BY <2>1, <2>2
<1>5. t \in Seq(E)
  <2> HIDE DEF t
  <2>1. F \subseteq E
    BY <1>1
  <2> HIDE DEF E, F
  <2> QED BY <1>3, <2>1, Widens
<1>6. Elements(s) \cap Elements(t) = {}
  <2>1. \A m \in F : m # <<i, 0>>
    BY <1>1
  <2>2. C \subseteq {<<i, 0>>}
    OBVIOUS
  <2> HIDE DEF F, s, t, C
  <2> QED BY <1>3, <1>4, <2>1, <2>2
<1>7. ClassEntry(i) = s \o t
  BY DEF ClassEntry
<1>8. ASSUME NEW m \in OfClass(i)
      PROVE  m \in E /\ m[1] = i /\ (m[2] > 0 => m \in Members(i))
  <2>1. CASE m = <<i, 0>>
    <3>1. <<i, 0>> \in E /\ <<i, 0>>[1] = i /\ ~(<<i, 0>>[2] > 0)
      OBVIOUS
    <3> QED BY <2>1, <3>1
  <2>2. CASE m \in Members(i)
    BY <1>1, <2>2
  <2> QED BY <2>1, <2>2 DEF OfClass
<1> HIDE DEF E, s, t
<1>9. s \o t \in Seq(E) /\ Elements(s \o t) = Elements(s) \cup Elements(t) /\ Once(s \o t)
  BY <1>3, <1>4, <1>5, <1>6, Joined
<1>10. OfClass(i) = C \cup F
  BY DEF OfClass
<1> QED BY <1>3, <1>4, <1>7, <1>8, <1>9, <1>10 DEF E

LEMMA FunctionsAre ==
  ASSUME IndexOK, found \subseteq DOMAIN index, NEW m \in Functions
  PROVE  /\ m \in (DOMAIN index) \X Nat /\ m[2] > 0
         /\ m[1] \in found /\ index[m[1]].kind = "header"
         /\ m \in Members(m[1]) /\ Def(m).kind = "function"
<1>1. (\E i \in InCategory("header") : m \in Members(i)) /\ Def(m).kind = "function"
  BY DEF Functions
<1>0. PICK i \in InCategory("header") : m \in Members(i)
  BY <1>1
<1>2. i \in DOMAIN index /\ index[i].kind = "header" /\ i \in found
  BY DEF InCategory
<1>3. m \in (DOMAIN index) \X Nat /\ m[1] = i /\ m[2] > 0
  BY <1>0, <1>2, MembersAre
<1> QED BY <1>0, <1>1, <1>2, <1>3

LEMMA ClassesAre ==
  ASSUME found \subseteq DOMAIN index
  PROVE  /\ \A i \in Blocks : i \in DOMAIN index /\ index[i].kind = "class" /\ Good(i)
         /\ \A i \in Left : i \in DOMAIN index /\ index[i].kind = "class" /\ i \notin Blocks
BY DEF Blocks, Left, InCategory, IsBlock

(* The functions of a header that the second loop finds.                   *)
LEMMA FunctionsOf ==
  ASSUME IndexOK, found \subseteq DOMAIN index, NEW i \in DOMAIN index
  PROVE  LET S == {m \in Functions :
                   m[1] = i /\ HasEntry(m) /\ Def(m).name \notin MakeFuncs}
         IN /\ SetToSeq(S) \in Seq((DOMAIN index) \X Nat)
            /\ Once(SetToSeq(S)) /\ Elements(SetToSeq(S)) = S
<1> DEFINE S == {m \in Functions :
                   m[1] = i /\ HasEntry(m) /\ Def(m).name \notin MakeFuncs}
           t == SetToSeq(S)
<1>1. S \subseteq Members(i) /\ S \subseteq (DOMAIN index) \X Nat
  BY FunctionsAre
<1>2. IsFiniteSet(S)
  BY <1>1, MembersAre, FS_Subset
<1>3. t \in Seq(S) /\ Once(t) /\ Elements(t) = S
  BY <1>2, SetToSeqIs DEF Once, Elements
<1>4. t \in Seq((DOMAIN index) \X Nat)
  <2> HIDE DEF t, S
  <2> QED BY <1>1, <1>3, Widens
<1> QED BY <1>3, <1>4

(* The make function of a block that has been found to be complete.        *)
LEMMA MakeFunctionIs ==
  ASSUME IndexOK, found \subseteq DOMAIN index, NEW i \in Blocks, Complete(i)
  PROVE  LET S == Named(Make(index[i].name))
         IN /\ SetToSeq(S) \in Seq((DOMAIN index) \X Nat)
            /\ Once(SetToSeq(S)) /\ Elements(SetToSeq(S)) = S
<1> DEFINE S == Named(Make(index[i].name))
           t == SetToSeq(S)
<1>1. PICK m \in Functions : S = {m}
  BY DEF Complete
<1>2. IsFiniteSet(S)
  BY <1>1, FS_Singleton, Zenon
<1>3. t \in Seq(S) /\ Once(t) /\ Elements(t) = S
  BY <1>2, SetToSeqIs DEF Once, Elements
<1>4. t \in Seq((DOMAIN index) \X Nat)
  <2>1. S \subseteq (DOMAIN index) \X Nat
    BY <1>1, FunctionsAre
  <2> HIDE DEF t, S
  <2> QED BY <1>3, <2>1, Widens
<1> QED BY <1>3, <1>4

(* No two blocks have a memberdef or a make function in common, and what   *)
(* the later loops add is none of a block's.                               *)
LEMMA BlocksDiffer ==
  ASSUME IndexOK, found \subseteq DOMAIN index, NEW i \in Blocks
  PROVE  /\ OfClass(i) \cap Named(Make(index[i].name)) = {}
         /\ \A j \in Blocks : j # i => OfBlock(i) \cap OfBlock(j) = {}
         /\ \A m \in Functions : Def(m).name \notin MakeFuncs => m \notin OfBlock(i)
         /\ \A j \in Left : OfClass(j) \cap OfBlock(i) = {}
<1>1. \A j \in DOMAIN index : \A m \in OfClass(j) : m[1] = j
  BY OfClassIs
<1>2. \A m \in Functions : index[m[1]].kind = "header"
  BY FunctionsAre
<1>3. /\ \A j \in Blocks : j \in DOMAIN index /\ index[j].kind = "class"
      /\ \A j \in Left : j \in DOMAIN index /\ index[j].kind = "class" /\ j \notin Blocks
  BY ClassesAre
<1>5. ASSUME NEW j \in Blocks, NEW m \in OfBlock(j)
      PROVE  m[1] = j \/ (m \in Functions /\ Def(m).name = Make(index[j].name))
  <2>1. CASE m \in OfClass(j)
    BY <1>1, <1>3, <2>1
  <2>2. CASE m \in Named(Make(index[j].name))
    BY <2>2 DEF Named
  <2> QED BY <2>1, <2>2 DEF OfBlock
<1>4. \A m \in OfBlock(i) :
        m[1] = i \/ (m \in Functions /\ Def(m).name = Make(index[i].name))
  BY <1>5
<1>6. OfClass(i) \cap Named(Make(index[i].name)) = {}
  BY <1>1, <1>2, <1>3 DEF Named
<1>7. ASSUME NEW j \in Blocks, j # i PROVE OfBlock(i) \cap OfBlock(j) = {}
  <2>1. index[i].name # index[j].name
    BY <1>3, <1>7 DEF IndexOK
  <2>2. Make(index[i].name) # Make(index[j].name)
    BY <2>1 DEF Make
  <2> QED BY <1>2, <1>3, <1>4, <1>5, <1>7, <2>2
<1>8. \A m \in Functions : Def(m).name \notin MakeFuncs => m \notin OfBlock(i)
  BY <1>2, <1>3, <1>4 DEF MakeFuncs
<1>9. \A j \in Left : OfClass(j) \cap OfBlock(i) = {}
  BY <1>1, <1>2, <1>3, <1>4
<1> QED BY <1>6, <1>7, <1>8, <1>9

(* Nor is a class's anything of a function's or of another class's.        *)
LEMMA ClassesDiffer ==
  ASSUME IndexOK, found \subseteq DOMAIN index, NEW i \in Left
  PROVE  /\ OfClass(i) \cap Functions = {}
         /\ \A j \in Left : j # i => OfClass(i) \cap OfClass(j) = {}
<1>1. \A j \in Left : j \in DOMAIN index /\ index[j].kind = "class"
  BY ClassesAre
<1>2. \A j \in Left : \A m \in OfClass(j) : m[1] = j
  BY <1>1, OfClassIs
<1>3. \A m \in Functions : index[m[1]].kind = "header"
  BY FunctionsAre
<1> QED BY <1>1, <1>2, <1>3

-----------------------------------------------------------------------------
(* The steps.                                                              *)

(* One loop follows the other.                                             *)
LEMMA GoesOn ==
  ASSUME NEW last \in BOOLEAN, phase \in Looping, Goes(last)
  PROVE  /\ ~last => phase' = phase /\ next' = next + 1
         /\ last => /\ next' = 1
                    /\ phase = "index" => phase' = "blocks"
                    /\ phase = "blocks" => phase' = "functions"
                    /\ phase = "functions" => phase' = "classes"
                    /\ phase = "classes" => phase' = "writes"
<1> DEFINE order == <<"index", "blocks", "functions", "classes", "writes">>
           at == CHOOSE p \in 1 .. 4 : order[p] = phase
<1>1. at \in 1 .. 4 /\ order[at] = phase
  <2>1. \E p \in 1 .. 4 : order[p] = phase
    <3>1. /\ order[1] = "index" /\ order[2] = "blocks"
          /\ order[3] = "functions" /\ order[4] = "classes"
      OBVIOUS
    <3> HIDE DEF order
    <3> QED BY <3>1 DEF Looping
  <2> HIDE DEF order
  <2> QED BY <2>1
<1>2. IF last THEN phase' = order[at + 1] /\ next' = 1
              ELSE phase' = phase /\ next' = next + 1
  BY DEF Goes
<1> HIDE DEF at
<1>3. at \in {1, 2, 3, 4}
  BY <1>1
<1> QED BY <1>1, <1>2, <1>3

(* What is read from the index stays while it and found do.                *)
LEMMA Same ==
  ASSUME index' = index, found' = found
  PROVE  /\ Blocks' = Blocks /\ Left' = Left /\ Functions' = Functions
         /\ MakeFuncs' = MakeFuncs /\ End' = End
         /\ \A i : /\ Members(i)' = Members(i) /\ Complete(i)' = Complete(i)
                   /\ OfClass(i)' = OfClass(i) /\ OfBlock(i)' = OfBlock(i)
                   /\ Unreadable(i)' = Unreadable(i)
         /\ \A n : /\ BlocksTo(n)' = BlocksTo(n) /\ FunctionsTo(n)' = FunctionsTo(n)
                   /\ ClassesTo(n)' = ClassesTo(n) /\ FoundTo(n)' = FoundTo(n)
<1>1. \A i : Members(i)' = Members(i)
  BY DEF Members
<1>2. \A m : Def(m)' = Def(m)
  BY DEF Def
<1>3. \A k : InCategory(k)' = InCategory(k)
  BY DEF InCategory
<1>4. \A i : (Good(i)' = Good(i)) /\ (Unreadable(i)' = Unreadable(i))
  BY DEF Good, Unreadable
<1>5. Functions' = Functions
  BY <1>1, <1>2, <1>3 DEF Functions
<1>6. \A n : Named(n)' = Named(n)
  BY <1>2, <1>5 DEF Named
<1>7. \A i, d : HasMember(i, d)' = HasMember(i, d)
  BY <1>1, <1>2 DEF HasMember
<1>8. Blocks' = Blocks
  BY <1>3, <1>4, <1>7 DEF Blocks, IsBlock
<1>9. Left' = Left
  BY <1>3, <1>4, <1>8 DEF Left
<1>10. MakeFuncs' = MakeFuncs
  BY <1>8 DEF MakeFuncs
<1>11. \A i : OfClass(i)' = OfClass(i)
  <2>1. \A i : IsSpokenOf(i)' = IsSpokenOf(i)
    BY <1>3, <1>8 DEF IsSpokenOf, HeadersOf
  <2>2. \A m : HasEntry(m)' = HasEntry(m)
    BY <1>2 DEF HasEntry
  <2> QED BY <1>1, <2>1, <2>2 DEF OfClass
<1>12. \A i : OfBlock(i)' = OfBlock(i)
  BY <1>6, <1>11 DEF OfBlock
<1>13. \A i : Complete(i)' = Complete(i)
  BY <1>3, <1>5, <1>6, <1>7 DEF Complete, HeadersOf
<1>14. \A n : BlocksTo(n)' = BlocksTo(n) /\ ClassesTo(n)' = ClassesTo(n)
  BY <1>8, <1>9, <1>11, <1>12 DEF BlocksTo, ClassesTo
<1>15. \A n : FunctionsTo(n)' = FunctionsTo(n)
  BY <1>2, <1>5, <1>10 DEF FunctionsTo, HasEntry
<1>16. \A n : FoundTo(n)' = FoundTo(n)
  BY <1>4 DEF FoundTo
<1>17. End' = End
  BY DEF End
<1> QED BY <1>1, <1>4, <1>5, <1>8, <1>9, <1>10, <1>11, <1>12, <1>13, <1>14,
           <1>15, <1>16, <1>17

(* What the loops have gone over, one compound further.                    *)
LEMMA OneFurther ==
  ASSUME IndexOK, found \subseteq DOMAIN index, NEW n \in DOMAIN index
  PROVE  /\ BlocksTo(1) = {} /\ FunctionsTo(1) = {} /\ ClassesTo(1) = {}
         /\ BlocksTo(n + 1) = IF n \in Blocks THEN BlocksTo(n) \cup OfBlock(n)
                              ELSE BlocksTo(n)
         /\ FunctionsTo(n + 1) = FunctionsTo(n)
              \cup {m \in Functions : m[1] = n /\ HasEntry(m) /\ Def(m).name \notin MakeFuncs}
         /\ ClassesTo(n + 1) = IF n \in Left THEN ClassesTo(n) \cup OfClass(n)
                               ELSE ClassesTo(n)
<1>1. DOMAIN index = 1 .. Len(index) /\ Len(index) \in Nat
  BY DEF IndexOK
<1>2. /\ \A j \in Blocks : j \in Nat /\ j >= 1
      /\ \A j \in Left : j \in Nat /\ j >= 1
  BY <1>1, ClassesAre
<1>3. \A m \in Functions : m[1] \in Nat /\ m[1] >= 1
  BY <1>1, FunctionsAre
<1>4. n \in Nat
  BY <1>1
<1>5. BlocksTo(1) = {} /\ FunctionsTo(1) = {} /\ ClassesTo(1) = {}
  BY <1>2, <1>3 DEF BlocksTo, FunctionsTo, ClassesTo
<1>6. \A j \in Blocks \cup Left : j < n + 1 <=> (j < n \/ j = n)
  BY <1>2, <1>4
<1>7. BlocksTo(n + 1) = IF n \in Blocks THEN BlocksTo(n) \cup OfBlock(n)
                        ELSE BlocksTo(n)
  BY <1>4, <1>6 DEF BlocksTo
<1>8. ClassesTo(n + 1) = IF n \in Left THEN ClassesTo(n) \cup OfClass(n)
                         ELSE ClassesTo(n)
  BY <1>4, <1>6 DEF ClassesTo
<1>9. \A m \in Functions : m[1] < n + 1 <=> (m[1] < n \/ m[1] = n)
  BY <1>3, <1>4
<1>10. FunctionsTo(n + 1) = FunctionsTo(n)
         \cup {m \in Functions : m[1] = n /\ HasEntry(m) /\ Def(m).name \notin MakeFuncs}
  BY <1>9, Zenon DEF FunctionsTo
<1> QED BY <1>5, <1>7, <1>8, <1>10

(* A loop goes on or ends, and nothing is stopped.                         *)
LEMMA LoopsOn ==
  ASSUME Types, FoundOK, phase \in {"blocks", "functions", "classes"},
         next <= Len(index), Continues, found' = found
  PROVE  /\ Types' /\ FoundOK' /\ StopsOnlyFor'
         /\ next \in DOMAIN index /\ index' = index
         /\ next # Len(index) => phase' = phase /\ next' = next + 1
         /\ next = Len(index) =>
              /\ next' = 1 /\ End = next + 1
              /\ phase = "blocks" => phase' = "functions"
              /\ phase = "functions" => phase' = "classes"
              /\ phase = "classes" => phase' = "writes"
<1>1. index' = index /\ Goes(next = Len(index)) /\ phase \in Looping
  BY DEF Continues, Looping
<1>2. Len(index) \in Nat /\ DOMAIN index = 1 .. Len(index)
  BY DEF Types, IndexOK
<1>3. next \in 1 .. Len(index)
  <2>1. CASE index = <<>> /\ next = 1
    BY <2>1
  <2> QED BY <2>1 DEF Types
<1>4. /\ next # Len(index) => phase' = phase /\ next' = next + 1
      /\ next = Len(index) =>
              /\ next' = 1 /\ End = next + 1
              /\ phase = "blocks" => phase' = "functions"
              /\ phase = "functions" => phase' = "classes"
              /\ phase = "classes" => phase' = "writes"
  BY <1>1, GoesOn DEF End
<1>5. phase' \in {"blocks", "functions", "classes", "writes"}
  BY <1>4
<1>6. Types'
  <2>1. IndexOK'
    BY <1>1 DEF Types, IndexOK
  <2>2. next' \in 1 .. Len(index)
    <3>1. CASE next = Len(index)
      BY <1>2, <1>3, <1>4, <3>1
    <3>2. CASE next # Len(index)
      <4>1. next' = next + 1
        BY <1>4, <3>2
      <4>2. Len(index) \in Nat
        BY <1>2
      <4> QED BY ONLY <1>3, <3>2, <4>1, <4>2
    <3> QED BY <3>1, <3>2
  <2> QED BY <1>1, <1>5, <2>1, <2>2 DEF Types, Looping
<1>7. FoundTo(End)' = FoundTo(End)
  <2>1. (\A n : FoundTo(n)' = FoundTo(n)) /\ End' = End
    BY <1>1, Same
  <2> QED BY <2>1, <1>1 DEF FoundTo, End, Unreadable, Good
<1>8. FoundOK'
  BY <1>1, <1>5, <1>7 DEF FoundOK
<1>9. StopsOnlyFor'
  BY <1>5 DEF StopsOnlyFor
<1> QED BY <1>1, <1>2, <1>3, <1>4, <1>6, <1>8, <1>9

LEMMA BlockEntryStays ==
  ASSUME IInv, BlockEntry, phase' # "stopped"
  PROVE  IInv'
<1> USE DEF IInv
<1> DEFINE E == (DOMAIN index) \X Nat
           made == SetToSeq(Named(Make(index[next].name)))
<1>1. /\ phase = "blocks" /\ next <= Len(index)
      /\ next \in Blocks => Complete(next)
      /\ docs' = IF next \notin Blocks THEN docs
                 ELSE docs \o ClassEntry(next) \o made
      /\ Continues /\ found' = found
  BY DEF BlockEntry, Stops
<1>2. /\ Types' /\ FoundOK' /\ StopsOnlyFor'
      /\ next \in DOMAIN index /\ index' = index
      /\ next # Len(index) => phase' = phase /\ next' = next + 1
      /\ next = Len(index) => next' = 1 /\ End = next + 1 /\ phase' = "functions"
  BY <1>1, LoopsOn
<1>3. IndexOK /\ found \subseteq DOMAIN index
  BY DEF Types, FoundOK
<1>4. Elements(docs) = BlocksTo(next) /\ docs \in Seq(E) /\ Once(docs)
  BY <1>1 DEF DocsOK
<1>5. /\ docs' \in Seq(E) /\ Once(docs') /\ Elements(docs') = BlocksTo(next + 1)
      /\ \A m \in Elements(docs') : m[2] > 0 => m \in Members(m[1])
  <2>1. CASE next \notin Blocks
    BY <1>1, <1>2, <1>3, <1>4, <2>1, OneFurther DEF DocsOK
  <2>2. CASE next \in Blocks
    <3>1. /\ ClassEntry(next) \in Seq(E) /\ Once(ClassEntry(next))
          /\ Elements(ClassEntry(next)) = OfClass(next)
          /\ \A m \in OfClass(next) : m[1] = next /\ (m[2] > 0 => m \in Members(next))
      BY <1>2, <1>3, OfClassIs
    <3>2. /\ made \in Seq(E) /\ Once(made)
          /\ Elements(made) = Named(Make(index[next].name))
      BY <1>1, <1>3, <2>2, MakeFunctionIs
    <3>3. /\ OfClass(next) \cap Named(Make(index[next].name)) = {}
          /\ BlocksTo(next) \cap OfBlock(next) = {}
      <4>1. OfClass(next) \cap Named(Make(index[next].name)) = {}
        BY <1>3, <2>2, BlocksDiffer
      <4>2. \A j \in Blocks : j # next => OfBlock(next) \cap OfBlock(j) = {}
        BY <1>3, <2>2, BlocksDiffer
      <4>3. next \in Nat
        BY <1>2, <1>3 DEF IndexOK
      <4>4. \A j \in {j \in Blocks : j < next} : j \in Blocks /\ j # next
        BY <4>3
      <4> QED BY <4>1, <4>2, <4>4 DEF BlocksTo
    <3>4. \A m \in Named(Make(index[next].name)) : m \in Members(m[1])
      BY <1>3, FunctionsAre DEF Named
    <3>5. BlocksTo(next + 1) = BlocksTo(next) \cup OfBlock(next)
      BY <1>2, <1>3, <2>2, OneFurther
    <3> DEFINE d == docs \o ClassEntry(next)
    <3> HIDE DEF E, made
    <3>6. /\ d \in Seq(E) /\ Once(d)
          /\ Elements(d) = BlocksTo(next) \cup OfClass(next)
      <4>1. Elements(docs) \cap Elements(ClassEntry(next)) = {}
        BY <1>4, <3>1, <3>3 DEF OfBlock
      <4> QED BY <1>4, <3>1, <4>1, Joined
    <3> HIDE DEF d
    <3>7. /\ d \o made \in Seq(E) /\ Once(d \o made)
          /\ Elements(d \o made) = Elements(d) \cup Elements(made)
      <4>1. Elements(d) \cap Elements(made) = {}
        BY <3>2, <3>3, <3>6 DEF OfBlock
      <4> QED BY <3>2, <3>6, <4>1, Joined
    <3>8. docs' = d \o made
      BY <1>1, <2>2 DEF d
    <3>9. Elements(docs') = BlocksTo(next) \cup OfBlock(next)
      BY <3>2, <3>6, <3>7, <3>8 DEF OfBlock
    <3>10. \A m \in BlocksTo(next) \cup OfBlock(next) : m[2] > 0 => m \in Members(m[1])
      BY <1>4, <3>1, <3>4 DEF DocsOK, OfBlock
    <3> QED BY <3>5, <3>7, <3>8, <3>9, <3>10
  <2> QED BY <2>1, <2>2
<1>6. /\ \A n : BlocksTo(n)' = BlocksTo(n) /\ FunctionsTo(n)' = FunctionsTo(n)
      /\ \A i : Members(i)' = Members(i)
      /\ End' = End
  BY <1>1, <1>2, Same
<1>7. DocsOK'
  <2>1. phase' = "blocks" => Elements(docs') = BlocksTo(next')
    BY <1>1, <1>2, <1>5
  <2>2. phase' = "functions" =>
          Elements(docs') = BlocksTo(End) \cup FunctionsTo(next')
    BY <1>1, <1>2, <1>3, <1>5, OneFurther
  <2>3. phase' \in {"blocks", "functions"}
    BY <1>1, <1>2
  <2> QED BY <1>2, <1>5, <1>6, <2>1, <2>2, <2>3 DEF DocsOK
<1> QED BY <1>2, <1>7

LEMMA FunctionEntriesStays ==
  ASSUME IInv, FunctionEntries
  PROVE  IInv'
<1> USE DEF IInv
<1> DEFINE E == (DOMAIN index) \X Nat
           S == {m \in Functions :
                   m[1] = next /\ HasEntry(m) /\ Def(m).name \notin MakeFuncs}
           made == SetToSeq(S)
<1>1. /\ phase = "functions" /\ next <= Len(index)
      /\ docs' = docs \o made /\ Continues /\ found' = found
  BY DEF FunctionEntries
<1>2. /\ Types' /\ FoundOK' /\ StopsOnlyFor'
      /\ next \in DOMAIN index /\ index' = index
      /\ next # Len(index) => phase' = phase /\ next' = next + 1
      /\ next = Len(index) => next' = 1 /\ End = next + 1 /\ phase' = "classes"
  BY <1>1, LoopsOn
<1>3. IndexOK /\ found \subseteq DOMAIN index
  BY DEF Types, FoundOK
<1>4. /\ docs \in Seq(E) /\ Once(docs)
      /\ Elements(docs) = BlocksTo(End) \cup FunctionsTo(next)
  BY <1>1 DEF DocsOK
<1>5. made \in Seq(E) /\ Once(made) /\ Elements(made) = S
  BY <1>2, <1>3, FunctionsOf
<1>6. Elements(docs) \cap S = {}
  <2>1. \A i \in Blocks : \A m \in S : m \notin OfBlock(i)
    BY <1>3, BlocksDiffer
  <2>2. BlocksTo(End) \cap S = {}
    BY <2>1 DEF BlocksTo
  <2>3. next \in Nat
    BY <1>2, <1>3 DEF IndexOK
  <2>4. FunctionsTo(next) \cap S = {}
    BY <2>3 DEF FunctionsTo
  <2> QED BY <1>4, <2>2, <2>4
<1>7. \A m \in S : m \in Members(m[1])
  BY <1>3, FunctionsAre
<1>8. FunctionsTo(next + 1) = FunctionsTo(next) \cup S
  BY <1>2, <1>3, OneFurther
<1>9. /\ docs' \in Seq(E) /\ Once(docs')
      /\ Elements(docs') = BlocksTo(End) \cup FunctionsTo(next + 1)
      /\ \A m \in Elements(docs') : m[2] > 0 => m \in Members(m[1])
  <2> HIDE DEF E, S, made
  <2>1. /\ docs' \in Seq(E) /\ Once(docs')
        /\ Elements(docs') = Elements(docs) \cup S
    <3>1. Elements(docs) \cap Elements(made) = {}
      BY <1>5, <1>6
    <3> QED BY <1>1, <1>4, <1>5, <3>1, Joined
  <2> QED BY <1>4, <1>7, <1>8, <2>1 DEF DocsOK
<1>10. /\ \A n : /\ BlocksTo(n)' = BlocksTo(n) /\ FunctionsTo(n)' = FunctionsTo(n)
                 /\ ClassesTo(n)' = ClassesTo(n)
       /\ \A i : Members(i)' = Members(i)
       /\ End' = End
  BY <1>1, <1>2, Same
<1>11. phase' \in {"functions", "classes"}
  BY <1>1, <1>2
<1>12. DocsOK'
  <2>1. phase' = "functions" =>
          Elements(docs') = BlocksTo(End) \cup FunctionsTo(next')
    BY <1>1, <1>2, <1>9
  <2>2. phase' = "classes" =>
          Elements(docs') = BlocksTo(End) \cup FunctionsTo(End) \cup ClassesTo(next')
    BY <1>1, <1>2, <1>3, <1>9, OneFurther
  <2> QED BY <1>2, <1>9, <1>10, <1>11, <2>1, <2>2 DEF DocsOK
<1> QED BY <1>2, <1>12

LEMMA ClassEntriesStays ==
  ASSUME IInv, ClassEntries
  PROVE  IInv'
<1> USE DEF IInv
<1> DEFINE E == (DOMAIN index) \X Nat
           made == ClassEntry(next)
<1>1. /\ phase = "classes" /\ next <= Len(index)
      /\ docs' = IF next \in Left THEN docs \o made ELSE docs
      /\ Continues /\ found' = found
  BY DEF ClassEntries, Left
<1>2. /\ Types' /\ FoundOK' /\ StopsOnlyFor'
      /\ next \in DOMAIN index /\ index' = index
      /\ next # Len(index) => phase' = phase /\ next' = next + 1
      /\ next = Len(index) => next' = 1 /\ End = next + 1 /\ phase' = "writes"
  BY <1>1, LoopsOn
<1>3. IndexOK /\ found \subseteq DOMAIN index
  BY DEF Types, FoundOK
<1>4. /\ docs \in Seq(E) /\ Once(docs)
      /\ Elements(docs) = BlocksTo(End) \cup FunctionsTo(End) \cup ClassesTo(next)
  BY <1>1 DEF DocsOK
<1>5. /\ docs' \in Seq(E) /\ Once(docs')
      /\ Elements(docs') = BlocksTo(End) \cup FunctionsTo(End) \cup ClassesTo(next + 1)
      /\ \A m \in Elements(docs') : m[2] > 0 => m \in Members(m[1])
  <2>1. CASE next \notin Left
    BY <1>1, <1>2, <1>3, <1>4, <2>1, OneFurther DEF DocsOK
  <2>2. CASE next \in Left
    <3>1. /\ made \in Seq(E) /\ Once(made) /\ Elements(made) = OfClass(next)
          /\ \A m \in OfClass(next) : m[1] = next /\ (m[2] > 0 => m \in Members(next))
      BY <1>2, <1>3, OfClassIs
    <3>2. OfClass(next) \cap Elements(docs) = {}
      <4>1. \A i \in Blocks : OfClass(next) \cap OfBlock(i) = {}
        BY <1>3, <2>2, BlocksDiffer
      <4>2. OfClass(next) \cap Functions = {}
        BY <1>3, <2>2, ClassesDiffer
      <4>3. \A j \in Left : j # next => OfClass(next) \cap OfClass(j) = {}
        BY <1>3, <2>2, ClassesDiffer
      <4>4. next \in Nat
        BY <1>2, <1>3 DEF IndexOK
      <4>5. \A j \in {j \in Left : j < next} : j \in Left /\ j # next
        BY <4>4
      <4>6. OfClass(next) \cap BlocksTo(End) = {}
        BY <4>1 DEF BlocksTo
      <4>7. OfClass(next) \cap FunctionsTo(End) = {}
        BY <4>2 DEF FunctionsTo
      <4>8. OfClass(next) \cap ClassesTo(next) = {}
        BY <4>3, <4>5 DEF ClassesTo
      <4> QED BY <1>4, <4>6, <4>7, <4>8
    <3>3. ClassesTo(next + 1) = ClassesTo(next) \cup OfClass(next)
      BY <1>2, <1>3, <2>2, OneFurther
    <3> HIDE DEF E, made
    <3>4. /\ docs' \in Seq(E) /\ Once(docs')
          /\ Elements(docs') = Elements(docs) \cup OfClass(next)
      <4>1. Elements(docs) \cap Elements(made) = {}
        BY <3>1, <3>2
      <4> QED BY <1>1, <1>4, <2>2, <3>1, <4>1, Joined
    <3>5. Elements(docs')
            = BlocksTo(End) \cup FunctionsTo(End) \cup ClassesTo(next + 1)
      BY <1>4, <3>3, <3>4
    <3>6. \A m \in Elements(docs') : m[2] > 0 => m \in Members(m[1])
      BY <3>1, <3>4 DEF DocsOK
    <3> QED BY <3>4, <3>5, <3>6
  <2> QED BY <2>1, <2>2
<1>6. /\ \A n : /\ BlocksTo(n)' = BlocksTo(n) /\ FunctionsTo(n)' = FunctionsTo(n)
                /\ ClassesTo(n)' = ClassesTo(n)
      /\ \A i : Members(i)' = Members(i)
      /\ End' = End
  BY <1>1, <1>2, Same
<1>7. phase' \in {"classes", "writes"}
  BY <1>1, <1>2
<1>8. DocsOK'
  <2>1. phase' = "classes" =>
          Elements(docs') = BlocksTo(End) \cup FunctionsTo(End) \cup ClassesTo(next')
    BY <1>1, <1>2, <1>5
  <2>2. phase' = "writes" =>
          Elements(docs') = BlocksTo(End) \cup FunctionsTo(End) \cup ClassesTo(End)
    BY <1>1, <1>2, <1>5
  <2> QED BY <1>2, <1>5, <1>6, <1>7, <2>1, <2>2 DEF DocsOK
<1> QED BY <1>2, <1>8

(* What may stop the run stays what it is when it does.                    *)
LEMMA Stopping ==
  ASSUME IInv, Stops,
         \E i \in DOMAIN index :
           \/ Unreadable(i)
           \/ index[i].kind = "class" /\ Missing(i)
           \/ /\ index[i].kind = "class" /\ Good(i) /\ ~Complete(i)
              /\ HasMember(i, Friend(Make(index[i].name)))
  PROVE  IInv'
<1> USE DEF IInv
<1>1. /\ phase' = "stopped" /\ index' = index /\ next' = next
      /\ found' = found /\ docs' = docs
  BY DEF Stops
<1>2. \A i : /\ Members(i)' = Members(i) /\ Complete(i)' = Complete(i)
             /\ Unreadable(i)' = Unreadable(i)
  BY <1>1, Same
<1>3. \A i : (Missing(i)' = Missing(i)) /\ (Good(i)' = Good(i))
  BY <1>1 DEF Missing, Good
<1>4. \A i, d : HasMember(i, d)' = HasMember(i, d)
  BY <1>1, <1>2 DEF HasMember, Def
<1>5. StopsOnlyFor'
  BY <1>1, <1>2, <1>3, <1>4 DEF StopsOnlyFor
<1>6. Types' /\ FoundOK'
  BY <1>1 DEF Types, FoundOK, IndexOK
<1>7. DocsOK'
  BY <1>1, <1>2 DEF DocsOK
<1> QED BY <1>5, <1>6, <1>7

LEMMA BlockEntryStops ==
  ASSUME IInv, BlockEntry, phase' = "stopped"
  PROVE  IInv'
<1> USE DEF IInv
<1>1. phase = "blocks" /\ next <= Len(index)
  BY DEF BlockEntry
<1>2. CASE /\ \/ \E i \in InCategory("class") : Missing(i)
              \/ next \in Blocks /\ ~Complete(next)
           /\ Stops
  <2>1. CASE \E i \in InCategory("class") : Missing(i)
    <3>1. \E i \in DOMAIN index : index[i].kind = "class" /\ Missing(i)
      BY <2>1 DEF InCategory, FoundOK
    <3> QED BY <1>2, <3>1, Stopping
  <2>2. CASE next \in Blocks /\ ~Complete(next)
    <3>1. /\ next \in DOMAIN index /\ index[next].kind = "class" /\ Good(next)
          /\ HasMember(next, Friend(Make(index[next].name)))
      BY <2>2 DEF Blocks, IsBlock, InCategory, FoundOK
    <3> QED BY <1>2, <2>2, <3>1, Stopping
  <2> QED BY <1>2, <2>1, <2>2
<1>3. CASE Continues /\ found' = found
  <2>1. phase' \in {"blocks", "functions"}
    BY <1>1, <1>3, LoopsOn
  <2> QED BY <2>1
<1> QED BY <1>2, <1>3 DEF BlockEntry

LEMMA ParseCompoundStays ==
  ASSUME IInv, ParseCompound
  PROVE  IInv'
<1> USE DEF IInv
<1>1. phase = "index" /\ next <= Len(index)
  BY DEF ParseCompound
<1>2. Len(index) \in Nat /\ DOMAIN index = 1 .. Len(index)
  BY DEF Types, IndexOK
<1>3. next \in 1 .. Len(index)
  <2>1. CASE index = <<>> /\ next = 1
    BY <1>1, <2>1
  <2> QED BY <2>1 DEF Types
<1>4. CASE Unreadable(next) /\ Stops
  BY <1>2, <1>3, <1>4, Stopping
<1>5. CASE /\ ~Unreadable(next)
           /\ found' = IF index[next].kind = "source" THEN found
                       ELSE found \cup {next}
           /\ Continues /\ UNCHANGED docs
  <2>1. index' = index /\ Goes(next = Len(index)) /\ docs' = docs
    BY <1>5 DEF Continues
  <2>2. /\ next # Len(index) => phase' = "index" /\ next' = next + 1
        /\ next = Len(index) => phase' = "blocks" /\ next' = 1
    BY <1>1, <2>1, GoesOn DEF Looping
  <2>3. next' \in 1 .. Len(index)
    <3>1. CASE next = Len(index)
      BY <1>2, <1>3, <2>2, <3>1
    <3>2. CASE next # Len(index)
      <4>1. next' = next + 1
        BY <2>2, <3>2
      <4>2. Len(index) \in Nat
        BY <1>2
      <4> QED BY ONLY <1>3, <3>2, <4>1, <4>2
    <3> QED BY <3>1, <3>2
  <2>4. phase' \in {"index", "blocks"}
    BY <2>2
  <2>5. IndexOK'
    BY <2>1 DEF Types, IndexOK
  <2>6. Types'
    BY <2>1, <2>3, <2>4, <2>5 DEF Types, Looping
  <2>7. /\ found' = {i \in 1 .. next : index[i].kind # "source"}
        /\ \A i \in 1 .. next : ~Unreadable(i)
    <3>1. FoundTo(next)
      BY <1>1 DEF FoundOK
    <3>2. 1 .. next = (1 .. next - 1) \cup {next} /\ next \notin 1 .. next - 1
      BY <1>2, <1>3
    <3> QED BY <1>5, <3>1, <3>2 DEF FoundTo
  <2>8. \A i : Unreadable(i)' = Unreadable(i)
    BY <2>1 DEF Unreadable, Good
  <2>9. \A i \in Blocks' : i \in Nat /\ i >= 1
    <3>1. Blocks' \subseteq found'
      BY DEF Blocks, InCategory
    <3> QED BY <1>2, <1>3, <2>7, <3>1
  <2>10. FoundOK'
    <3>1. found' \subseteq DOMAIN index'
      <4>1. \A i \in 1 .. next : i \in 1 .. Len(index)
        <5>1. Len(index) \in Nat
          BY <1>2
        <5> QED BY ONLY <5>1, <1>3
      <4> QED BY <1>2, <2>1, <2>7, <4>1
    <3>2. phase' = "index" => FoundTo(next)'
      <4>1. SUFFICES ASSUME phase' = "index" PROVE FoundTo(next)'
        OBVIOUS
      <4>2. next' - 1 = next
        <5>1. next' = next + 1 /\ next \in Int
          BY <1>3, <2>2, <4>1
        <5> QED BY ONLY <5>1
      <4> QED BY <2>1, <2>7, <2>8, <4>2 DEF FoundTo
    <3>3. phase' = "blocks" => FoundTo(End)'
      <4>1. SUFFICES ASSUME phase' = "blocks" PROVE FoundTo(End)'
        OBVIOUS
      <4>2. End' - 1 = next
        <5>1. End' = next + 1 /\ next \in Int
          BY <1>1, <1>3, <2>1, <2>2, <4>1 DEF End
        <5> QED BY ONLY <5>1
      <4> QED BY <2>1, <2>7, <2>8, <4>2 DEF FoundTo
    <3> QED BY <2>4, <3>1, <3>2, <3>3 DEF FoundOK
  <2>11. docs' = <<>>
    BY <1>1, <2>1 DEF DocsOK
  <2>12. Elements(docs') = {} /\ Once(docs') /\ docs' \in Seq((DOMAIN index') \X Nat)
    BY <2>11 DEF Elements, Once
  <2>13. phase' = "blocks" => BlocksTo(next)' = {}
    <3>1. SUFFICES ASSUME phase' = "blocks" PROVE BlocksTo(next)' = {}
      OBVIOUS
    <3>3. next' = 1
      BY <2>2, <3>1
    <3> QED BY <2>9, <3>3 DEF BlocksTo
  <2>14. DocsOK'
    BY <2>4, <2>11, <2>12, <2>13 DEF DocsOK
  <2>15. StopsOnlyFor'
    BY <2>4 DEF StopsOnlyFor
  <2> QED BY <2>6, <2>10, <2>14, <2>15
<1> QED BY <1>4, <1>5 DEF ParseCompound

LEMMA NoCompoundsStays ==
  ASSUME IInv, NoCompounds
  PROVE  IInv'
<1> USE DEF IInv
<1>1. /\ phase \in Looping /\ index = <<>> /\ Goes(TRUE)
      /\ index' = index /\ found' = found /\ docs' = docs
  BY DEF NoCompounds, Looping
<1>2. next' = 1 /\ phase' \in {"blocks", "functions", "classes", "writes"}
  BY <1>1, GoesOn DEF Looping
<1>3. DOMAIN index = {} /\ Len(index) = 0 /\ End = 1
  BY <1>1 DEF End
<1>4. found = {} /\ IndexOK
  BY <1>3 DEF FoundOK, Types
<1>5. Types' /\ StopsOnlyFor'
  <2>1. IndexOK'
    BY <1>1, <1>4 DEF IndexOK
  <2>2. index' = <<>> /\ next' = 1
    BY <1>1, <1>2
  <2> QED BY <1>2, <2>1, <2>2 DEF Types, StopsOnlyFor, Looping
<1>6. FoundOK'
  <2>1. FoundTo(End)'
    BY <1>1, <1>3, <1>4 DEF FoundTo, End
  <2> QED BY <1>1, <1>2, <1>4, <2>1 DEF FoundOK
<1>7. Blocks = {} /\ Left = {} /\ Functions = {}
  BY <1>4 DEF Blocks, Left, Functions, InCategory
<1>8. \A n : BlocksTo(n) = {} /\ FunctionsTo(n) = {} /\ ClassesTo(n) = {}
  BY <1>7 DEF BlocksTo, FunctionsTo, ClassesTo
<1>9. \A n : BlocksTo(n)' = {} /\ FunctionsTo(n)' = {} /\ ClassesTo(n)' = {}
  BY <1>1, <1>8, Same
<1>10. Elements(docs) = {}
  BY <1>1, <1>8 DEF DocsOK, Looping, Elements
<1>11. DocsOK'
  BY <1>1, <1>2, <1>9, <1>10 DEF DocsOK
<1> QED BY <1>5, <1>6, <1>11

LEMMA WritesStays ==
  ASSUME IInv, Writes
  PROVE  IInv'
<1> USE DEF IInv
<1>1. /\ phase = "writes" /\ phase' = "written"
      /\ index' = index /\ next' = next /\ found' = found /\ docs' = docs
  BY DEF Writes
<1>2. /\ \A n : /\ BlocksTo(n)' = BlocksTo(n) /\ FunctionsTo(n)' = FunctionsTo(n)
                /\ ClassesTo(n)' = ClassesTo(n) /\ FoundTo(n)' = FoundTo(n)
      /\ \A i : Members(i)' = Members(i) /\ Unreadable(i)' = Unreadable(i)
      /\ End' = End
  BY <1>1, Same
<1>3. Types' /\ StopsOnlyFor'
  BY <1>1 DEF Types, IndexOK, StopsOnlyFor
<1>4. FoundOK'
  BY <1>1, <1>2 DEF FoundOK, FoundTo, End
<1>5. DocsOK'
  BY <1>1, <1>2 DEF DocsOK
<1> QED BY <1>3, <1>4, <1>5

LEMMA InitInv == Init => IInv
<1> SUFFICES ASSUME Init PROVE IInv
  OBVIOUS
<1>1. PICK m \in 0 .. MaxCompounds : index \in [1 .. m -> Compounds]
  BY DEF Init
<1>2. index \in Seq(Compounds) /\ Len(index) = m /\ m \in Nat
  BY <1>1
<1>3. Types
  <2>1. next \in 1 .. Len(index) \/ (index = <<>> /\ next = 1)
    <3>1. CASE m = 0
      BY <1>2, <3>1 DEF Init
    <3>2. CASE m > 0
      BY <1>2, <3>2 DEF Init
    <3> QED BY <1>2, <3>1, <3>2
  <2> QED BY <1>2, <2>1 DEF Init, Types, IndexOK, Looping
<1>4. FoundOK
  BY DEF Init, FoundOK, FoundTo
<1>5. DocsOK
  BY DEF Init, DocsOK, Once, Elements
<1>6. StopsOnlyFor
  BY DEF Init, StopsOnlyFor
<1> QED BY <1>3, <1>4, <1>5, <1>6 DEF IInv

LEMMA NextInv == IInv /\ [Next]_vars => IInv'
<1> SUFFICES ASSUME IInv, [Next]_vars PROVE IInv'
  OBVIOUS
<1>1. CASE ParseCompound
  BY <1>1, ParseCompoundStays
<1>2. CASE BlockEntry
  BY <1>2, BlockEntryStays, BlockEntryStops
<1>3. CASE FunctionEntries
  BY <1>3, FunctionEntriesStays
<1>4. CASE ClassEntries
  BY <1>4, ClassEntriesStays
<1>5. CASE NoCompounds
  BY <1>5, NoCompoundsStays
<1>6. CASE Writes
  BY <1>6, WritesStays
<1>7. CASE UNCHANGED vars
  <2>1. /\ index' = index /\ phase' = phase /\ next' = next
        /\ found' = found /\ docs' = docs
    BY <1>7 DEF vars
  <2>2. /\ \A n : /\ BlocksTo(n)' = BlocksTo(n) /\ FunctionsTo(n)' = FunctionsTo(n)
                  /\ ClassesTo(n)' = ClassesTo(n) /\ FoundTo(n)' = FoundTo(n)
        /\ \A i : /\ Members(i)' = Members(i) /\ Complete(i)' = Complete(i)
                  /\ Unreadable(i)' = Unreadable(i)
        /\ End' = End
    BY <2>1, Same
  <2>3. Types' /\ FoundOK'
    BY <2>1, <2>2 DEF IInv, Types, IndexOK, FoundOK, FoundTo, End
  <2>4. DocsOK'
    BY <2>1, <2>2 DEF IInv, DocsOK
  <2>5. StopsOnlyFor'
    <3>1. CASE phase = "stopped"
      BY <1>7, <2>1, <3>1, Stopping DEF IInv, StopsOnlyFor, Stops
    <3>2. CASE phase # "stopped"
      BY <2>1, <3>2 DEF StopsOnlyFor
    <3> QED BY <3>1, <3>2
  <2> QED BY <2>3, <2>4, <2>5 DEF IInv
<1> QED BY <1>1, <1>2, <1>3, <1>4, <1>5, <1>6, <1>7 DEF Next

-----------------------------------------------------------------------------
(* The theorems.                                                           *)

(* Every run of swig_doc keeps what the loops have made docstrings for to  *)
(* the compounds that they have gone over.                                 *)
THEOREM InvHolds == Spec => []IInv
BY InitInv, NextInv, PTL DEF Spec

(* swig_doc makes no two docstrings for a thing, nor for two memberdefs of *)
(* one name in a file: make functions have theirs with their blocks.       *)
THEOREM DocumentedOnceHolds == Spec => []DocumentedOnce
<1>1. ASSUME IInv PROVE DocumentedOnce
  <2>1. /\ docs \in Seq((DOMAIN index) \X Nat) /\ Once(docs) /\ IndexOK
        /\ \A m \in Elements(docs) : m[2] > 0 => m \in Members(m[1])
    BY <1>1 DEF IInv, DocsOK, Types
  <2>2. ASSUME NEW p \in DOMAIN docs, NEW q \in DOMAIN docs, p # q
        PROVE  docs[p] # docs[q]
    BY <2>1, <2>2 DEF Once
  <2>3. ASSUME NEW p \in DOMAIN docs, NEW q \in DOMAIN docs, p # q,
               docs[p][1] = docs[q][1], docs[p][2] > 0, docs[q][2] > 0
        PROVE  Def(docs[p]).name # Def(docs[q]).name
    <3>1. docs[p] \in (DOMAIN index) \X Nat
      BY <2>1
    <3>2. docs[p][1] \in DOMAIN index
      BY <3>1
    <3>3. docs[p] \in Members(docs[p][1]) /\ docs[q] \in Members(docs[p][1])
      BY <2>1, <2>3 DEF Elements
    <3> QED BY <2>1, <2>2, <2>3, <3>2, <3>3, MembersAre
  <2> QED BY <2>2, <2>3 DEF DocumentedOnce
<1> QED BY <1>1, InvHolds, PTL

(* What swig_doc writes has a docstring for every class that can be parsed *)
(* and is described, and for every name of a function in it or in a header *)
(* that no memberdef of another kind has taken.                            *)
THEOREM NothingLeftOutHolds == Spec => []NothingLeftOut
<1>1. ASSUME IInv PROVE NothingLeftOut
  <2> SUFFICES ASSUME phase = "written", NEW i \in DOMAIN index
               PROVE  /\ index[i].kind = "class" /\ Good(i)
                         /\ <<"class", index[i].name>> \in Described
                           => <<i, 0>> \in InDocs
                      /\ index[i].kind \in {"class", "header"} =>
                           \A j \in DOMAIN index[i].mems :
                             HasEntry(<<i, j>>) /\ ~IsShadowed(i, j)
                             => \E m \in InDocs : m[1] = i /\ m[2] > 0
                                     /\ Def(m).name = index[i].mems[j].name
    BY DEF NothingLeftOut
  <2>1. /\ InDocs = BlocksTo(End) \cup FunctionsTo(End) \cup ClassesTo(End)
        /\ IndexOK /\ found \subseteq DOMAIN index /\ FoundTo(End)
    BY <1>1 DEF IInv, DocsOK, Types, FoundOK, InDocs, Elements
  <2>2. \A k \in DOMAIN index : k < End /\ k \in 1 .. End - 1
    BY <2>1 DEF IndexOK, End
  <2>3. index[i].kind # "source" => i \in found
    BY <2>1, <2>2 DEF FoundTo
  <2>4. \A k \in Blocks : OfBlock(k) \subseteq InDocs
    BY <2>1, <2>2, ClassesAre DEF BlocksTo
  <2>5. index[i].kind = "class" /\ Good(i) => OfClass(i) \subseteq InDocs
    <3>1. SUFFICES ASSUME index[i].kind = "class", Good(i)
                   PROVE  OfClass(i) \subseteq InDocs
      OBVIOUS
    <3>2. i \in Blocks \/ i \in Left
      BY <2>3, <3>1 DEF Left, InCategory
    <3>3. CASE i \in Blocks
      BY <2>4, <3>3 DEF OfBlock
    <3>4. CASE i \in Left
      BY <2>1, <2>2, <3>4 DEF ClassesTo
    <3> QED BY <3>2, <3>3, <3>4
  <2>6. ASSUME index[i].kind = "header", NEW m \in Members(i), HasEntry(m)
        PROVE  m \in InDocs
    <3>1. m \in Functions /\ m[1] = i
      BY <2>1, <2>3, <2>6, MembersAre DEF Functions, InCategory, HasEntry
    <3>2. CASE Def(m).name \notin MakeFuncs
      BY <2>1, <2>2, <2>6, <3>1, <3>2 DEF FunctionsTo
    <3>3. CASE Def(m).name \in MakeFuncs
      <4>1. PICK k \in Blocks : Def(m).name = Make(index[k].name)
        BY <3>3 DEF MakeFuncs
      <4> QED BY <2>4, <3>1, <4>1 DEF OfBlock, Named
    <3> QED BY <3>2, <3>3
  <2>7. ASSUME index[i].kind \in {"class", "header"}, NEW j \in DOMAIN index[i].mems,
               HasEntry(<<i, j>>), ~IsShadowed(i, j)
        PROVE  \E m \in InDocs : m[1] = i /\ m[2] > 0
                                 /\ Def(m).name = index[i].mems[j].name
    <3>1. index[i] \in Compounds
      BY <2>1 DEF IndexOK
    <3>2. Good(i)
      BY <2>7, <3>1, CompoundIs DEF Good
    <3>3. PICK m \in Members(i) : HasEntry(m) /\ Def(m).name = index[i].mems[j].name
      BY <2>1, <2>7, NameIsKept
    <3>4. m[1] = i /\ m[2] > 0
      BY <2>1, MembersAre
    <3>5. CASE index[i].kind = "class"
      BY <2>5, <3>2, <3>3, <3>4, <3>5 DEF OfClass
    <3>6. CASE index[i].kind = "header"
      BY <2>6, <3>2, <3>3, <3>4, <3>6
    <3> QED BY <2>7, <3>5, <3>6
  <2>8. <<"class", index[i].name>> \in Described => <<i, 0>> \in OfClass(i)
    BY DEF OfClass, IsSpokenOf
  <2> QED BY <2>5, <2>7, <2>8
<1> QED BY <1>1, InvHolds, PTL

(* swig_doc ends without writing only for a compound that no class can     *)
(* parse, a header that is not well formed, a class whose file is missing, *)
(* or a block that has not all that make_block_entry asks for.             *)
THEOREM StopsOnlyForHolds == Spec => []StopsOnlyFor
<1>1. IInv => StopsOnlyFor
  BY DEF IInv
<1> QED BY <1>1, InvHolds, PTL
=============================================================================
