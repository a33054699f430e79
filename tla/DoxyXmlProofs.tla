--------------------------- MODULE DoxyXmlProofs ---------------------------
(* Proofs about DoxyXml, for every table of classes that its assumptions   *)
(* allow, every document, and whatever number of nodes it has.             *)
EXTENDS DoxyXml, FiniteSetTheorems, TLAPS

-----------------------------------------------------------------------------
(* FlattenSeq.                                                             *)

(* A set of positions has a first: that with the smallest of the sets      *)
(* 1 .. k, ordered by inclusion.                                           *)
LEMMA First ==
  ASSUME NEW T, T \subseteq Nat, T # {}
  PROVE  \E k \in T : \A j \in T : k <= j
<1> DEFINE R == StrictSubsetOrdering(Nat)
           Uptos == {1 .. k : k \in T}
<1>1. IsWellFoundedOn(R, FiniteSubsetsOf(Nat))
  BY FS_StrictSubsetOrderingWellFounded
<1>2. Uptos \subseteq FiniteSubsetsOf(Nat) /\ Uptos # {}
  <2>1. \A k \in T : IsFiniteSet(1 .. k)
    BY FS_Interval
  <2>2. \A k \in T : 1 .. k \in SUBSET Nat
    OBVIOUS
  <2> QED BY <2>1, <2>2, Zenon DEF FiniteSubsetsOf
<1>3. \E x \in Uptos : \A y \in Uptos : <<y, x>> \notin R
  <2> HIDE DEF R, Uptos
  <2> QED BY <1>1, <1>2, WFMin
<1>4. PICK k \in T : \A j \in T : <<1 .. j, 1 .. k>> \notin R
  BY <1>3
<1>5. ASSUME NEW j \in T, j < k PROVE FALSE
  <2>1. k \in 1 .. k /\ k \notin 1 .. j /\ 1 .. j \subseteq 1 .. k
    BY <1>5
  <2>2. <<1 .. j, 1 .. k>> \in R
    BY <2>1 DEF StrictSubsetOrdering
  <2> QED BY <2>2, <1>4
<1> QED BY <1>5

(* f joins the first n sequences of s, one more at each argument.          *)
Joins(f, s, n) ==
  f = [i \in 1 .. n |-> IF i = 1 THEN s[i] ELSE f[i - 1] \o s[i]]

(* Two functions that do are the same.                                     *)
LEMMA Same ==
  ASSUME NEW n \in Nat, NEW s, NEW f, NEW g, Joins(f, s, n), Joins(g, s, n)
  PROVE  \A i \in 1 .. n : f[i] = g[i]
<1> DEFINE Bad == {i \in 1 .. n : f[i] # g[i]}
           Next1(h) == \A i \in 1 .. n : h[i] = IF i = 1 THEN s[i] ELSE h[i - 1] \o s[i]
<1>0. Next1(f) /\ Next1(g)
  <2>1. Next1(f)
    BY Zenon DEF Joins
  <2>2. Next1(g)
    BY Zenon DEF Joins
  <2> QED BY <2>1, <2>2
<1>1. ASSUME Bad # {} PROVE FALSE
  <2>1. Bad \subseteq Nat
    BY ONLY n \in Nat
  <2>2. \E i \in Bad : \A j \in Bad : i <= j
    <3> HIDE DEF Bad
    <3> QED BY <1>1, <2>1, First
  <2>3. PICK i \in Bad : \A j \in Bad : i <= j
    BY <2>2
  <2>4. i \in 1 .. n /\ f[i] # g[i] /\ i # 1
    BY <1>0
  <2>5. i - 1 \in 1 .. n /\ ~(i <= i - 1)
    BY <2>4
  <2>6. f[i - 1] = g[i - 1]
    BY <2>3, <2>5
  <2> QED BY <1>0, <2>4, <2>6
<1> QED BY <1>1

(* f, and x after the last.                                                *)
OneMore(f, n, x) ==
  [i \in 1 .. n + 1 |-> IF i = n + 1 THEN (IF n = 0 THEN x ELSE f[n] \o x) ELSE f[i]]

LEMMA JoinsMore ==
  ASSUME NEW n \in Nat, NEW s, NEW t, NEW f, Joins(f, s, n),
         \A i \in 1 .. n : t[i] = s[i]
  PROVE  Joins(OneMore(f, n, t[n + 1]), t, n + 1)
<1> DEFINE g == OneMore(f, n, t[n + 1])
           Is(i) == IF i = 1 THEN t[i] ELSE g[i - 1] \o t[i]
<1>1. \A i \in 1 .. n : f[i] = IF i = 1 THEN s[i] ELSE f[i - 1] \o s[i]
  BY Zenon DEF Joins
<1>2. /\ \A i \in 1 .. n : g[i] = f[i]
      /\ g[n + 1] = IF n = 0 THEN t[n + 1] ELSE f[n] \o t[n + 1]
      /\ g = [i \in 1 .. n + 1 |-> g[i]]
  <2>1. n + 1 \in 1 .. n + 1 /\ \A i \in 1 .. n : i \in 1 .. n + 1 /\ i # n + 1
    BY ONLY n \in Nat
  <2>2. \A i \in 1 .. n : g[i] = f[i]
    BY ONLY <2>1, Zenon DEF OneMore
  <2>3. g[n + 1] = IF n = 0 THEN t[n + 1] ELSE f[n] \o t[n + 1]
    BY ONLY <2>1, Zenon DEF OneMore
  <2>4. g = [i \in 1 .. n + 1 |-> g[i]]
    BY ONLY Zenon DEF OneMore
  <2> QED BY <2>2, <2>3, <2>4
<1> HIDE DEF g
<1>3. \A i \in 1 .. n + 1 : g[i] = Is(i)
  <2> TAKE i \in 1 .. n + 1
  <2>1. CASE i \in 1 .. n
    <3>1. i # 1 => i - 1 \in 1 .. n
      BY <2>1
    <3>2. g[i] = f[i] /\ t[i] = s[i] /\ (i # 1 => g[i - 1] = f[i - 1])
      BY <1>2, <2>1, <3>1
    <3> QED BY ONLY <1>1, <2>1, <3>2
  <2>2. CASE i = n + 1
    <3>1. n # 0 => n \in 1 .. n /\ i # 1 /\ i - 1 = n
      BY <2>2
    <3>2. n # 0 => g[i - 1] = f[n]
      BY <1>2, <3>1
    <3>3. n = 0 => i = 1
      BY <2>2
    <3> QED BY ONLY <1>2, <2>2, <3>1, <3>2, <3>3
  <2>3. i \in 1 .. n \/ i = n + 1
    OBVIOUS
  <2> QED BY <2>1, <2>2, <2>3
<1>4. g = [i \in 1 .. n + 1 |-> Is(i)]
  BY <1>2, <1>3, Zenon
<1>5. Joins(g, t, n + 1)
  BY <1>4, Zenon DEF Joins
<1> QED BY <1>5 DEF g

(* There is such a function.                                               *)
LEMMA Joined ==
  ASSUME NEW n \in Nat, NEW s
  PROVE  \E f : Joins(f, s, n)
<1> DEFINE Has(m) == \E f : Joins(f, s, m)
           Bad == {m \in Nat : ~Has(m)}
<1>1. ASSUME Bad # {} PROVE FALSE
  <2>1. \E m \in Bad : \A j \in Bad : m <= j
    <3>1. Bad \subseteq Nat
      OBVIOUS
    <3> HIDE DEF Bad
    <3> QED BY <1>1, <3>1, First
  <2>2. PICK m \in Bad : \A j \in Bad : m <= j
    BY <2>1
  <2>3. m \in Nat /\ ~Has(m)
    OBVIOUS
  <2>4. m # 0
    <3>1. Joins([i \in 1 .. 0 |-> 0], s, 0)
      BY DEF Joins
    <3>2. Has(0)
      BY <3>1
    <3> HIDE DEF Has
    <3> QED BY <2>3, <3>2
  <2>5. m - 1 \in Nat /\ m - 1 \notin Bad
    <3> HIDE DEF Bad
    <3> QED BY <2>2, <2>3, <2>4
  <2>6. PICK f : Joins(f, s, m - 1)
    BY <2>5
  <2>7. Joins(OneMore(f, m - 1, s[m - 1 + 1]), s, m - 1 + 1)
    <3> HIDE DEF Has, Bad
    <3> QED BY <2>5, <2>6, JoinsMore
  <2>8. m - 1 + 1 = m
    BY <2>3
  <2>9. Has(m - 1 + 1)
    BY <2>7, Zenon
  <2>10. Has(m)
    <3> HIDE DEF Has
    <3> QED BY <2>8, <2>9
  <2> QED BY <2>3, <2>10
<1>2. n \notin Bad
  BY <1>1
<1> QED BY <1>2

(* FlattenSeq(s) is the last value of any function that joins s.           *)
LEMMA Flattens ==
  ASSUME NEW s, Len(s) \in Nat \ {0}, NEW f, Joins(f, s, Len(s))
  PROVE  FlattenSeq(s) = f[Len(s)]
<1> DEFINE n == Len(s)
           Flat(g) == g = [i \in 1 .. n |-> IF i = 1 THEN s[i] ELSE g[i - 1] \o s[i]]
           h == CHOOSE g : Flat(g)
<1>1. FlattenSeq(s) = h[n]
  BY DEF FlattenSeq
<1>2. Flat(h)
  BY Zenon DEF Joins
<1> HIDE DEF h
<1>3. Joins(h, s, n)
  BY ONLY <1>2, Zenon DEF Joins
<1>5. n \in Nat /\ n \in 1 .. n
  BY ONLY Len(s) \in Nat \ {0}
<1>4. Joins(f, s, n)
  OBVIOUS
<1> HIDE DEF n
<1>6. h[n] = f[n]
  BY ONLY <1>3, <1>4, <1>5, Same
<1> QED BY ONLY <1>1, <1>6 DEF n

(* What FlattenSeq returns for an empty sequence, and for one more element.*)
LEMMA FlatNone ==
  FlattenSeq(<<>>) = <<>>
BY DEF FlattenSeq

LEMMA FlatMore ==
  ASSUME NEW S, NEW s \in Seq(Seq(S)), NEW x \in Seq(S)
  PROVE  /\ FlattenSeq(s) \in Seq(S)
         /\ FlattenSeq(Append(s, x)) = FlattenSeq(s) \o x
<1> DEFINE n == Len(s)
           t == Append(s, x)
<1>1. /\ n \in Nat /\ Len(t) = n + 1 /\ t[n + 1] = x
      /\ \A i \in 1 .. n : t[i] = s[i] /\ s[i] \in Seq(S)
  OBVIOUS
<1>2. PICK f : Joins(f, s, n)
  BY <1>1, Joined
<1>3. \A i \in 1 .. n : f[i] = IF i = 1 THEN s[i] ELSE f[i - 1] \o s[i]
  BY <1>2, Zenon DEF Joins
<1>4. \A i \in 1 .. n : f[i] \in Seq(S)
  <2> DEFINE Bad == {i \in 1 .. n : f[i] \notin Seq(S)}
  <2>1. ASSUME Bad # {} PROVE FALSE
    <3>1. Bad \subseteq Nat
      BY ONLY <1>1
    <3>2. \E i \in Bad : \A j \in Bad : i <= j
      <4> HIDE DEF Bad
      <4> QED BY <2>1, <3>1, First
    <3>3. PICK i \in Bad : \A j \in Bad : i <= j
      BY <3>2
    <3>4. i \in 1 .. n /\ f[i] \notin Seq(S)
      BY ONLY <3>3
    <3> HIDE DEF n
    <3>5. i # 1 => i - 1 \in 1 .. n /\ ~(i <= i - 1)
      BY ONLY <1>1, <3>4
    <3>6. i # 1 => f[i - 1] \in Seq(S)
      BY <3>3, <3>5
    <3>7. s[i] \in Seq(S)
      BY <1>1, <3>4
    <3>8. i # 1 => f[i - 1] \o s[i] \in Seq(S)
      BY ONLY <3>6, <3>7
    <3> QED BY ONLY <1>3, <3>4, <3>7, <3>8
  <2> QED BY <2>1
<1>5. Joins(OneMore(f, n, x), t, n + 1)
  <2> HIDE DEF n, t
  <2> QED BY <1>1, <1>2, JoinsMore
<1>6. FlattenSeq(t) = OneMore(f, n, x)[n + 1]
  <2> HIDE DEF n, t
  <2>1. Len(t) \in Nat \ {0} /\ Joins(OneMore(f, n, x), t, Len(t))
    BY <1>1, <1>5
  <2> QED BY <1>1, <2>1, Flattens
<1>7. OneMore(f, n, x)[n + 1] = IF n = 0 THEN x ELSE f[n] \o x
  BY <1>1 DEF OneMore
<1>8. CASE n = 0
  <2>1. s = <<>> /\ <<>> \o x = x /\ <<>> \in Seq(S)
    BY <1>8
  <2>2. FlattenSeq(t) = x
    BY ONLY <1>6, <1>7, <1>8
  <2> HIDE DEF n, t
  <2>3. FlattenSeq(s) = <<>>
    BY ONLY <2>1, FlatNone
  <2> QED BY ONLY <2>1, <2>2, <2>3 DEF t
<1>9. CASE n # 0
  <2>1. FlattenSeq(s) = f[n]
    <3>1. Len(s) \in Nat \ {0} /\ Joins(f, s, Len(s))
      BY <1>2, <1>9
    <3> QED BY <3>1, Flattens
  <2>2. f[n] \in Seq(S)
    BY <1>1, <1>4, <1>9
  <2> QED BY <1>6, <1>7, <1>9, <2>1, <2>2
<1> QED BY <1>8, <1>9

-----------------------------------------------------------------------------
(* Objects, and the types of the variables.                                *)

Attrs == UNION {Row[cls].attrs : cls \in DOMAIN Row}
Tags == (UNION {DOMAIN Row[cls].kids : cls \in DOMAIN Row}) \cup {NoTag}
Pieces == [n : Nat, kind : Kinds \cup {"none", "break"}]
Items == [tag : Tags, text : Pieces, obj : Nat]
Objs ==
  UNION {[cls : {cls}, attrs : SUBSET Attrs,
          fields : [DOMAIN Row[cls].kids -> Seq(Nat)],
          content : Seq(Items), value : Seq(Pieces)] : cls \in DOMAIN Row}

Ids == 1 .. Len(heap)
Depth == 1 .. Len(stack)
Again == phase \in {"rereading", "reread", "malformed"}

Types ==
  /\ phase \in {"reading", "read"} \/ Again
  /\ heap \in Seq(Objs) /\ Len(heap) > 0
  /\ stack \in Seq([tag : Tags, obj : Nat, place : Places \cup {Outside}])
  /\ Len(stack) > 0
  /\ nodes \in Nat
  /\ writing \in Seq([of : Int, left : Objs, raw : BOOLEAN])
  /\ copyOf \in Seq(Int) /\ Len(copyOf) = Len(heap)
  /\ shown \in Seq(Pieces)

(* The parts of an object; and two objects with the same parts.            *)
LEMMA Parts ==
  ASSUME NEW o \in Objs
  PROVE  /\ o.cls \in DOMAIN Row
         /\ o.attrs \subseteq Attrs
         /\ o.fields \in [DOMAIN Row[o.cls].kids -> Seq(Nat)]
         /\ o.content \in Seq(Items)
         /\ o.value \in Seq(Pieces)
         /\ o = [cls |-> o.cls, attrs |-> o.attrs, fields |-> o.fields,
                 content |-> o.content, value |-> o.value]
<1>1. PICK cls \in DOMAIN Row :
        o \in [cls : {cls}, attrs : SUBSET Attrs,
              fields : [DOMAIN Row[cls].kids -> Seq(Nat)],
              content : Seq(Items), value : Seq(Pieces)]
  BY Zenon DEF Objs
<1> HIDE DEF Objs
<1> QED BY <1>1

LEMMA MadeOf ==
  ASSUME NEW cls \in DOMAIN Row, NEW attrs \in SUBSET Attrs,
         NEW fields \in [DOMAIN Row[cls].kids -> Seq(Nat)],
         NEW content \in Seq(Items), NEW value \in Seq(Pieces)
  PROVE  [cls |-> cls, attrs |-> attrs, fields |-> fields,
          content |-> content, value |-> value] \in Objs
<1>1. [cls |-> cls, attrs |-> attrs, fields |-> fields, content |-> content,
       value |-> value]
        \in [cls : {cls}, attrs : SUBSET Attrs,
             fields : [DOMAIN Row[cls].kids -> Seq(Nat)],
             content : Seq(Items), value : Seq(Pieces)]
  OBVIOUS
<1> QED BY <1>1, Zenon DEF Objs

LEMMA NewIs ==
  ASSUME NEW cls \in DOMAIN Row
  PROVE  /\ New(cls) \in Objs /\ New(cls).cls = cls /\ New(cls).attrs = {}
         /\ New(cls).content = <<>> /\ New(cls).value = <<>>
         /\ New(cls).fields \in [DOMAIN Row[cls].kids -> {<<>>}]
<1>1. <<>> \in Seq(Items) /\ <<>> \in Seq(Pieces) /\ {} \in SUBSET Attrs
  OBVIOUS
<1>2. [tag \in DOMAIN Row[cls].kids |-> <<>>] \in [DOMAIN Row[cls].kids -> Seq(Nat)]
  OBVIOUS
<1>3. New(cls) \in Objs
  BY <1>1, <1>2, MadeOf, Zenon DEF New
<1> QED BY <1>3 DEF New

(* What Keeps and Takes change of an object.                               *)
LEMMA KeepsIs ==
  ASSUME NEW o \in Objs, NEW tag \in DOMAIN Row[o.cls].kids, NEW kid \in Nat
  PROVE  /\ Keeps(o, tag, kid) \in Objs
         /\ Keeps(o, tag, kid).cls = o.cls
         /\ Keeps(o, tag, kid).attrs = o.attrs
         /\ Keeps(o, tag, kid).value = o.value
         /\ IF Row[o.cls].kids[tag].how = "mixed"
            THEN /\ Keeps(o, tag, kid).fields = o.fields
                 /\ Keeps(o, tag, kid).content = Append(o.content, Held(tag, kid))
            ELSE /\ Keeps(o, tag, kid).content = o.content
                 /\ Keeps(o, tag, kid).fields =
                      [o.fields EXCEPT ![tag] =
                         IF Row[o.cls].kids[tag].how = "one" THEN <<kid>>
                         ELSE Append(o.fields[tag], kid)]
<1> DEFINE k == Keeps(o, tag, kid)
           fs == [o.fields EXCEPT ![tag] =
                    IF Row[o.cls].kids[tag].how = "one" THEN <<kid>>
                    ELSE Append(o.fields[tag], kid)]
           c == Append(o.content, Held(tag, kid))
<1>1. /\ o.cls \in DOMAIN Row /\ o.attrs \in SUBSET Attrs
      /\ o.fields \in [DOMAIN Row[o.cls].kids -> Seq(Nat)]
      /\ o.content \in Seq(Items) /\ o.value \in Seq(Pieces)
      /\ o = [cls |-> o.cls, attrs |-> o.attrs, fields |-> o.fields,
              content |-> o.content, value |-> o.value]
  BY Parts
<1>2. fs \in [DOMAIN Row[o.cls].kids -> Seq(Nat)]
  BY <1>1
<1>3. c \in Seq(Items)
  <2>1. Held(tag, kid) \in Items
    BY <1>1 DEF Held, Items, Tags, Pieces, NoPiece
  <2> QED BY <1>1, <2>1
<1>4. CASE Row[o.cls].kids[tag].how = "mixed"
  <2>1. k = [cls |-> o.cls, attrs |-> o.attrs, fields |-> o.fields,
             content |-> c, value |-> o.value]
    BY <1>1, <1>4 DEF Keeps
  <2>2. k \in Objs
    BY <1>1, <1>3, <2>1, MadeOf, Zenon
  <2> HIDE DEF k
  <2>3. /\ k.cls = o.cls /\ k.attrs = o.attrs /\ k.fields = o.fields
        /\ k.content = c /\ k.value = o.value
    BY ONLY <2>1
  <2> QED BY <1>4, <2>2, <2>3, Zenon DEF k
<1>5. CASE Row[o.cls].kids[tag].how # "mixed"
  <2>1. k = [cls |-> o.cls, attrs |-> o.attrs, fields |-> fs,
             content |-> o.content, value |-> o.value]
    BY <1>1, <1>5 DEF Keeps
  <2> HIDE DEF fs
  <2>2. k \in Objs
    BY <1>1, <1>2, <2>1, MadeOf, Zenon
  <2> HIDE DEF k
  <2>3. /\ k.cls = o.cls /\ k.attrs = o.attrs /\ k.fields = fs
        /\ k.content = o.content /\ k.value = o.value
    BY ONLY <2>1
  <2> QED BY <1>5, <2>2, <2>3, Zenon DEF k, fs
<1> QED BY <1>4, <1>5

In(o, p) == Row[o.cls].text \in {"content", "both"} /\ p.kind # "cdata"
Kept(o, p) == IF o.cls = "Text" /\ p.kind = "cdata" THEN [p EXCEPT !.kind = "plain"]
              ELSE p

LEMMA TakesIs ==
  ASSUME NEW o \in Objs, NEW p \in Pieces
  PROVE  /\ Takes(o, p) \in Objs
         /\ Takes(o, p).cls = o.cls
         /\ Takes(o, p).attrs = o.attrs
         /\ Takes(o, p).fields = o.fields
         /\ Takes(o, p).content =
              IF In(o, p) THEN Append(o.content, Said(p)) ELSE o.content
         /\ Takes(o, p).value =
              IF Row[o.cls].text \in {"value", "both"} THEN Append(o.value, Kept(o, p))
              ELSE o.value
         /\ Kept(o, p) \in Pieces /\ Said(p) \in Items
<1> DEFINE t == Takes(o, p)
           c == IF In(o, p) THEN Append(o.content, Said(p)) ELSE o.content
           v == IF Row[o.cls].text \in {"value", "both"} THEN Append(o.value, Kept(o, p))
                ELSE o.value
<1>1. /\ o.cls \in DOMAIN Row /\ o.attrs \in SUBSET Attrs
      /\ o.fields \in [DOMAIN Row[o.cls].kids -> Seq(Nat)]
      /\ o.content \in Seq(Items) /\ o.value \in Seq(Pieces)
      /\ o = [cls |-> o.cls, attrs |-> o.attrs, fields |-> o.fields,
              content |-> o.content, value |-> o.value]
  BY Parts
<1>2. Kept(o, p) \in Pieces
  BY DEF Kept, Pieces, Kinds
<1>3. Said(p) \in Items
  <2>1. NoTag \in Tags /\ None \in Nat
    BY DEF Tags, None
  <2> QED BY ONLY <2>1, p \in Pieces DEF Said, Items
<1>4. c \in Seq(Items) /\ v \in Seq(Pieces)
  BY <1>1, <1>2, <1>3
<1>5. t = [cls |-> o.cls, attrs |-> o.attrs, fields |-> o.fields, content |-> c,
           value |-> v]
  <2>1. t = [o EXCEPT !.content = c, !.value = v]
    BY Zenon DEF Takes, In, Kept
  <2> HIDE DEF c, v, t
  <2> QED BY ONLY <1>1, <2>1
<1> HIDE DEF c, v
<1>6. t \in Objs
  BY <1>1, <1>4, <1>5, MadeOf, Zenon
<1> HIDE DEF t
<1>7. /\ t \in Objs /\ t.cls = o.cls /\ t.attrs = o.attrs /\ t.fields = o.fields
      /\ t.content = c /\ t.value = v
  BY ONLY <1>5, <1>6
<1> QED BY <1>2, <1>3, <1>7 DEF t, c, v

(* The same for parts that are replaced.                                   *)
LEMMA PutAttrs ==
  ASSUME NEW o \in Objs, NEW attrs \in SUBSET Attrs
  PROVE  LET r == [o EXCEPT !.attrs = attrs]
         IN /\ r \in Objs /\ r.cls = o.cls /\ r.attrs = attrs /\ r.fields = o.fields
            /\ r.content = o.content /\ r.value = o.value
<1> DEFINE r == [o EXCEPT !.attrs = attrs]
<1>1. /\ o.cls \in DOMAIN Row
      /\ o.fields \in [DOMAIN Row[o.cls].kids -> Seq(Nat)]
      /\ o.content \in Seq(Items) /\ o.value \in Seq(Pieces)
      /\ o = [cls |-> o.cls, attrs |-> o.attrs, fields |-> o.fields,
              content |-> o.content, value |-> o.value]
  BY Parts
<1>2. r = [cls |-> o.cls, attrs |-> attrs, fields |-> o.fields,
           content |-> o.content, value |-> o.value]
  BY ONLY <1>1
<1> HIDE DEF r
<1>3. r \in Objs
  BY <1>1, <1>2, MadeOf, Zenon
<1>4. /\ r.cls = o.cls /\ r.attrs = attrs /\ r.fields = o.fields
      /\ r.content = o.content /\ r.value = o.value
  BY ONLY <1>2
<1> QED BY <1>3, <1>4, Zenon DEF r

LEMMA PutFields ==
  ASSUME NEW o \in Objs, NEW fields \in [DOMAIN Row[o.cls].kids -> Seq(Nat)]
  PROVE  LET r == [o EXCEPT !.fields = fields]
         IN /\ r \in Objs /\ r.cls = o.cls /\ r.attrs = o.attrs /\ r.fields = fields
            /\ r.content = o.content /\ r.value = o.value
<1> DEFINE r == [o EXCEPT !.fields = fields]
<1>1. /\ o.cls \in DOMAIN Row /\ o.attrs \in SUBSET Attrs
      /\ o.content \in Seq(Items) /\ o.value \in Seq(Pieces)
      /\ o = [cls |-> o.cls, attrs |-> o.attrs, fields |-> o.fields,
              content |-> o.content, value |-> o.value]
  BY Parts
<1>2. r = [cls |-> o.cls, attrs |-> o.attrs, fields |-> fields,
           content |-> o.content, value |-> o.value]
  BY ONLY <1>1
<1> HIDE DEF r
<1>3. r \in Objs
  BY <1>1, <1>2, MadeOf, Zenon
<1>4. /\ r.cls = o.cls /\ r.attrs = o.attrs /\ r.fields = fields
      /\ r.content = o.content /\ r.value = o.value
  BY ONLY <1>2
<1> QED BY <1>3, <1>4, Zenon DEF r

LEMMA PutTexts ==
  ASSUME NEW o \in Objs, NEW content \in Seq(Items), NEW value \in Seq(Pieces)
  PROVE  LET r == [o EXCEPT !.value = value, !.content = content]
         IN /\ r \in Objs /\ r.cls = o.cls /\ r.attrs = o.attrs /\ r.fields = o.fields
            /\ r.content = content /\ r.value = value
<1> DEFINE r == [o EXCEPT !.value = value, !.content = content]
<1>1. /\ o.cls \in DOMAIN Row /\ o.attrs \in SUBSET Attrs
      /\ o.fields \in [DOMAIN Row[o.cls].kids -> Seq(Nat)]
      /\ o = [cls |-> o.cls, attrs |-> o.attrs, fields |-> o.fields,
              content |-> o.content, value |-> o.value]
  BY Parts
<1>2. r = [cls |-> o.cls, attrs |-> o.attrs, fields |-> o.fields,
           content |-> content, value |-> value]
  <2> DEFINE m == [o EXCEPT !.value = value]
  <2>0. o = [cls |-> o.cls, attrs |-> o.attrs, fields |-> o.fields,
             content |-> o.content, value |-> o.value]
    BY ONLY <1>1
  <2>1. m = [cls |-> o.cls, attrs |-> o.attrs, fields |-> o.fields,
             content |-> o.content, value |-> value]
    BY ONLY <2>0
  <2>2. r = [m EXCEPT !.content = content]
    BY ONLY <1>1
  <2> HIDE DEF m, r
  <2> QED BY ONLY <2>1, <2>2
<1> HIDE DEF r
<1>3. r \in Objs
  BY <1>1, <1>2, MadeOf, Zenon
<1>4. /\ r.cls = o.cls /\ r.attrs = o.attrs /\ r.fields = o.fields
      /\ r.content = content /\ r.value = value
  BY ONLY <1>2
<1> QED BY <1>3, <1>4, Zenon DEF r

-----------------------------------------------------------------------------
(* The inductive invariant.                                                *)

(* The open objects are those of the nested calls of build, the later      *)
(* below the earlier, each of the class its element has there.             *)
Stacked ==
  /\ \A k \in Depth : stack[k].obj \in Ids
  /\ \A j, k \in Depth : j < k => stack[j].obj < stack[k].obj
  /\ \A k \in Depth \ {1} :
       LET above == stack[k - 1]
           kids == Row[heap[above.obj].cls].kids
       IN /\ stack[k].tag \in DOMAIN kids
          /\ heap[stack[k].obj].cls = kids[stack[k].tag].cls
          /\ stack[k].place = Within(above.place, stack[k].tag)
  /\ \A k \in Depth :
       stack[k].place # Outside =>
         /\ stack[k].place \in Places
         /\ heap[stack[k].obj].cls = ClassAt(stack[k].place)

Open(id) == \E k \in Depth : stack[k].obj = id

(* The first of the objects read from what is written.                     *)
Base == IF Again THEN stack[1].obj ELSE Len(heap) + 1

(* kid is a closed object made after id, of the class that tag has there,  *)
(* and read when id was.                                                   *)
IsKid(id, tag, kid) ==
  /\ kid \in Ids /\ id < kid /\ ~Open(kid) /\ (id < Base => kid < Base)
  /\ tag \in DOMAIN Row[heap[id].cls].kids
  /\ heap[kid].cls = Row[heap[id].cls].kids[tag].cls

(* The content_ that a value has which is not a paragraph's.               *)
Piece1(p) == IF p.kind = "cdata" THEN <<>> ELSE <<Said(p)>>
TextOf(value) == FlattenSeq([k \in DOMAIN value |-> Piece1(value[k])])

(* What build can have put into an object.                                 *)
BuiltFields(id) ==
  LET o == heap[id]
      kids == Row[o.cls].kids
  IN \A tag \in DOMAIN kids :
       /\ \A k \in DOMAIN o.fields[tag] : IsKid(id, tag, o.fields[tag][k])
       /\ kids[tag].how = "one" => Len(o.fields[tag]) <= 1
       /\ kids[tag].how = "mixed" => o.fields[tag] = <<>>
BuiltContent(id) ==
  LET o == heap[id]
      kids == Row[o.cls].kids
  IN \A k \in DOMAIN o.content :
       LET item == o.content[k]
       IN IF item.tag = NoTag THEN item = Said(item.text) /\ item.text.kind # "cdata"
          ELSE /\ item = Held(item.tag, item.obj)
               /\ IsKid(id, item.tag, item.obj)
               /\ kids[item.tag].how = "mixed"
BuiltTexts(o) ==
  LET text == Row[o.cls].text
  IN /\ text \in {"none", "value"} => o.content = <<>>
     /\ text \in {"none", "content"} => o.value = <<>>
     /\ text = "both" /\ o.cls # "docParaType" => o.content = TextOf(o.value)
     /\ o.cls = "Text" => \A k \in DOMAIN o.value : o.value[k].kind # "cdata"
Built ==
  \A id \in Ids : BuiltFields(id) /\ BuiltContent(id) /\ BuiltTexts(heap[id])

(* In copyOf and in writing: a copy of an object of the document, or what   *)
(* there is of a compound's title, and what is written of that.            *)
FromOne(of) == of > None
TitleFrom(kid) == IF kid = None THEN None ELSE AsText
TitleText(of) == IF of = None THEN <<>> ELSE <<Repr>>

(* Of these, each that is complete is a copy.                              *)
Copies ==
  \A id \in Ids :
    /\ id < Base => copyOf[id] = None
    /\ id >= Base =>
         /\ copyOf[id] < Base
         /\ ~Open(id) => IF ~FromOne(copyOf[id]) THEN heap[id] = TitleRead(copyOf[id])
                         ELSE IsCopy(heap[copyOf[id]], heap[id])

(* What is left of an object, what has been read of it, and the child that *)
(* is being read are together what there was to write.                     *)
Waits(k, tag) == IF k < Len(stack) /\ stack[k + 1].tag = tag THEN 1 ELSE 0
Below(k) == IF k < Len(stack) THEN 1 ELSE 0

OfFields(k) ==
  LET l == writing[k].left.fields
      c == heap[stack[k].obj].fields
      o == heap[writing[k].of]
  IN \A tag \in DOMAIN Row[o.cls].kids :
       /\ Len(KidsOf(o, tag)) = Len(c[tag]) + Waits(k, tag) + Len(l[tag])
       /\ \A j \in DOMAIN c[tag] : KidIsCopy(o.cls, tag, KidsOf(o, tag)[j], c[tag][j])
       /\ \A j \in DOMAIN l[tag] :
            l[tag][j] = KidsOf(o, tag)[Len(c[tag]) + Waits(k, tag) + j]
       /\ Waits(k, tag) = 1 =>
            copyOf[stack[k + 1].obj] =
              IF TitleOf(o.cls, tag) THEN TitleFrom(KidsOf(o, tag)[Len(c[tag]) + 1])
              ELSE KidsOf(o, tag)[Len(c[tag]) + 1]

ItemIsCopy(item, copy) ==
  /\ copy.tag = item.tag
  /\ copy.text = item.text
  /\ item.tag # NoTag => copyOf[copy.obj] = item.obj

OfContent(k) ==
  LET l == writing[k].left.content
      c == heap[stack[k].obj].content
      o == heap[writing[k].of].content
  IN /\ Len(o) = Len(c) + Below(k) + Len(l)
     /\ \A j \in DOMAIN c : ItemIsCopy(o[j], c[j])
     /\ \A j \in DOMAIN l : l[j] = o[Len(c) + Below(k) + j]
     /\ k < Len(stack) => /\ o[Len(c) + 1].tag = stack[k + 1].tag
                          /\ copyOf[stack[k + 1].obj] = o[Len(c) + 1].obj

NoFields(o) == \A tag \in DOMAIN Row[o.cls].kids : o.fields[tag] = <<>>

OfValue(k) ==
  LET l == writing[k].left
      c == heap[stack[k].obj]
  IN /\ l.content = <<>> /\ NoFields(l) /\ NoFields(c)
     /\ \A j \in DOMAIN c.content : c.content[j].tag = NoTag
     /\ k = Len(stack)

OfSource(k) ==
  LET w == writing[k]
      l == w.left
      c == heap[stack[k].obj]
      o == heap[w.of]
  IN IF ~FromOne(w.of)
     THEN /\ c.cls = "docTitleType" /\ c.attrs = {} /\ l.attrs = {}
          /\ c.value \o l.value = TitleText(w.of)
     ELSE /\ c.cls = o.cls
          /\ c.attrs \cup l.attrs = o.attrs \cup Always(o.cls)
          /\ c.value \o l.value = o.value

WritingOf(k) ==
  LET l == writing[k].left
      c == heap[stack[k].obj]
      text == Row[c.cls].text
  IN /\ copyOf[stack[k].obj] = writing[k].of /\ writing[k].of < Base
     /\ l.cls = c.cls
     /\ OfSource(k)
     /\ text \in {"value", "both"} => OfValue(k)
     /\ text = "none" => OfFields(k) /\ l.content = <<>>
     /\ text = "content" => OfContent(k) /\ NoFields(l)

Lockstep ==
  /\ ~Again => writing = <<>>
  /\ Again => /\ Len(writing) = Len(stack)
              /\ copyOf[stack[1].obj] = 1
              /\ 1 < Base
              /\ \A k \in Depth : WritingOf(k)
  /\ phase = "read" => Len(stack) = 1
  /\ phase = "reread" => Len(stack) = 1 /\ AllWritten

Inv == Types /\ Stacked /\ Built /\ Copies /\ Lockstep

-----------------------------------------------------------------------------
(* Places in the schema.                                                   *)

LEMMA PlaceOfIs ==
  ASSUME NEW cls
  PROVE  /\ PlaceOf(cls) \in Places \cup {Outside}
         /\ PlaceOf(cls) # Outside => ClassAt(PlaceOf(cls)) = cls
<1>1. CASE \E level \in 0 .. 4 : cls = Bodies[level + 1]
  <2> DEFINE level == CHOOSE l \in 0 .. 4 : cls = Bodies[l + 1]
  <2>1. level \in 0 .. 4 /\ cls = Bodies[level + 1]
    BY <1>1
  <2>2. PlaceOf(cls) = [in |-> "body", level |-> level]
    BY <1>1 DEF PlaceOf, Place
  <2> HIDE DEF level
  <2>3. ClassAt([in |-> "body", level |-> level]) = Bodies[level + 1]
    BY DEF ClassAt
  <2>4. [in |-> "body", level |-> level] \in Places
    BY <2>1 DEF Places
  <2> QED BY <2>1, <2>2, <2>3, <2>4
<1>2. CASE ~\E level \in 0 .. 4 : cls = Bodies[level + 1]
  BY <1>2 DEF PlaceOf
<1> QED BY <1>1, <1>2

(* Where an element stands that is in one of the places.                   *)
LEMMA WithinIs ==
  ASSUME NEW place \in Places \cup {Outside}, NEW tag
  PROVE  /\ Within(place, tag) \in Places \cup {Outside}
         /\ place = Outside => Within(place, tag) = Outside
         /\ Within(place, tag) # Outside => (Within(place, tag).in = "para" <=> tag = "para")
<1>1. CASE place = Outside
  BY <1>1 DEF Within, Outside, Place
<1>2. CASE place \in Places
  <2>1. place.level \in 0 .. 4 /\ place.in \in {"body", "internal", "title", "para", "ref"}
    BY <1>2 DEF Places
  <2>2. \A in \in {"body", "internal", "title", "para", "ref"}, level \in 0 .. 4 :
          Place(in, level) \in Places /\ Place(in, level).in = in
    BY DEF Place, Places
  <2>3. place.level < 4 => place.level + 1 \in 0 .. 4
    BY <2>1
  <2>4. CASE place.in \in {"body", "internal"} /\ tag = "para"
    <3>1. Within(place, tag) = Place("para", place.level)
      BY <2>4 DEF Within
    <3> QED BY <2>1, <2>2, <2>4, <3>1, <1>2 DEF Outside, Place, Places
  <2>5. CASE place.in = "body" /\ tag \in {"title", "internal"}
    <3>1. Within(place, tag) = Place(tag, place.level)
      BY <2>5 DEF Within
    <3> QED BY <2>1, <2>2, <2>5, <3>1, <1>2 DEF Outside, Place, Places
  <2>6. CASE /\ place.in \in {"body", "internal"} /\ place.level < 4 /\ tag = Section(place)
             /\ ~(place.in \in {"body", "internal"} /\ tag = "para")
             /\ ~(place.in = "body" /\ tag \in {"title", "internal"})
    <3>1. Within(place, tag) = Place("body", place.level + 1)
      BY <2>6 DEF Within
    <3> QED BY <2>1, <2>2, <2>3, <2>6, <3>1, <1>2 DEF Outside, Place, Places
  <2>7. CASE place.in = "para" /\ tag = "ref"
    <3>1. Within(place, tag) = Place("ref", place.level)
      BY <2>7 DEF Within
    <3> QED BY <2>1, <2>2, <2>7, <3>1, <1>2 DEF Outside, Place, Places
  <2>8. CASE /\ ~(place.in \in {"body", "internal"} /\ tag = "para")
             /\ ~(place.in = "body" /\ tag \in {"title", "internal"})
             /\ ~(place.in \in {"body", "internal"} /\ place.level < 4 /\ tag = Section(place))
             /\ ~(place.in = "para" /\ tag = "ref")
    <3>1. Within(place, tag) = Outside
      BY <2>8 DEF Within
    <3>2. Outside \notin Places
      BY DEF Outside, Place, Places
    <3> QED BY <1>2, <3>1, <3>2
  <2> QED BY <2>4, <2>5, <2>6, <2>7, <2>8
<1> QED BY <1>1, <1>2

-----------------------------------------------------------------------------
(* The first state.                                                        *)

LEMMA One ==
  ASSUME NEW S, NEW x \in S
  PROVE  /\ <<x>> \in Seq(S) /\ Len(<<x>>) = 1 /\ <<x>>[1] = x
         /\ DOMAIN <<x>> = {1} /\ 1 .. Len(<<x>>) = {1}
OBVIOUS

LEMMA Appended ==
  ASSUME NEW S, NEW s \in Seq(S), NEW x \in S
  PROVE  /\ Append(s, x) \in Seq(S) /\ Len(Append(s, x)) = Len(s) + 1
         /\ \A i \in 1 .. Len(s) : Append(s, x)[i] = s[i]
         /\ Append(s, x)[Len(s) + 1] = x
OBVIOUS

LEMMA Headed ==
  ASSUME NEW S, NEW s \in Seq(S), s # <<>>
  PROVE  /\ Head(s) \in S /\ Head(s) = s[1] /\ 1 \in DOMAIN s
         /\ Tail(s) \in Seq(S) /\ Len(s) = Len(Tail(s)) + 1 /\ Len(Tail(s)) \in Nat
         /\ \A i \in 1 .. Len(Tail(s)) : Tail(s)[i] = s[i + 1]
OBVIOUS

LEMMA InitInv == Init => Inv
<1> SUFFICES ASSUME Init PROVE Inv
  OBVIOUS
<1>1. PICK cls \in DOMAIN Row \ {"Text"} :
        heap = <<New(cls)>> /\ stack = <<Begun(NoTag, 1, PlaceOf(cls))>>
  BY Zenon DEF Init
<1>2. /\ New(cls) \in Objs /\ New(cls).cls = cls /\ New(cls).attrs = {}
      /\ New(cls).content = <<>> /\ New(cls).value = <<>>
      /\ New(cls).fields \in [DOMAIN Row[cls].kids -> {<<>>}]
  BY <1>1, NewIs, Zenon
<1>3. /\ phase = "reading" /\ nodes = 0 /\ writing = <<>> /\ copyOf = <<None>>
      /\ shown = <<>> /\ ~Again
  BY DEF Init, Again
<1>4. /\ Len(heap) = 1 /\ heap[1] = New(cls) /\ Ids = {1} /\ DOMAIN heap = {1}
      /\ Len(stack) = 1 /\ stack[1] = Begun(NoTag, 1, PlaceOf(cls)) /\ Depth = {1}
  <2>1. New(cls) \in {New(cls)} /\ Begun(NoTag, 1, PlaceOf(cls)) \in {Begun(NoTag, 1, PlaceOf(cls))}
    OBVIOUS
  <2> QED BY ONLY <1>1, <2>1, One DEF Ids, Depth
<1>5. /\ stack[1].obj = 1 /\ stack[1].place = PlaceOf(cls) /\ stack[1].tag = NoTag
  <2>1. stack[1] = Begun(NoTag, 1, PlaceOf(cls))
    BY <1>4
  <2> QED BY ONLY <2>1 DEF Begun
<1>6. Types
  <2>1. Begun(NoTag, 1, PlaceOf(cls)) \in [tag : Tags, obj : Nat, place : Places \cup {Outside}]
    <3>1. NoTag \in Tags
      BY Zenon DEF Tags
    <3> QED BY <3>1, PlaceOfIs DEF Begun
  <2>2. heap \in Seq(Objs)
    BY <1>1, <1>2, One, Zenon
  <2>3. stack \in Seq([tag : Tags, obj : Nat, place : Places \cup {Outside}])
    BY <1>1, <2>1, One, Zenon
  <2>4. copyOf \in Seq(Int) /\ Len(copyOf) = 1
    BY <1>3 DEF None
  <2>5. /\ writing \in Seq([of : Int, left : Objs, raw : BOOLEAN])
        /\ shown \in Seq(Pieces) /\ nodes \in Nat
    BY <1>3
  <2>6. phase \in {"reading", "read"} \/ Again
    BY <1>3
  <2>7. Len(heap) > 0 /\ Len(stack) > 0 /\ Len(copyOf) = Len(heap)
    BY ONLY <1>4, <2>4
  <2> QED BY <2>2, <2>3, <2>4, <2>5, <2>6, <2>7, Zenon DEF Types
<1>7. Stacked
  <2>1. stack[1].place # Outside =>
          stack[1].place \in Places /\ heap[stack[1].obj].cls = ClassAt(stack[1].place)
    BY <1>2, <1>4, <1>5, PlaceOfIs
  <2> QED BY <1>4, <1>5, <2>1 DEF Stacked
<1>8. Built
  <2>0. /\ heap[1].cls = cls /\ heap[1].content = <<>> /\ heap[1].value = <<>>
        /\ \A tag \in DOMAIN Row[cls].kids : heap[1].fields[tag] = <<>>
    BY <1>2, <1>4
  <2>1. BuiltFields(1)
    BY ONLY <2>0 DEF BuiltFields
  <2>2. BuiltContent(1)
    BY ONLY <2>0 DEF BuiltContent
  <2>3. BuiltTexts(heap[1])
    <3>1. TextOf(<<>>) = <<>>
      <4>1. [k \in DOMAIN <<>> |-> Piece1(<<>>[k])] = <<>>
        OBVIOUS
      <4> QED BY <4>1, FlatNone, Zenon DEF TextOf
    <3> QED BY ONLY <2>0, <3>1 DEF BuiltTexts
  <2> QED BY <1>4, <2>1, <2>2, <2>3 DEF Built
<1>9. Copies
  <2>1. copyOf[1] = None /\ Base = 2
    BY <1>3, <1>4 DEF Base
  <2> QED BY ONLY <1>4, <2>1 DEF Copies
<1>10. Lockstep
  BY <1>3, <1>4 DEF Lockstep
<1> QED BY <1>6, <1>7, <1>8, <1>9, <1>10 DEF Inv

-----------------------------------------------------------------------------
(* What the parts of a step change.                                        *)

Writes == [of : Int, left : Objs, raw : BOOLEAN]

Cur == Last(stack).obj

LEMMA Tops ==
  ASSUME Types, Stacked
  PROVE  /\ Len(stack) \in Nat /\ Len(stack) \in Depth /\ 1 \in Depth
         /\ Last(stack) = stack[Len(stack)] /\ Cur = stack[Len(stack)].obj
         /\ Cur \in Ids /\ Open(Cur) /\ Top = heap[Cur] /\ heap[Cur] \in Objs
         /\ heap[Cur].cls \in DOMAIN Row
         /\ DOMAIN heap = Ids /\ DOMAIN stack = Depth /\ Len(heap) \in Nat
         /\ \A id \in Ids : heap[id] \in Objs /\ heap[id].cls \in DOMAIN Row
         /\ \A k \in Depth : /\ stack[k].tag \in Tags
                             /\ stack[k].place \in Places \cup {Outside}
<1>1. /\ heap \in Seq(Objs)
      /\ stack \in Seq([tag : Tags, obj : Nat, place : Places \cup {Outside}])
      /\ Len(stack) > 0
  BY DEF Types
<1>2. Len(stack) \in Depth /\ 1 \in Depth /\ Len(stack) \in Nat
  BY <1>1 DEF Depth
<1>3. Last(stack) = stack[Len(stack)] /\ Cur = stack[Len(stack)].obj
  BY DEF Last, Cur
<1>4. Cur \in Ids /\ Open(Cur)
  BY <1>2, <1>3 DEF Stacked, Open
<1>5. Top = heap[Cur]
  BY DEF Top, Cur
<1>6. DOMAIN heap = Ids /\ DOMAIN stack = Depth /\ Len(heap) \in Nat
  BY <1>1 DEF Ids, Depth
<1>7. \A id \in Ids : heap[id] \in Objs
  BY <1>1 DEF Ids
<1>8. \A id \in Ids : heap[id].cls \in DOMAIN Row
  BY <1>7, Parts
<1>9. \A k \in Depth : /\ stack[k].tag \in Tags
                       /\ stack[k].place \in Places \cup {Outside}
  <2> DEFINE S == [tag : Tags, obj : Nat, place : Places \cup {Outside}]
  <2>1. \A k \in Depth : stack[k] \in S
    <3>1. stack \in Seq(S)
      BY <1>1
    <3> HIDE DEF S
    <3> QED BY ONLY <3>1 DEF Depth
  <2> QED BY ONLY <2>1
<1> QED BY <1>2, <1>3, <1>4, <1>5, <1>6, <1>7, <1>8, <1>9

(* All the objects but this one, and the number of them, stay.             *)
Alone(id) ==
  /\ heap' \in Seq(Objs) /\ Len(heap') = Len(heap)
  /\ \A i \in Ids : i # id => heap'[i] = heap[i]

LEMMA HeapPut ==
  ASSUME Types, NEW id \in Ids, NEW o \in Objs, heap' = [heap EXCEPT ![id] = o]
  PROVE  Alone(id) /\ heap'[id] = o
<1>1. heap \in Seq(Objs) /\ DOMAIN heap = 1 .. Len(heap) /\ Len(heap) \in Nat
  BY DEF Types
<1>2. heap' \in [1 .. Len(heap) -> Objs]
  BY <1>1 DEF Ids
<1>3. heap' \in Seq(Objs) /\ Len(heap') = Len(heap)
  BY <1>1, <1>2
<1>4. heap'[id] = o /\ \A i \in Ids : i # id => heap'[i] = heap[i]
  BY <1>1 DEF Ids
<1> QED BY <1>3, <1>4 DEF Alone

LEMMA HeapAdd ==
  ASSUME Types, NEW o \in Objs, heap' = Append(heap, o)
  PROVE  /\ heap' \in Seq(Objs) /\ Len(heap') = Len(heap) + 1 /\ heap'[Len(heap) + 1] = o
         /\ \A i \in Ids : heap'[i] = heap[i]
<1>1. heap \in Seq(Objs)
  BY DEF Types
<1> QED BY <1>1 DEF Ids

(* Of the object being written, L is left.                                 *)
Leaving(L) ==
  /\ writing' \in Seq(Writes) /\ Len(writing') = Len(writing)
  /\ \A k \in 1 .. Len(writing) : /\ writing'[k].of = writing[k].of
                                  /\ writing'[k].raw = writing[k].raw
                                  /\ k # Len(writing) => writing'[k] = writing[k]
  /\ writing'[Len(writing)].left = L

LEMMA LeavesIs ==
  ASSUME Types, Len(writing) > 0, NEW L \in Objs, writing' = Leaves(L)
  PROVE  Leaving(L)
<1>1. writing \in Seq(Writes) /\ Len(writing) \in Nat
  BY DEF Types, Writes
<1>2. writing' = [writing EXCEPT ![Len(writing)] = [@ EXCEPT !.left = L]]
  BY DEF Leaves
<1>3. Len(writing) \in 1 .. Len(writing) /\ DOMAIN writing = 1 .. Len(writing)
  BY <1>1
<1> DEFINE w == writing[Len(writing)]
           v == [w EXCEPT !.left = L]
<1>4. w \in Writes
  BY <1>1, <1>3
<1>5. v \in Writes /\ v.of = w.of /\ v.raw = w.raw /\ v.left = L
  BY ONLY <1>4, L \in Objs DEF Writes
<1> HIDE DEF v
<1>6. writing' = [writing EXCEPT ![Len(writing)] = v]
  BY <1>2 DEF v
<1>7. writing' \in [1 .. Len(writing) -> Writes]
  BY ONLY <1>1, <1>3, <1>5, <1>6
<1>8. writing' \in Seq(Writes) /\ Len(writing') = Len(writing)
  BY ONLY <1>1, <1>7
<1>9. /\ writing'[Len(writing)] = v
      /\ \A k \in 1 .. Len(writing) : k # Len(writing) => writing'[k] = writing[k]
  BY ONLY <1>3, <1>6
<1> QED BY ONLY <1>5, <1>8, <1>9 DEF Leaving

(* The object being written.                                               *)
LEMMA Lefts ==
  ASSUME Inv, phase \in {"rereading", "reread"}
  PROVE  /\ Len(writing) = Len(stack) /\ Len(writing) > 0
         /\ writing \in Seq(Writes)
         /\ Last(writing) = writing[Len(stack)] /\ writing[Len(stack)] \in Writes
         /\ Left = writing[Len(stack)].left /\ Left \in Objs
         /\ WritingOf(Len(stack)) /\ Left.cls = Top.cls
<1>1. Again /\ Types /\ Stacked /\ Lockstep
  BY DEF Again, Inv
<1>2. Len(writing) = Len(stack) /\ Len(stack) \in Depth /\ Len(stack) \in Nat
      /\ Top = heap[stack[Len(stack)].obj]
  BY <1>1, Tops DEF Lockstep
<1>3. writing \in Seq(Writes) /\ Len(stack) > 0
  BY <1>1 DEF Types, Writes
<1>4. Last(writing) = writing[Len(stack)] /\ Left = writing[Len(stack)].left
  BY <1>2 DEF Last, Left
<1>5. writing[Len(stack)] \in Writes
  BY <1>2, <1>3
<1>6. writing[Len(stack)].left \in Objs
  BY <1>5 DEF Writes
<1>7. WritingOf(Len(stack))
  BY <1>1, <1>2 DEF Lockstep
<1>8. Left.cls = Top.cls
  BY <1>2, <1>4, <1>7 DEF WritingOf
<1> QED BY <1>2, <1>3, <1>4, <1>5, <1>6, <1>7, <1>8

-----------------------------------------------------------------------------
(* What each action changes, for a state with the invariant.               *)

(* The object that is being built changes, and becomes o; of the one being *)
(* written, if there is one, L is left.                                    *)
Becomes(o, L) ==
  /\ Alone(Cur) /\ heap'[Cur] = o
  /\ IF phase = "reading" THEN writing' = writing ELSE Leaving(L)
  /\ nodes' \in Nat
  /\ UNCHANGED <<phase, stack, copyOf>>

LEMMA AttributeIs ==
  ASSUME Inv, NEW a, Attribute(a)
  PROVE  LET o == [Top EXCEPT !.attrs = Top.attrs \cup {a}]
             L == [Left EXCEPT !.attrs = Left.attrs \ {a}]
         IN /\ phase \in {"reading", "rereading"}
            /\ Becomes(o, L) /\ o \in Objs
            /\ o.cls = Top.cls /\ o.attrs = Top.attrs \cup {a} /\ o.fields = Top.fields
            /\ o.content = Top.content /\ o.value = Top.value
            /\ phase = "rereading" =>
                 /\ a \in Left.attrs /\ L \in Objs
                 /\ L.cls = Left.cls /\ L.attrs = Left.attrs \ {a}
                 /\ L.fields = Left.fields /\ L.content = Left.content
                 /\ L.value = Left.value
            /\ shown' = shown /\ special' = special
<1> DEFINE o == [Top EXCEPT !.attrs = Top.attrs \cup {a}]
           L == [Left EXCEPT !.attrs = Left.attrs \ {a}]
<1>1. Types /\ Stacked /\ nodes \in Nat
  BY DEF Inv, Types
<1>2. /\ Cur \in Ids /\ Top = heap[Cur] /\ Top \in Objs /\ Top.cls \in DOMAIN Row
      /\ Top.attrs \subseteq Attrs
  BY <1>1, Tops, Parts
<1>3. /\ a \in Row[Top.cls].attrs /\ heap' = [heap EXCEPT ![Cur] = o]
      /\ UNCHANGED <<phase, stack, copyOf, shown, special>>
  BY DEF Attribute, Class, NowTop, Cur
<1>4. Top.attrs \cup {a} \in SUBSET Attrs
  BY <1>2, <1>3 DEF Attrs
<1>5. /\ o \in Objs /\ o.cls = Top.cls /\ o.attrs = Top.attrs \cup {a}
      /\ o.fields = Top.fields /\ o.content = Top.content /\ o.value = Top.value
  <2>1. Top \in Objs
    BY <1>2
  <2> QED BY ONLY <1>4, <2>1, PutAttrs, Zenon
<1>6. Alone(Cur) /\ heap'[Cur] = o
  <2> HIDE DEF o
  <2> QED BY <1>1, <1>2, <1>3, <1>5, HeapPut
<1>7. CASE phase = "reading"
  <2>1. writing' = writing /\ nodes' = nodes + 1
    BY <1>7 DEF Attribute, Node
  <2> HIDE DEF o, L
  <2> QED BY <1>1, <1>3, <1>5, <1>6, <1>7, <2>1 DEF Becomes, o, L
<1>8. CASE phase = "rereading"
  <2>1. a \in Left.attrs /\ writing' = Leaves(L) /\ nodes' = nodes
    BY <1>8 DEF Attribute, Node, WritesAttribute
  <2>2. Left \in Objs /\ Len(writing) > 0 /\ Left.attrs \subseteq Attrs
    BY <1>8, Lefts, Parts
  <2>3. Left.attrs \ {a} \in SUBSET Attrs
    BY <2>2
  <2>4. /\ L \in Objs /\ L.cls = Left.cls /\ L.attrs = Left.attrs \ {a}
        /\ L.fields = Left.fields /\ L.content = Left.content /\ L.value = Left.value
    BY <2>2, <2>3, PutAttrs, Zenon
  <2> HIDE DEF o, L
  <2>5. Leaving(L)
    BY <1>1, <2>1, <2>2, <2>4, LeavesIs
  <2> QED BY <1>1, <1>3, <1>5, <1>6, <1>8, <2>1, <2>4, <2>5 DEF Becomes, o, L
<1>9. phase \in {"reading", "rereading"}
  BY DEF Attribute, Node
<1> QED BY <1>7, <1>8, <1>9

(* The text that comes next is that of the element, or of content_.        *)
LEMMA TextIs ==
  ASSUME Inv, NEW p \in Piece, Text(p)
  PROVE  LET o == Takes(Top, p)
             L == [Left EXCEPT
                     !.value = IF Left.value = <<>> THEN Left.value ELSE Tail(Left.value),
                     !.content = IF Left.content = <<>> THEN Left.content
                                 ELSE Tail(Left.content)]
         IN /\ phase \in {"reading", "rereading"}
            /\ Becomes(o, L) /\ p \in Pieces
            /\ phase = "rereading" =>
                 /\ p \in NextText /\ ~Spoils(p) /\ Left.attrs = {} /\ L \in Objs
                 /\ L.cls = Left.cls /\ L.attrs = Left.attrs /\ L.fields = Left.fields
                 /\ L.content = IF Left.content = <<>> THEN Left.content
                                ELSE Tail(Left.content)
                 /\ L.value = IF Left.value = <<>> THEN Left.value ELSE Tail(Left.value)
<1> DEFINE o == Takes(Top, p)
           lv == IF Left.value = <<>> THEN Left.value ELSE Tail(Left.value)
           lc == IF Left.content = <<>> THEN Left.content ELSE Tail(Left.content)
           L == [Left EXCEPT !.value = lv, !.content = lc]
<1>1. Types /\ Stacked /\ nodes \in Nat
  BY DEF Inv, Types
<1>2. /\ Cur \in Ids /\ Top = heap[Cur] /\ Top \in Objs
  BY <1>1, Tops
<1>3. /\ heap' = [heap EXCEPT ![Cur] = o]
      /\ UNCHANGED <<phase, stack, copyOf>>
  BY DEF Text, NowTop, Cur
<1>9. phase \in {"reading", "rereading"}
  BY DEF Text, Node
<1>4. phase = "rereading" =>
        /\ Left \in Objs /\ Left.value \in Seq(Pieces) /\ Left.content \in Seq(Items)
        /\ Len(writing) > 0
  BY Lefts, Parts
<1>5. p \in Pieces
  <2>1. CASE phase = "reading"
    <3>1. p \in [n : {nodes + 1}, kind : Kinds]
      BY <2>1 DEF Piece
    <3> QED BY <1>1, <3>1 DEF Pieces
  <2>2. CASE phase = "rereading"
    <3>1. p \in NextText
      BY <2>2 DEF Text, Node, WritesText
    <3>2. CASE Left.value # <<>> /\ p = Head(Left.value)
      BY <1>4, <2>2, <3>2
    <3>3. CASE Left.content # <<>> /\ p = Head(Left.content).text
      <4>1. Head(Left.content) \in Items
        BY <1>4, <2>2, <3>3
      <4> QED BY <3>3, <4>1 DEF Items
    <3> QED BY <3>1, <3>2, <3>3 DEF NextText
  <2> QED BY <1>9, <2>1, <2>2
<1>6. Alone(Cur) /\ heap'[Cur] = o
  <2>1. o \in Objs
    BY <1>2, <1>5, TakesIs
  <2> HIDE DEF o
  <2> QED BY <1>1, <1>2, <1>3, <2>1, HeapPut
<1>7. CASE phase = "reading"
  <2>1. writing' = writing /\ nodes' = nodes + 1
    BY <1>7 DEF Text, Node
  <2> HIDE DEF o, L
  <2> QED BY <1>1, <1>3, <1>5, <1>6, <1>7, <2>1 DEF Becomes, o, L
<1>8. CASE phase = "rereading"
  <2>1. /\ p \in NextText /\ ~Spoils(p) /\ Left.attrs = {} /\ writing' = Leaves(L)
        /\ nodes' = nodes
    BY <1>8, Zenon DEF Text, Node, WritesText
  <2>2. lv \in Seq(Pieces) /\ lc \in Seq(Items)
    BY <1>4, <1>8
  <2> HIDE DEF lv, lc
  <2>3. /\ L \in Objs /\ L.cls = Left.cls /\ L.attrs = Left.attrs
        /\ L.fields = Left.fields /\ L.content = lc /\ L.value = lv
    <3>1. Left \in Objs
      BY <1>4, <1>8
    <3> DEFINE R(l, c, v) ==
                 LET r == [l EXCEPT !.value = v, !.content = c]
                 IN /\ r \in Objs /\ r.cls = l.cls /\ r.attrs = l.attrs
                    /\ r.fields = l.fields /\ r.content = c /\ r.value = v
    <3>2. \A l \in Objs, c \in Seq(Items), v \in Seq(Pieces) : R(l, c, v)
      BY PutTexts
    <3>3. R(Left, lc, lv)
      <4> HIDE DEF R
      <4> QED BY ONLY <2>2, <3>1, <3>2
    <3> QED BY ONLY <3>3, Zenon
  <2> HIDE DEF o, L
  <2>4. Leaving(L)
    BY <1>1, <1>4, <1>8, <2>1, <2>3, LeavesIs
  <2> QED BY <1>1, <1>3, <1>5, <1>6, <1>8, <2>1, <2>3, <2>4 DEF Becomes, o, L, lv, lc
<1> QED BY <1>7, <1>8, <1>9

(* A title has one child at most, and any other list what there is.        *)
LEMMA KidsAre ==
  ASSUME NEW o \in Objs, NEW tag \in DOMAIN Row[o.cls].kids
  PROVE  /\ o.fields[tag] \in Seq(Nat) /\ KidsOf(o, tag) \in Seq(Nat)
         /\ ~TitleOf(o.cls, tag) => KidsOf(o, tag) = o.fields[tag]
         /\ o.fields[tag] # <<>> => KidsOf(o, tag) = o.fields[tag]
         /\ TitleOf(o.cls, tag) /\ o.fields[tag] = <<>> => KidsOf(o, tag) = <<None>>
<1>1. o.fields[tag] \in Seq(Nat)
  BY Parts
<1>2. <<None>> \in Seq(Nat)
  BY DEF None
<1> QED BY <1>1, <1>2 DEF KidsOf

LEMMA PlainKids ==
  ASSUME NEW o, Row[o.cls].text # "none"
  PROVE  \A tag : KidsOf(o, tag) = o.fields[tag]
BY NamesAssumption DEF KidsOf, TitleOf

(* What export has to write of an object.                                  *)
LEMMA WrittenIs ==
  ASSUME NEW o \in Objs
  PROVE  /\ Written(o) \in Objs /\ Written(o).cls = o.cls
         /\ Written(o).attrs = o.attrs \cup Always(o.cls)
         /\ Written(o).fields = IF Valued(o.cls) THEN New(o.cls).fields
                               ELSE [tag \in DOMAIN o.fields |-> KidsOf(o, tag)]
         /\ Written(o).content = IF Valued(o.cls) THEN <<>> ELSE o.content
         /\ Written(o).value = o.value
<1> DEFINE a == o.attrs \cup Always(o.cls)
           f == IF Valued(o.cls) THEN New(o.cls).fields
                ELSE [tag \in DOMAIN o.fields |-> KidsOf(o, tag)]
           c == IF Valued(o.cls) THEN <<>> ELSE o.content
           r == [cls |-> o.cls, attrs |-> a, fields |-> f, content |-> c,
                 value |-> o.value]
<1>1. /\ o.cls \in DOMAIN Row /\ o.attrs \subseteq Attrs
      /\ o.fields \in [DOMAIN Row[o.cls].kids -> Seq(Nat)]
      /\ o.content \in Seq(Items) /\ o.value \in Seq(Pieces)
      /\ o = [cls |-> o.cls, attrs |-> o.attrs, fields |-> o.fields,
              content |-> o.content, value |-> o.value]
  BY Parts
<1>2. a \in SUBSET Attrs
  <2>1. Always(o.cls) \subseteq Row[o.cls].attrs
    BY DEF Always
  <2>2. Row[o.cls].attrs \subseteq Attrs
    BY <1>1 DEF Attrs
  <2> QED BY <1>1, <2>1, <2>2
<1>3. f \in [DOMAIN Row[o.cls].kids -> Seq(Nat)]
  <2>1. New(o.cls).fields \in [DOMAIN Row[o.cls].kids -> Seq(Nat)]
    BY <1>1, NewIs, Parts
  <2>2. [tag \in DOMAIN o.fields |-> KidsOf(o, tag)] \in [DOMAIN Row[o.cls].kids -> Seq(Nat)]
    BY <1>1, KidsAre
  <2> QED BY <2>1, <2>2
<1>4. c \in Seq(Items)
  BY <1>1
<1>5. Written(o) = r
  <2>1. Written(o) = [o EXCEPT !.attrs = a, !.fields = f, !.content = c]
    BY Zenon DEF Written
  <2>2. o = [cls |-> o.cls, attrs |-> o.attrs, fields |-> o.fields,
             content |-> o.content, value |-> o.value]
    BY <1>1
  <2> HIDE DEF a, f, c
  <2> DEFINE m1 == [o EXCEPT !.attrs = a]
             m2 == [m1 EXCEPT !.fields = f]
             m3 == [m2 EXCEPT !.content = c]
  <2>3. m1 = [cls |-> o.cls, attrs |-> a, fields |-> o.fields,
              content |-> o.content, value |-> o.value]
    BY ONLY <2>2
  <2>4. Written(o) = m3
    BY ONLY <2>1
  <2> HIDE DEF m1
  <2>5. m2 = [cls |-> o.cls, attrs |-> a, fields |-> f,
              content |-> o.content, value |-> o.value]
    BY ONLY <2>3
  <2> HIDE DEF m2
  <2>6. m3 = [cls |-> o.cls, attrs |-> a, fields |-> f, content |-> c,
              value |-> o.value]
    BY ONLY <2>5
  <2> QED BY ONLY <2>4, <2>6 DEF r
<1> HIDE DEF a, f, c
<1>6. r \in Objs
  BY <1>1, <1>2, <1>3, <1>4, MadeOf, Zenon
<1>7. /\ r.cls = o.cls /\ r.attrs = a /\ r.fields = f /\ r.content = c
      /\ r.value = o.value
  BY ONLY Zenon
<1> QED BY ONLY <1>5, <1>6, <1>7 DEF a, f, c

LEMMA AsStringIs ==
  ASSUME NEW kid \in Nat
  PROVE  LET e == AsString(kid)
         IN /\ e \in Writes /\ ~FromOne(e.of) /\ e.of = TitleFrom(kid) /\ e.left \in Objs
            /\ e.left.cls = "docTitleType" /\ e.left.attrs = {}
            /\ e.left.content = <<>> /\ e.left.value = TitleText(e.of)
            /\ NoFields(e.left) /\ e.raw = FALSE
<1>1. "docTitleType" \in DOMAIN Row
  BY NamesAssumption
<1> DEFINE n == New("docTitleType")
           v == IF kid = None THEN <<>> ELSE <<Repr>>
           of == IF kid = None THEN None ELSE AsText
           l == [n EXCEPT !.value = v]
           e == AsString(kid)
<1>2. /\ n \in Objs /\ n.cls = "docTitleType" /\ n.attrs = {} /\ n.content = <<>>
      /\ \A tag \in DOMAIN Row["docTitleType"].kids : n.fields[tag] = <<>>
  BY <1>1, NewIs
<1>3. v \in Seq(Pieces) /\ of \in Int /\ ~FromOne(of) /\ of = TitleFrom(kid)
      /\ v = TitleText(of)
  <2>1. v \in Seq(Pieces)
    <3>1. Repr \in Pieces
      BY DEF Repr, Pieces, Kinds
    <3>2. PICK r \in Pieces : r = Repr
      BY ONLY <3>1
    <3> QED BY ONLY <3>2
  <2>2. of \in Int /\ ~FromOne(of)
    BY DEF None, FromOne, AsText
  <2>3. of = TitleFrom(kid) /\ v = TitleText(of)
    BY DEF None, AsText, TitleFrom, TitleText
  <2> QED BY ONLY <2>1, <2>2, <2>3
<1>4. n = [cls |-> n.cls, attrs |-> n.attrs, fields |-> n.fields,
           content |-> n.content, value |-> n.value]
  BY <1>2, Parts
<1>7. e = [of |-> of, left |-> l, raw |-> FALSE]
  BY DEF AsString
<1> HIDE DEF n, v, of, e
<1>5. l = [cls |-> n.cls, attrs |-> n.attrs, fields |-> n.fields,
           content |-> n.content, value |-> v]
  BY ONLY <1>4
<1>6. l \in Objs
  <2>1. /\ n.cls \in DOMAIN Row /\ n.attrs \in SUBSET Attrs /\ n.content \in Seq(Items)
        /\ n.fields \in [DOMAIN Row[n.cls].kids -> Seq(Nat)]
    BY <1>2, Parts
  <2> HIDE DEF l
  <2> QED BY <1>3, <1>5, <2>1, MadeOf, Zenon
<1> HIDE DEF l
<1>8. /\ l.cls = "docTitleType" /\ l.attrs = {} /\ l.content = <<>>
      /\ l.value = v /\ l.fields = n.fields
  BY ONLY <1>2, <1>5
<1>9. NoFields(l)
  BY ONLY <1>2, <1>8 DEF NoFields
<1>10. e.of = of /\ e.left = l /\ e.raw = FALSE
  BY ONLY <1>7
<1>11. e \in Writes
  BY ONLY <1>3, <1>6, <1>7 DEF Writes
<1> QED BY ONLY <1>3, <1>6, <1>8, <1>9, <1>10, <1>11 DEF e

LEMMA ExportedIs ==
  ASSUME Types, NEW id \in Ids, NEW raw \in BOOLEAN
  PROVE  /\ Exported(id, raw) \in Writes /\ Exported(id, raw).of = id
         /\ Exported(id, raw).left = Written(heap[id]) /\ Exported(id, raw).raw = raw
         /\ Written(heap[id]) \in Objs
<1>1. heap[id] \in Objs /\ id \in Nat
  BY DEF Types, Ids
<1>2. Written(heap[id]) \in Objs
  BY <1>1, WrittenIs
<1> QED BY ONLY <1>1, <1>2, raw \in BOOLEAN DEF Exported, Writes

(* The objects of the document that is written stay while it is read again.*)
LEMMA BaseIs ==
  ASSUME Types, Stacked
  PROVE  /\ Base \in 1 .. Len(heap) + 1
         /\ Again => Base \in Ids
         /\ \A k \in Depth : Again => Base <= stack[k].obj
         /\ \A k \in Depth : ~Again => stack[k].obj < Base
<1>1. /\ Len(heap) \in Nat /\ 1 \in Depth /\ \A k \in Depth : stack[k].obj \in Ids
      /\ \A j, k \in Depth : j < k => stack[j].obj < stack[k].obj
  BY Tops DEF Stacked
<1>2. Depth \subseteq Nat /\ \A k \in Depth : k = 1 \/ 1 < k
  BY DEF Depth, Types
<1> QED BY <1>1, <1>2 DEF Base, Ids

LEMMA IdsAreNat ==
  ASSUME Types
  PROVE  Ids \subseteq Nat
BY DEF Types, Ids

(* The kinds of text that a class can have, and what they leave open.      *)
LEMMA TextKinds ==
  ASSUME NEW cls \in DOMAIN Row
  PROVE  /\ Row[cls].text \in {"none", "content", "value", "both"}
         /\ Valued(cls) <=> Row[cls].text \in {"value", "both"}
         /\ \A tag \in DOMAIN Row[cls].kids :
              /\ tag # NoTag
              /\ Row[cls].kids[tag].cls \in DOMAIN Row
              /\ Row[cls].kids[tag].how \in {"one", "many", "mixed"}
              /\ Row[cls].text = "none" => Row[cls].kids[tag].how # "mixed"
              /\ Row[cls].text = "content" => Row[cls].kids[tag].how = "mixed"
              /\ Row[cls].text \in {"value", "both"} => cls = "docParaType"
BY RowAssumption DEF Valued

(* The element that is written next is the child that comes next.          *)
WritesField(tag) ==
  LET o == heap[writing[Len(stack)].of]
      at == Len(Top.fields[tag]) + 1
      kid == KidsOf(o, tag)[at]
  IN /\ Row[Top.cls].text = "none"
     /\ Left.fields[tag] # <<>> /\ at \in DOMAIN KidsOf(o, tag)
     /\ Head(Left.fields[tag]) = kid /\ kid \in Nat
     /\ ~TitleOf(Top.cls, tag) => IsKid(writing[Len(stack)].of, tag, kid)
     /\ writing' = Append(Leaves([Left EXCEPT !.fields[tag] = Tail(@)]),
                          IF TitleOf(Left.cls, tag) THEN AsString(kid)
                          ELSE Exported(kid, FALSE))

WritesItem(tag) ==
  LET o == heap[writing[Len(stack)].of]
      at == Len(Top.content) + 1
      kid == o.content[at].obj
  IN /\ Row[Top.cls].text = "content"
     /\ Left.content # <<>> /\ at \in DOMAIN o.content
     /\ Head(Left.content) = o.content[at] /\ o.content[at].tag = tag
     /\ IsKid(writing[Len(stack)].of, tag, kid)
     /\ writing' = Append(Leaves([Left EXCEPT !.content = Tail(@)]),
                          Exported(kid, heap[kid].cls = "Text"))

LEMMA WritesElementIs ==
  ASSUME Inv, phase = "rereading", NEW tag \in DOMAIN Row[Top.cls].kids,
         WritesElement(tag)
  PROVE  /\ Left.attrs = {}
         /\ writing[Len(stack)].of \in Ids /\ writing[Len(stack)].of < Base
         /\ heap[writing[Len(stack)].of].cls = Top.cls
         /\ WritesField(tag) \/ WritesItem(tag)
<1> DEFINE n == Len(stack)
           of == writing[n].of
           o == heap[of]
<1>1. Types /\ Stacked /\ Built /\ Again
  BY DEF Inv, Again
<1>2. /\ n \in Depth /\ Top = heap[stack[n].obj] /\ Top \in Objs /\ Top.cls \in DOMAIN Row
      /\ \A id \in Ids : heap[id] \in Objs
  BY <1>1, Tops
<1>3. /\ Left = writing[n].left /\ Left \in Objs /\ WritingOf(n) /\ Left.cls = Top.cls
      /\ writing[n] \in Writes
  BY Lefts
<1>4. /\ tag # NoTag
      /\ Row[Top.cls].text \in {"none", "content", "value", "both"}
      /\ Row[Top.cls].text = "none" => Row[Top.cls].kids[tag].how # "mixed"
      /\ Row[Top.cls].text = "content" => Row[Top.cls].kids[tag].how = "mixed"
  BY <1>2, TextKinds
<1>5. /\ Left.fields \in [DOMAIN Row[Top.cls].kids -> Seq(Nat)]
      /\ Left.content \in Seq(Items)
      /\ Top.fields \in [DOMAIN Row[Top.cls].kids -> Seq(Nat)]
      /\ Top.content \in Seq(Items)
  BY <1>2, <1>3, Parts
<1>6. /\ Left.attrs = {}
      /\ \/ /\ Left.fields[tag] # <<>>
            /\ writing' = Append(Leaves([Left EXCEPT !.fields[tag] = Tail(@)]),
                                 IF TitleOf(Left.cls, tag)
                                 THEN AsString(Head(Left.fields[tag]))
                                 ELSE Exported(Head(Left.fields[tag]), FALSE))
         \/ /\ Left.content # <<>> /\ Head(Left.content).tag = tag
            /\ writing' = Append(Leaves([Left EXCEPT !.content = Tail(@)]),
                                 Exported(Head(Left.content).obj,
                                          heap[Head(Left.content).obj].cls = "Text"))
  BY Zenon DEF WritesElement
<1>7. Row[Top.cls].text \notin {"value", "both"}
  <2>1. ASSUME Row[Top.cls].text \in {"value", "both"} PROVE FALSE
    <3>1. OfValue(n)
      BY <1>2, <1>3, <2>1 DEF WritingOf
    <3>2. Left.content = <<>> /\ Left.fields[tag] = <<>>
      BY <1>3, <3>1 DEF OfValue, NoFields
    <3> QED BY <1>6, <3>2
  <2> QED BY <2>1
<1>8. of \in Ids /\ of < Base /\ o.cls = Top.cls
  <2>1. of < Base /\ OfSource(n) /\ of \in Int
    BY <1>3 DEF WritingOf, Writes
  <2>2. FromOne(of)
    <3>1. ASSUME ~FromOne(of) PROVE FALSE
      <4>1. Top.cls = "docTitleType"
        BY <1>2, <2>1, <3>1 DEF OfSource
      <4> QED BY <1>7, <4>1, NamesAssumption
    <3> QED BY <3>1
  <2>3. Base \in 1 .. Len(heap) + 1 /\ Len(heap) \in Nat
    BY <1>1, BaseIs, Tops
  <2>4. o.cls = Top.cls
    BY <1>2, <2>1, <2>2 DEF OfSource
  <2> QED BY <2>1, <2>2, <2>3, <2>4 DEF Ids, None, FromOne
<1>9. BuiltFields(of) /\ BuiltContent(of) /\ o \in Objs
  BY <1>1, <1>2, <1>8 DEF Built
<1>10. /\ o.fields \in [DOMAIN Row[Top.cls].kids -> Seq(Nat)]
       /\ o.content \in Seq(Items)
  BY <1>8, <1>9, Parts
<1>11. CASE Row[Top.cls].text = "none"
  <2> DEFINE at == Len(Top.fields[tag]) + 1
             l == Left.fields[tag]
             f == KidsOf(o, tag)
  <2>1. OfFields(n) /\ Left.content = <<>>
    BY <1>2, <1>3, <1>11 DEF WritingOf
  <2>2. /\ Left.fields[tag] # <<>>
        /\ writing' = Append(Leaves([Left EXCEPT !.fields[tag] = Tail(@)]),
                             IF TitleOf(Left.cls, tag)
                             THEN AsString(Head(Left.fields[tag]))
                             ELSE Exported(Head(Left.fields[tag]), FALSE))
    BY <1>6, <2>1
  <2>3. Waits(n, tag) = 0
    BY <1>1, Tops DEF Waits
  <2>4. /\ Len(f) = Len(Top.fields[tag]) + 0 + Len(l)
        /\ \A j \in DOMAIN l : l[j] = f[Len(Top.fields[tag]) + 0 + j]
    BY <1>2, <1>3, <1>8, <2>1, <2>3 DEF OfFields
  <2>5. l \in Seq(Nat) /\ f \in Seq(Nat) /\ Len(Top.fields[tag]) \in Nat
    BY <1>5, <1>8, <1>9, KidsAre
  <2>6. at \in DOMAIN f /\ Head(l) = f[at]
    <3> HIDE DEF l, f
    <3>1. Len(l) >= 1 /\ 1 \in DOMAIN l /\ Head(l) = l[1]
      BY <2>2, <2>5 DEF l
    <3> QED BY SMTT(60), <2>4, <2>5, <3>1
  <2>7. f[at] \in Nat
    <3> HIDE DEF at, f
    <3> QED BY ONLY <2>5, <2>6
  <2>8. ASSUME ~TitleOf(Top.cls, tag) PROVE IsKid(of, tag, f[at])
    <3>1. f = o.fields[tag]
      BY <1>8, <1>9, <2>8, KidsAre
    <3> QED BY <1>8, <1>9, <2>6, <3>1 DEF BuiltFields
  <2> QED BY <1>6, <1>8, <1>11, <2>2, <2>6, <2>7, <2>8 DEF WritesField
<1>12. CASE Row[Top.cls].text = "content"
  <2> DEFINE at == Len(Top.content) + 1
             l == Left.content
             c == o.content
  <2>1. OfContent(n) /\ NoFields(Left)
    BY <1>2, <1>3, <1>12 DEF WritingOf
  <2>2. Left.fields[tag] = <<>>
    BY <1>3, <2>1 DEF NoFields
  <2>3. /\ l # <<>> /\ Head(l).tag = tag
        /\ writing' = Append(Leaves([Left EXCEPT !.content = Tail(@)]),
                             Exported(Head(l).obj, heap[Head(l).obj].cls = "Text"))
    BY <1>6, <2>2
  <2>4. Below(n) = 0
    BY <1>1, Tops DEF Below
  <2>5. /\ Len(c) = Len(Top.content) + 0 + Len(l)
        /\ \A j \in DOMAIN l : l[j] = c[Len(Top.content) + 0 + j]
    BY <1>2, <1>3, <2>1, <2>4 DEF OfContent
  <2>6. l \in Seq(Items) /\ c \in Seq(Items) /\ Len(Top.content) \in Nat
    BY <1>5, <1>10
  <2>7. at \in DOMAIN c /\ Head(l) = c[at]
    <3> HIDE DEF l, c
    <3>1. Len(l) >= 1 /\ 1 \in DOMAIN l /\ Head(l) = l[1]
      BY <2>3, <2>6
    <3> QED BY <2>5, <2>6, <3>1
  <2>8. c[at].tag = tag
    BY <2>3, <2>7
  <2>9. IsKid(of, tag, c[at].obj)
    BY <1>4, <1>9, <2>7, <2>8 DEF BuiltContent
  <2> QED BY <1>6, <1>8, <1>12, <2>3, <2>7, <2>8, <2>9 DEF WritesItem
<1> QED BY <1>4, <1>7, <1>11, <1>12

(* L is left, and e is to be written before it.                            *)
Pushes(L, e) ==
  /\ writing' \in Seq(Writes) /\ Len(writing') = Len(writing) + 1
  /\ \A k \in 1 .. Len(writing) : /\ writing'[k].of = writing[k].of
                                  /\ writing'[k].raw = writing[k].raw
                                  /\ k # Len(writing) => writing'[k] = writing[k]
  /\ writing'[Len(writing)].left = L
  /\ writing'[Len(writing) + 1] = e

LEMMA PushesIs ==
  ASSUME Types, Len(writing) > 0, NEW L \in Objs, NEW e \in Writes,
         writing' = Append(Leaves(L), e)
  PROVE  Pushes(L, e)
<1>1. writing \in Seq(Writes) /\ Len(writing) \in Nat
  BY DEF Types, Writes
<1>2. Len(writing) \in 1 .. Len(writing) /\ DOMAIN writing = 1 .. Len(writing)
  BY <1>1
<1> DEFINE m == Len(writing)
           w == writing[m]
           v == [w EXCEPT !.left = L]
           ws == Leaves(L)
<1>3. w \in Writes
  BY <1>1, <1>2
<1>4. v \in Writes /\ v.of = w.of /\ v.raw = w.raw /\ v.left = L
  BY ONLY <1>3, L \in Objs DEF Writes
<1>5. ws = [writing EXCEPT ![m] = v]
  BY DEF Leaves
<1>6. writing' = Append(ws, e)
  OBVIOUS
<1> HIDE DEF v, ws
<1>7. ws \in [1 .. m -> Writes]
  BY ONLY <1>1, <1>2, <1>4, <1>5
<1>8. ws \in Seq(Writes) /\ Len(ws) = m
  BY ONLY <1>1, <1>7
<1>9. ws[m] = v /\ \A k \in 1 .. m : k # m => ws[k] = writing[k]
  BY ONLY <1>1, <1>2, <1>5
<1>10. /\ writing' \in Seq(Writes) /\ Len(writing') = m + 1
       /\ \A k \in 1 .. m : writing'[k] = ws[k]
       /\ writing'[m + 1] = e
  BY ONLY <1>6, <1>8, e \in Writes
<1>11. writing'[m] = v /\ \A k \in 1 .. m : k # m => writing'[k] = writing[k]
  BY ONLY <1>2, <1>9, <1>10
<1> QED BY ONLY <1>4, <1>10, <1>11 DEF Pushes

(* The class of a child; and what a child that is written leaves to write. *)
KidClass(tag) == Row[Top.cls].kids[tag].cls

FieldPush(tag, kid, L, e) ==
  /\ Pushes(L, e)
  /\ L.cls = Left.cls /\ L.attrs = Left.attrs
  /\ L.fields = [Left.fields EXCEPT ![tag] = Tail(Left.fields[tag])]
  /\ L.content = Left.content /\ L.value = Left.value
  /\ kid \in Nat /\ e.left.cls = KidClass(tag)
  /\ IF TitleOf(Top.cls, tag) THEN e = AsString(kid)
     ELSE /\ kid \in Ids /\ kid < Base /\ heap[kid].cls = KidClass(tag)
          /\ e = Exported(kid, FALSE)

LEMMA FieldPushed ==
  ASSUME Inv, phase = "rereading", NEW tag \in DOMAIN Row[Top.cls].kids,
         WritesElement(tag), WritesField(tag), NEW kid,
         kid = KidsOf(heap[writing[Len(stack)].of], tag)[Len(Top.fields[tag]) + 1]
  PROVE  \E L \in Objs, e \in Writes : FieldPush(tag, kid, L, e)
<1> DEFINE e == IF TitleOf(Left.cls, tag) THEN AsString(kid) ELSE Exported(kid, FALSE)
           f == [Left.fields EXCEPT ![tag] = Tail(Left.fields[tag])]
           L == [Left EXCEPT !.fields = f]
<1>1. Types /\ Stacked
  BY DEF Inv
<1>2. /\ Len(writing) = Len(stack) /\ Len(writing) > 0 /\ Left \in Objs
      /\ Left.cls = Top.cls
  BY Lefts
<1>3. Left.fields \in [DOMAIN Row[Top.cls].kids -> Seq(Nat)]
  BY <1>2, Parts
<1>4. /\ Left.fields[tag] # <<>>
      /\ kid \in Nat
      /\ ~TitleOf(Top.cls, tag) => IsKid(writing[Len(stack)].of, tag, kid)
      /\ writing' = Append(Leaves([Left EXCEPT !.fields[tag] = Tail(@)]), e)
  BY Zenon DEF WritesField
<1>5. /\ heap[writing[Len(stack)].of].cls = Top.cls
      /\ writing[Len(stack)].of < Base
  BY WritesElementIs
<1>6. ~TitleOf(Top.cls, tag) =>
        /\ kid \in Ids /\ kid < Base /\ heap[kid].cls = KidClass(tag)
        /\ heap[kid] \in Objs
  BY <1>1, <1>4, <1>5, Tops DEF IsKid, KidClass
<1>7. e \in Writes /\ e.left.cls = KidClass(tag)
  <2>1. CASE TitleOf(Left.cls, tag)
    <3>1. KidClass(tag) = "docTitleType"
      BY <1>2, <2>1, NamesAssumption DEF TitleOf, KidClass
    <3> QED BY <1>4, <2>1, <3>1, AsStringIs
  <2>2. CASE ~TitleOf(Left.cls, tag)
    <3>1. /\ kid \in Ids /\ heap[kid].cls = KidClass(tag) /\ heap[kid] \in Objs
          /\ e = Exported(kid, FALSE)
      BY <1>2, <1>6, <2>2
    <3>2. e \in Writes /\ e.left = Written(heap[kid])
      BY <1>1, <3>1, ExportedIs
    <3>3. Written(heap[kid]).cls = heap[kid].cls
      BY ONLY <3>1, WrittenIs
    <3> QED BY ONLY <3>1, <3>2, <3>3
  <2> QED BY <2>1, <2>2
<1>8. f \in [DOMAIN Row[Left.cls].kids -> Seq(Nat)]
  <2>1. Left.fields[tag] \in Seq(Nat)
    BY ONLY <1>3, tag \in DOMAIN Row[Top.cls].kids
  <2>2. Tail(Left.fields[tag]) \in Seq(Nat)
    BY ONLY <1>4, <2>1, Headed
  <2> QED BY ONLY <1>2, <1>3, <2>2
<1>9. IF TitleOf(Top.cls, tag) THEN e = AsString(kid) ELSE e = Exported(kid, FALSE)
  BY <1>2
<1>10. [Left EXCEPT !.fields[tag] = Tail(@)] = L
  BY <1>2, Parts
<1> HIDE DEF e, f
<1>11. /\ L \in Objs /\ L.cls = Left.cls /\ L.attrs = Left.attrs /\ L.fields = f
       /\ L.content = Left.content /\ L.value = Left.value
  BY <1>2, <1>8, PutFields, Zenon
<1> HIDE DEF L
<1>12. Pushes(L, e)
  BY <1>1, <1>2, <1>4, <1>7, <1>10, <1>11, PushesIs
<1>13. f = [Left.fields EXCEPT ![tag] = Tail(Left.fields[tag])]
  BY DEF f
<1> QED BY ONLY <1>4, <1>6, <1>7, <1>9, <1>11, <1>12, <1>13, Zenon DEF FieldPush

ItemPush(tag, kid, L, e) ==
  /\ Pushes(L, e)
  /\ L.cls = Left.cls /\ L.attrs = Left.attrs /\ L.fields = Left.fields
  /\ L.content = Tail(Left.content) /\ L.value = Left.value
  /\ kid \in Ids /\ kid < Base /\ heap[kid].cls = KidClass(tag)
  /\ e.left.cls = KidClass(tag)
  /\ e = Exported(kid, heap[kid].cls = "Text")

LEMMA ItemPushed ==
  ASSUME Inv, phase = "rereading", NEW tag \in DOMAIN Row[Top.cls].kids,
         WritesElement(tag), WritesItem(tag), NEW kid,
         kid = heap[writing[Len(stack)].of].content[Len(Top.content) + 1].obj
  PROVE  \E L \in Objs, e \in Writes : ItemPush(tag, kid, L, e)
<1> DEFINE raw == heap[kid].cls = "Text"
           e == Exported(kid, raw)
           c == Tail(Left.content)
           L == [Left EXCEPT !.content = c]
<1>1. Types /\ Stacked
  BY DEF Inv
<1>2. /\ Len(writing) = Len(stack) /\ Len(writing) > 0 /\ Left \in Objs
      /\ Left.cls = Top.cls
  BY Lefts
<1>3. /\ Left.content # <<>>
      /\ IsKid(writing[Len(stack)].of, tag, kid)
      /\ writing' = Append(Leaves([Left EXCEPT !.content = c]), e)
  BY Zenon DEF WritesItem
<1>4. /\ heap[writing[Len(stack)].of].cls = Top.cls
      /\ writing[Len(stack)].of < Base
  BY WritesElementIs
<1>5. /\ kid \in Ids /\ kid < Base /\ heap[kid].cls = KidClass(tag)
      /\ heap[kid] \in Objs
  BY <1>1, <1>3, <1>4, Tops DEF IsKid, KidClass
<1>6. e \in Writes /\ e.left.cls = KidClass(tag)
  <2>1. raw \in BOOLEAN
    OBVIOUS
  <2> HIDE DEF raw
  <2> QED BY <1>1, <1>5, <2>1, ExportedIs, WrittenIs DEF e
<1>7. c \in Seq(Items)
  <2>1. Left.content \in Seq(Items)
    BY <1>2, Parts
  <2> QED BY ONLY <1>3, <2>1, Headed
<1>8. e = Exported(kid, heap[kid].cls = "Text") /\ c = Tail(Left.content)
  OBVIOUS
<1> HIDE DEF e, c
<1>9. /\ L \in Objs /\ L.cls = Left.cls /\ L.attrs = Left.attrs /\ L.fields = Left.fields
      /\ L.content = c /\ L.value = Left.value
  <2>1. /\ Left.cls \in DOMAIN Row /\ Left.attrs \in SUBSET Attrs
        /\ Left.fields \in [DOMAIN Row[Left.cls].kids -> Seq(Nat)]
        /\ Left.value \in Seq(Pieces)
    BY <1>2, Parts
  <2>2. Left = [cls |-> Left.cls, attrs |-> Left.attrs, fields |-> Left.fields,
                content |-> Left.content, value |-> Left.value]
    BY <1>2, Parts
  <2>3. L = [cls |-> Left.cls, attrs |-> Left.attrs, fields |-> Left.fields,
             content |-> c, value |-> Left.value]
    BY ONLY <2>2
  <2> HIDE DEF L
  <2>4. L \in Objs
    BY <1>7, <2>1, <2>3, MadeOf, Zenon
  <2>5. /\ L.cls = Left.cls /\ L.attrs = Left.attrs /\ L.fields = Left.fields
        /\ L.content = c /\ L.value = Left.value
    BY ONLY <2>3
  <2> QED BY <2>4, <2>5
<1>10. writing' = Append(Leaves(L), e)
  BY <1>3
<1> HIDE DEF L
<1>11. Pushes(L, e)
  BY <1>1, <1>2, <1>6, <1>9, <1>10, PushesIs
<1> QED BY ONLY <1>5, <1>6, <1>8, <1>9, <1>11, Zenon DEF ItemPush

LEMMA ElementIs ==
  ASSUME Inv, NEW tag, Element(tag)
  PROVE  /\ phase \in {"reading", "rereading"}
         /\ tag \in DOMAIN Row[Top.cls].kids /\ KidClass(tag) \in DOMAIN Row
         /\ heap' \in Seq(Objs) /\ Len(heap') = Len(heap) + 1
         /\ heap'[Len(heap) + 1] = New(KidClass(tag))
         /\ \A i \in Ids : heap'[i] = heap[i]
         /\ Len(stack') = Len(stack) + 1 /\ \A k \in Depth : stack'[k] = stack[k]
         /\ stack' \in Seq([tag : Tags, obj : Nat, place : Places \cup {Outside}])
         /\ stack'[Len(stack) + 1].tag = tag
         /\ stack'[Len(stack) + 1].obj = Len(heap) + 1
         /\ stack'[Len(stack) + 1].place = Within(Last(stack).place, tag)
         /\ copyOf' \in Seq(Int) /\ Len(copyOf') = Len(heap) + 1
         /\ \A i \in Ids : copyOf'[i] = copyOf[i]
         /\ phase = "reading" => writing' = writing /\ copyOf'[Len(heap) + 1] = None
         /\ phase = "rereading" =>
              /\ WritesElement(tag)
              /\ writing' \in Seq(Writes)
              /\ Len(writing') = Len(stack) + 1
              /\ copyOf'[Len(heap) + 1] = writing'[Len(stack) + 1].of
              /\ writing'[Len(stack) + 1].left.cls = KidClass(tag)
         /\ nodes' \in Nat
         /\ UNCHANGED <<phase, shown, special>>
<1>1. Types /\ Stacked /\ nodes \in Nat /\ copyOf \in Seq(Int) /\ Len(copyOf) = Len(heap)
  BY DEF Inv, Types
<1>2. /\ tag \in DOMAIN Row[Top.cls].kids
      /\ heap' = Append(heap, New(KidClass(tag)))
      /\ stack' = Append(stack, Begun(tag, Len(heap) + 1, Within(Last(stack).place, tag)))
      /\ copyOf' = Append(copyOf, IF phase = "reading" THEN None ELSE Last(writing').of)
      /\ UNCHANGED <<phase, shown, special>>
      /\ phase \in {"reading", "rereading"}
  BY DEF Element, Class, KidClass, Node
<1>3. /\ Top.cls \in DOMAIN Row /\ Len(stack) \in Nat /\ Len(heap) \in Nat
      /\ Len(stack) \in Depth
      /\ Last(stack) = stack[Len(stack)]
      /\ Last(stack).place \in Places \cup {Outside} /\ Top = heap[Cur] /\ Cur \in Ids
  BY <1>1, Tops
<1>4. KidClass(tag) \in DOMAIN Row
  BY <1>2, <1>3, TextKinds DEF KidClass
<1>5. /\ heap' \in Seq(Objs) /\ Len(heap') = Len(heap) + 1
      /\ heap'[Len(heap) + 1] = New(KidClass(tag))
      /\ \A i \in Ids : heap'[i] = heap[i]
  BY <1>1, <1>2, <1>4, NewIs, HeapAdd
<1>6. /\ Len(stack') = Len(stack) + 1 /\ \A k \in Depth : stack'[k] = stack[k]
      /\ stack' \in Seq([tag : Tags, obj : Nat, place : Places \cup {Outside}])
      /\ stack'[Len(stack) + 1].tag = tag
      /\ stack'[Len(stack) + 1].obj = Len(heap) + 1
      /\ stack'[Len(stack) + 1].place = Within(Last(stack).place, tag)
  <2> DEFINE S == [tag : Tags, obj : Nat, place : Places \cup {Outside}]
             b == Begun(tag, Len(heap) + 1, Within(Last(stack).place, tag))
  <2>1. tag \in Tags
    BY <1>2, <1>3, Zenon DEF Tags
  <2>2. Within(Last(stack).place, tag) \in Places \cup {Outside}
    BY <1>3, WithinIs
  <2>3. /\ b \in S /\ b.tag = tag /\ b.obj = Len(heap) + 1
        /\ b.place = Within(Last(stack).place, tag)
    BY ONLY <1>3, <2>1, <2>2 DEF Begun
  <2>4. stack \in Seq(S)
    BY <1>1 DEF Types
  <2> HIDE DEF S, b
  <2>5. /\ stack' \in Seq(S) /\ Len(stack') = Len(stack) + 1
        /\ \A k \in Depth : stack'[k] = stack[k]
        /\ stack'[Len(stack) + 1] = b
    BY <1>2, <2>3, <2>4 DEF Depth, b
  <2> QED BY ONLY <2>3, <2>5 DEF S
<1>7. CASE phase = "reading"
  <2>1. writing' = writing /\ nodes' = nodes + 1
    BY <1>7 DEF Element, Node
  <2>2. copyOf' = Append(copyOf, None) /\ None \in Int
    BY <1>2, <1>7 DEF None
  <2>3. /\ copyOf' \in Seq(Int) /\ Len(copyOf') = Len(heap) + 1
        /\ \A i \in Ids : copyOf'[i] = copyOf[i]
        /\ copyOf'[Len(heap) + 1] = None
    <3>1. copyOf \in Seq(Int) /\ Len(copyOf) = Len(heap)
      BY <1>1
    <3> QED BY ONLY <2>2, <3>1, Appended DEF Ids
  <2>4. nodes' \in Nat
    BY ONLY <1>1, <2>1
  <2>5. phase # "rereading"
    BY ONLY <1>7
  <2> QED BY ONLY <1>2, <1>4, <1>5, <1>6, <1>7, <2>1, <2>3, <2>4, <2>5, Zenon
<1>8. CASE phase = "rereading"
  <2>1. WritesElement(tag) /\ nodes' = nodes
    BY <1>8 DEF Element, Node
  <2>2. /\ Len(writing) = Len(stack) /\ Len(writing) > 0 /\ Left \in Objs
        /\ Left.cls = Top.cls
    BY <1>8, Lefts
  <2>3. /\ Left.fields \in [DOMAIN Row[Top.cls].kids -> Seq(Nat)]
        /\ Left.content \in Seq(Items)
    BY <2>2, Parts
  <2>4. WritesField(tag) \/ WritesItem(tag)
    BY <1>2, <1>8, <2>1, WritesElementIs
  <2>5. \E L \in Objs, e \in Writes : Pushes(L, e) /\ e.left.cls = KidClass(tag)
    <3>1. CASE WritesField(tag)
      BY ZenonT(60), <1>2, <1>8, <2>1, <3>1, FieldPushed DEF FieldPush
    <3>2. CASE WritesItem(tag)
      BY <1>2, <1>8, <2>1, <3>2, ItemPushed DEF ItemPush
    <3> QED BY <2>4, <3>1, <3>2
  <2>6. PICK L \in Objs, e \in Writes : Pushes(L, e) /\ e.left.cls = KidClass(tag)
    BY <2>5
  <2>7. Pushes(L, e)
    BY <2>6
  <2>8. /\ writing' \in Seq(Writes) /\ Len(writing') = Len(stack) + 1
        /\ writing'[Len(stack) + 1] = e
    BY <2>2, <2>7 DEF Pushes
  <2>9. Last(writing').of = e.of /\ e.of \in Int
    BY <2>8 DEF Last, Writes
  <2>10. copyOf' = Append(copyOf, e.of)
    BY <1>2, <1>8, <2>9
  <2>11. /\ copyOf' \in Seq(Int) /\ Len(copyOf') = Len(heap) + 1
         /\ \A i \in Ids : copyOf'[i] = copyOf[i]
         /\ copyOf'[Len(heap) + 1] = e.of
    <3>1. copyOf \in Seq(Int) /\ Len(copyOf) = Len(heap) /\ e.of \in Int
      BY <1>1, <2>9
    <3> QED BY ONLY <2>10, <3>1, Appended DEF Ids
  <2>12. nodes' \in Nat
    BY ONLY <1>1, <2>1
  <2>13. phase # "reading"
    BY ONLY <1>8
  <2>14. /\ copyOf'[Len(heap) + 1] = writing'[Len(stack) + 1].of
         /\ writing'[Len(stack) + 1].left.cls = KidClass(tag)
    BY ONLY <2>6, <2>8, <2>11
  <2> QED BY ONLY <1>2, <1>4, <1>5, <1>6, <1>8, <2>1, <2>8, <2>11, <2>12, <2>13, <2>14,
               Zenon
<1> QED BY <1>2, <1>7, <1>8

Frames == [tag : Tags, obj : Nat, place : Places \cup {Outside}]

LEMMA Fronted ==
  ASSUME NEW S, NEW s \in Seq(S), Len(s) > 0
  PROVE  /\ Front(s) \in Seq(S) /\ Len(Front(s)) = Len(s) - 1
         /\ \A i \in 1 .. Len(s) - 1 : Front(s)[i] = s[i]
<1>1. Front(s) = [i \in 1 .. Len(s) - 1 |-> s[i]]
  BY DEF Front
<1>2. Len(s) - 1 \in Nat /\ \A i \in 1 .. Len(s) - 1 : s[i] \in S
  OBVIOUS
<1>3. Front(s) \in [1 .. Len(s) - 1 -> S]
  BY ONLY <1>1, <1>2
<1> QED BY ONLY <1>1, <1>2, <1>3

LEMMA EndElementIs ==
  ASSUME Inv, EndElement
  PROVE  LET n == Len(stack)
             into == stack[n - 1].obj
             tag == stack[n].tag
             kid == stack[n].obj
         IN /\ phase \in {"reading", "rereading"}
            /\ n \in Nat /\ n > 1 /\ n \in Depth /\ n - 1 \in Depth /\ n # 1
            /\ into \in Ids /\ kid \in Ids /\ into < kid /\ heap[into] \in Objs
            /\ tag \in DOMAIN Row[heap[into].cls].kids
            /\ heap[kid].cls = Row[heap[into].cls].kids[tag].cls
            /\ Alone(into) /\ heap'[into] = Keeps(heap[into], tag, kid)
            /\ stack' \in Seq(Frames) /\ Len(stack') = n - 1
            /\ \A k \in 1 .. n - 1 : stack'[k] = stack[k]
            /\ phase = "reading" => writing' = writing
            /\ phase = "rereading" =>
                 /\ AllWritten /\ writing' \in Seq(Writes) /\ Len(writing') = n - 1
                 /\ \A k \in 1 .. n - 1 : writing'[k] = writing[k]
            /\ shown' = IF Last(stack).place.in = "para" THEN Append(shown, Break)
                        ELSE shown
            /\ UNCHANGED <<phase, nodes, copyOf, special>>
<1> DEFINE n == Len(stack)
           into == stack[n - 1].obj
           tag == stack[n].tag
           kid == stack[n].obj
<1>1. Types /\ Stacked /\ stack \in Seq(Frames)
  BY DEF Inv, Types, Frames
<1>2. /\ n > 1 /\ stack' = Front(stack)
      /\ heap' = [heap EXCEPT ![Last(Front(stack)).obj] =
                    Keeps(@, Last(stack).tag, Last(stack).obj)]
      /\ shown' = IF Last(stack).place.in = "para" THEN Append(shown, Break) ELSE shown
      /\ UNCHANGED <<phase, nodes, copyOf, special>>
      /\ phase \in {"reading", "rereading"}
  BY DEF EndElement
<1>3. n \in Nat /\ n \in Depth /\ n - 1 \in Depth /\ n # 1 /\ n - 1 < n
      /\ Last(stack) = stack[n]
  BY <1>1, <1>2, Tops DEF Depth
<1>4. /\ stack' \in Seq(Frames) /\ Len(stack') = n - 1
      /\ \A k \in 1 .. n - 1 : stack'[k] = stack[k]
  BY <1>1, <1>2, Fronted
<1>5. Last(Front(stack)) = stack[n - 1]
  <2>1. n - 1 \in 1 .. n - 1
    BY ONLY <1>2, <1>3
  <2> QED BY <1>2, <1>4, <2>1 DEF Last
<1>6. /\ into \in Ids /\ kid \in Ids /\ into < kid
      /\ tag \in DOMAIN Row[heap[into].cls].kids
      /\ heap[kid].cls = Row[heap[into].cls].kids[tag].cls
  BY <1>1, <1>3 DEF Stacked
<1>7. heap[into] \in Objs /\ kid \in Nat
  <2>1. \A id \in Ids : heap[id] \in Objs
    BY <1>1, Tops
  <2>2. Ids \subseteq Nat
    BY <1>1, IdsAreNat
  <2> QED BY ONLY <1>6, <2>1, <2>2
<1>8. Alone(into) /\ heap'[into] = Keeps(heap[into], tag, kid)
  <2>1. Keeps(heap[into], tag, kid) \in Objs
    BY <1>6, <1>7, KeepsIs
  <2>2. heap' = [heap EXCEPT ![into] = Keeps(heap[into], tag, kid)]
    BY <1>2, <1>3, <1>5
  <2> HIDE DEF into, tag, kid
  <2> QED BY <1>1, <1>6, <2>1, <2>2, HeapPut
<1>9. phase = "reading" => writing' = writing
  BY DEF EndElement
<1>10. ASSUME phase = "rereading"
       PROVE  /\ AllWritten /\ writing' \in Seq(Writes) /\ Len(writing') = n - 1
              /\ \A k \in 1 .. n - 1 : writing'[k] = writing[k]
  <2>1. AllWritten /\ writing' = Front(writing)
    BY <1>10 DEF EndElement
  <2>2. writing \in Seq(Writes) /\ Len(writing) = n /\ Len(writing) > 0
    BY <1>10, Lefts
  <2> QED BY ONLY <2>1, <2>2, Fronted
<1> QED BY ONLY <1>2, <1>3, <1>4, <1>6, <1>7, <1>8, <1>9, <1>10

LEMMA ExportIs ==
  ASSUME Inv, Export
  PROVE  /\ phase = "read" /\ phase' = "rereading" /\ ~Again /\ Again'
         /\ Len(stack) = 1 /\ stack[1].obj \in Ids
         /\ heap' \in Seq(Objs) /\ Len(heap') = Len(heap) + 1
         /\ 1 \in Ids /\ heap'[Len(heap) + 1] = New(heap[1].cls)
         /\ \A i \in Ids : heap'[i] = heap[i]
         /\ stack' \in Seq(Frames) /\ Len(stack') = 1
         /\ stack'[1].obj = Len(heap) + 1 /\ stack'[1].place = Outside
         /\ writing' \in Seq(Writes) /\ Len(writing') = 1
         /\ writing'[1] = Exported(1, FALSE)
         /\ copyOf' \in Seq(Int) /\ Len(copyOf') = Len(heap) + 1
         /\ \A i \in Ids : copyOf'[i] = copyOf[i]
         /\ copyOf'[Len(heap) + 1] = 1
         /\ UNCHANGED <<nodes, shown, special>>
<1>1. /\ Types /\ Stacked /\ Lockstep /\ copyOf \in Seq(Int) /\ Len(copyOf) = Len(heap)
      /\ Len(heap) > 0
  BY DEF Inv, Types
<1>2. /\ phase = "read" /\ phase' = "rereading"
      /\ writing' = <<Exported(1, FALSE)>>
      /\ heap' = Append(heap, New(heap[1].cls))
      /\ stack' = <<Begun(NoTag, Len(heap) + 1, Outside)>>
      /\ copyOf' = Append(copyOf, 1)
      /\ UNCHANGED <<nodes, shown, special>>
  BY DEF Export
<1>3. Len(heap) \in Nat /\ 1 \in Ids /\ heap[1].cls \in DOMAIN Row
  BY <1>1, Tops DEF Ids
<1>4. Len(stack) = 1 /\ stack[1].obj \in Ids
  BY <1>1, <1>2, Tops DEF Lockstep, Stacked
<1>5. /\ heap' \in Seq(Objs) /\ Len(heap') = Len(heap) + 1
      /\ heap'[Len(heap) + 1] = New(heap[1].cls)
      /\ \A i \in Ids : heap'[i] = heap[i]
  BY <1>1, <1>2, <1>3, NewIs, HeapAdd
<1>6. /\ stack' \in Seq(Frames) /\ Len(stack') = 1
      /\ stack'[1].obj = Len(heap) + 1 /\ stack'[1].place = Outside
  <2> DEFINE b == Begun(NoTag, Len(heap) + 1, Outside)
  <2>1. NoTag \in Tags
    BY Zenon DEF Tags
  <2>2. b \in Frames /\ b.obj = Len(heap) + 1 /\ b.place = Outside
    BY ONLY <1>3, <2>1 DEF Begun, Frames
  <2>3. stack' = <<b>>
    BY <1>2
  <2> HIDE DEF b
  <2> QED BY ONLY <2>2, <2>3, One
<1>7. writing' \in Seq(Writes) /\ Len(writing') = 1 /\ writing'[1] = Exported(1, FALSE)
  <2>1. Exported(1, FALSE) \in Writes
    BY <1>1, <1>3, ExportedIs
  <2> QED BY ONLY <1>2, <2>1, One
<1>8. /\ copyOf' \in Seq(Int) /\ Len(copyOf') = Len(heap) + 1
      /\ \A i \in Ids : copyOf'[i] = copyOf[i]
      /\ copyOf'[Len(heap) + 1] = 1
  <2>1. 1 \in Int /\ copyOf \in Seq(Int) /\ Len(copyOf) = Len(heap)
    BY <1>1
  <2> QED BY ONLY <1>2, <2>1, Appended DEF Ids
<1>9. ~Again /\ Again'
  BY ONLY <1>2 DEF Again
<1> QED BY ONLY <1>2, <1>3, <1>4, <1>5, <1>6, <1>7, <1>8, <1>9

-----------------------------------------------------------------------------
(* Every step keeps the types.                                             *)

LEMMA TypesStep ==
  ASSUME Inv, [Next]_vars
  PROVE  Types'
<1>1. /\ Types /\ Stacked /\ heap \in Seq(Objs) /\ Len(heap) > 0
      /\ stack \in Seq(Frames) /\ Len(stack) > 0 /\ nodes \in Nat
      /\ writing \in Seq(Writes) /\ copyOf \in Seq(Int) /\ Len(copyOf) = Len(heap)
      /\ shown \in Seq(Pieces)
      /\ phase \in {"reading", "read", "rereading", "reread", "malformed"}
  BY DEF Inv, Types, Frames, Writes, Again
<1> SUFFICES /\ phase' \in {"reading", "read", "rereading", "reread", "malformed"}
             /\ heap' \in Seq(Objs) /\ Len(heap') > 0
             /\ stack' \in Seq(Frames) /\ Len(stack') > 0 /\ nodes' \in Nat
             /\ writing' \in Seq(Writes) /\ copyOf' \in Seq(Int)
             /\ Len(copyOf') = Len(heap') /\ shown' \in Seq(Pieces)
  BY DEF Types, Frames, Writes, Again
<1>2. Len(heap) \in Nat
  BY <1>1
<1>3. ASSUME NEW a \in Class.attrs, Attribute(a)
      PROVE  /\ phase' \in {"reading", "read", "rereading", "reread", "malformed"}
             /\ heap' \in Seq(Objs) /\ Len(heap') > 0
             /\ stack' \in Seq(Frames) /\ Len(stack') > 0 /\ nodes' \in Nat
             /\ writing' \in Seq(Writes) /\ copyOf' \in Seq(Int)
             /\ Len(copyOf') = Len(heap') /\ shown' \in Seq(Pieces)
  <2> DEFINE o == [Top EXCEPT !.attrs = Top.attrs \cup {a}]
             L == [Left EXCEPT !.attrs = Left.attrs \ {a}]
  <2>1. Becomes(o, L) /\ shown' = shown
    BY <1>3, AttributeIs, Zenon
  <2> HIDE DEF o, L
  <2> QED BY ONLY <1>1, <2>1 DEF Becomes, Alone, Leaving
<1>4. ASSUME NEW tag \in DOMAIN Class.kids, Element(tag)
      PROVE  /\ phase' \in {"reading", "read", "rereading", "reread", "malformed"}
             /\ heap' \in Seq(Objs) /\ Len(heap') > 0
             /\ stack' \in Seq(Frames) /\ Len(stack') > 0 /\ nodes' \in Nat
             /\ writing' \in Seq(Writes) /\ copyOf' \in Seq(Int)
             /\ Len(copyOf') = Len(heap') /\ shown' \in Seq(Pieces)
  <2>1. /\ phase \in {"reading", "rereading"}
        /\ heap' \in Seq(Objs) /\ Len(heap') = Len(heap) + 1
        /\ Len(stack') = Len(stack) + 1
        /\ stack' \in Seq(Frames)
        /\ copyOf' \in Seq(Int) /\ Len(copyOf') = Len(heap) + 1
        /\ phase = "reading" => writing' = writing
        /\ phase = "rereading" => writing' \in Seq(Writes)
        /\ nodes' \in Nat
        /\ UNCHANGED <<phase, shown, special>>
    BY <1>4, ElementIs, Zenon DEF Frames
  <2> QED BY ONLY <1>1, <1>2, <2>1
<1>5. CASE Unknown
  BY <1>1, <1>5 DEF Unknown, Node
<1>6. ASSUME NEW p \in Piece, Text(p)
      PROVE  /\ phase' \in {"reading", "read", "rereading", "reread", "malformed"}
             /\ heap' \in Seq(Objs) /\ Len(heap') > 0
             /\ stack' \in Seq(Frames) /\ Len(stack') > 0 /\ nodes' \in Nat
             /\ writing' \in Seq(Writes) /\ copyOf' \in Seq(Int)
             /\ Len(copyOf') = Len(heap') /\ shown' \in Seq(Pieces)
  <2> DEFINE o == Takes(Top, p)
             L == [Left EXCEPT
                     !.value = IF Left.value = <<>> THEN Left.value ELSE Tail(Left.value),
                     !.content = IF Left.content = <<>> THEN Left.content
                                 ELSE Tail(Left.content)]
  <2>1. Becomes(o, L) /\ p \in Pieces
    BY <1>6, TextIs, Zenon
  <2>2. shown' = shown \/ shown' = Append(shown, p)
    BY <1>6 DEF Text
  <2>3. shown' \in Seq(Pieces)
    BY ONLY ZenonT(60), <1>1, <2>1, <2>2, Appended
  <2> HIDE DEF o, L
  <2> QED BY ONLY <1>1, <2>1, <2>3 DEF Becomes, Alone, Leaving
<1>7. CASE EndElement
  <2> DEFINE into == stack[Len(stack) - 1].obj
  <2>1. /\ Len(stack) > 1 /\ Len(stack) \in Nat
        /\ phase \in {"reading", "rereading"}
        /\ Alone(into) /\ stack' \in Seq(Frames) /\ Len(stack') = Len(stack) - 1
        /\ phase = "reading" => writing' = writing
        /\ phase = "rereading" => writing' \in Seq(Writes)
        /\ UNCHANGED <<phase, nodes, copyOf, special>>
        /\ shown' = shown \/ shown' = Append(shown, Break)
    BY <1>7, EndElementIs
  <2>2. Break \in Pieces
    BY DEF Break, Pieces
  <2>3. shown' \in Seq(Pieces)
    BY ONLY <1>1, <2>1, <2>2, Appended
  <2> HIDE DEF into
  <2> QED BY ONLY <1>1, <2>1, <2>3 DEF Alone
<1>8. CASE EndDocument
  BY <1>1, <1>8 DEF EndDocument
<1>9. CASE Export
  <2>1. /\ phase' = "rereading" /\ heap' \in Seq(Objs) /\ Len(heap') = Len(heap) + 1
        /\ stack' \in Seq(Frames) /\ Len(stack') = 1
        /\ writing' \in Seq(Writes)
        /\ copyOf' \in Seq(Int) /\ Len(copyOf') = Len(heap) + 1
        /\ UNCHANGED <<nodes, shown, special>>
    BY <1>9, ExportIs, Zenon
  <2> QED BY ONLY <1>1, <1>2, <2>1
<1>10. CASE Malformed
  BY <1>1, <1>10 DEF Malformed
<1>11. CASE UNCHANGED vars
  BY <1>1, <1>11 DEF vars
<1> QED BY <1>3, <1>4, <1>5, <1>6, <1>7, <1>8, <1>9, <1>10, <1>11 DEF Next

-----------------------------------------------------------------------------
(* Every step keeps the objects' classes, and the order of the stack.      *)

Local ==
  /\ stack' = stack /\ Len(heap') = Len(heap) /\ copyOf' = copyOf
  /\ Again' = Again
  /\ \A id \in Ids : heap'[id].cls = heap[id].cls

LEMMA StepKinds ==
  ASSUME Inv, [Next]_vars
  PROVE  Local \/ (\E tag : Element(tag)) \/ EndElement \/ Export
<1>1. Types /\ Stacked
  BY DEF Inv
<1>2. Top = heap[Cur] /\ Cur \in Ids /\ Top \in Objs
  BY <1>1, Tops
<1>3. ASSUME NEW o, NEW L, Becomes(o, L), o.cls = Top.cls PROVE Local
  BY ONLY <1>2, <1>3 DEF Becomes, Alone, Local, Again
<1>4. ASSUME NEW a \in Class.attrs, Attribute(a) PROVE Local
  <2> DEFINE o == [Top EXCEPT !.attrs = Top.attrs \cup {a}]
             L == [Left EXCEPT !.attrs = Left.attrs \ {a}]
  <2>1. Becomes(o, L) /\ o.cls = Top.cls
    BY <1>4, AttributeIs, Zenon
  <2> HIDE DEF o, L
  <2> QED BY <1>3, <2>1
<1>5. CASE Unknown
  BY <1>5 DEF Unknown, Local, Again
<1>6. ASSUME NEW p \in Piece, Text(p) PROVE Local
  <2> DEFINE o == Takes(Top, p)
             L == [Left EXCEPT
                     !.value = IF Left.value = <<>> THEN Left.value ELSE Tail(Left.value),
                     !.content = IF Left.content = <<>> THEN Left.content
                                 ELSE Tail(Left.content)]
  <2>1. Becomes(o, L) /\ p \in Pieces
    BY <1>6, TextIs, Zenon
  <2>2. o.cls = Top.cls
    BY <1>2, <2>1, TakesIs
  <2> HIDE DEF o, L
  <2> QED BY <1>3, <2>1, <2>2
<1>7. CASE EndDocument
  BY <1>7 DEF EndDocument, Local, Again
<1>8. CASE Malformed
  BY <1>8 DEF Malformed, Local, Again
<1>9. CASE UNCHANGED vars
  BY <1>9 DEF vars, Local, Again
<1> QED BY <1>4, <1>5, <1>6, <1>7, <1>8, <1>9 DEF Next

LEMMA SamePlaces ==
  ASSUME Types, Stacked, Local
  PROVE  /\ Depth' = Depth /\ Ids' = Ids /\ Base' = Base
         /\ \A id : Open(id)' = Open(id)
BY DEF Local, Depth, Ids, Base, Open

(* What the schema's places say of the elements in them.                   *)
LEMMA KidPlace ==
  ASSUME NEW place \in Places, NEW tag \in DOMAIN Row[ClassAt(place)].kids
  PROVE  LET kid == Row[ClassAt(place)].kids[tag]
         IN IF Within(place, tag) = Outside THEN kid.how # "mixed"
            ELSE kid.how = "mixed" /\ kid.cls = ClassAt(Within(place, tag))
<1> DEFINE kid == Row[ClassAt(place)].kids[tag]
<1>1. IF Within(place, tag) = Outside THEN kid.how # "mixed"
      ELSE kid = [cls |-> ClassAt(Within(place, tag)), how |-> "mixed"]
  BY SchemaAssumption, Zenon
<1> HIDE DEF kid
<1>2. IF Within(place, tag) = Outside THEN kid.how # "mixed"
      ELSE kid.how = "mixed" /\ kid.cls = ClassAt(Within(place, tag))
  BY ONLY <1>1
<1> QED BY <1>2 DEF kid

LEMMA StackedStep ==
  ASSUME Inv, [Next]_vars
  PROVE  Stacked'
<1>1. Types /\ Stacked
  BY DEF Inv
<1>2. /\ Len(stack) \in Nat /\ Len(stack) \in Depth /\ Len(heap) \in Nat
      /\ Last(stack) = stack[Len(stack)] /\ Cur = stack[Len(stack)].obj
      /\ Top = heap[Cur] /\ Cur \in Ids
      /\ \A k \in Depth : stack[k].place \in Places \cup {Outside}
  BY <1>1, Tops
<1>3. CASE Local
  <2>1. Depth' = Depth /\ Ids' = Ids
    BY <1>1, <1>3, SamePlaces
  <2>2. \A k \in Depth \ {1} : k - 1 \in Depth
    BY DEF Depth
  <2>3. /\ \A k \in Depth : stack[k].obj \in Ids
        /\ \A k \in Depth : heap'[stack[k].obj].cls = heap[stack[k].obj].cls
    BY <1>1, <1>3 DEF Local, Stacked
  <2> QED BY ZenonT(60), <1>1, <1>3, <2>1, <2>2, <2>3 DEF Stacked, Local
<1>4. ASSUME NEW tag, Element(tag) PROVE Stacked'
  <2> DEFINE n == Len(stack)
             place == Within(stack[n].place, tag)
  <2>1. /\ tag \in DOMAIN Row[Top.cls].kids
        /\ KidClass(tag) \in DOMAIN Row
        /\ Len(heap') = Len(heap) + 1
        /\ heap'[Len(heap) + 1] = New(KidClass(tag))
        /\ \A i \in Ids : heap'[i] = heap[i]
        /\ Len(stack') = n + 1 /\ \A k \in Depth : stack'[k] = stack[k]
        /\ stack'[n + 1].tag = tag
        /\ stack'[n + 1].obj = Len(heap) + 1
        /\ stack'[n + 1].place = place
    BY <1>2, <1>4, ElementIs
  <2>2. /\ Depth' = Depth \cup {n + 1} /\ n + 1 \notin Depth /\ n + 1 # 1
        /\ \A k \in Depth : k < n + 1 /\ ~(n + 1 < k)
        /\ \A k \in Depth \ {1} : k - 1 \in Depth
    BY <1>2, <2>1 DEF Depth
  <2>3. /\ Ids' = Ids \cup {Len(heap) + 1}
        /\ \A i \in Ids : i < Len(heap) + 1
    BY <1>2, <2>1 DEF Ids
  <2>4. New(KidClass(tag)).cls = KidClass(tag)
    BY <2>1, NewIs
  <2>5. \A k \in Depth : stack[k].obj \in Ids /\ stack'[k].obj = stack[k].obj
                         /\ heap'[stack[k].obj] = heap[stack[k].obj]
    BY <1>1, <2>1 DEF Stacked
  <2>6. \A k \in Depth' : stack'[k].obj \in Ids'
    BY <2>1, <2>2, <2>3, <2>5
  <2>7. \A j, k \in Depth' : j < k => stack'[j].obj < stack'[k].obj
    <3> TAKE j, k \in Depth'
    <3>1. CASE k = n + 1 /\ j \in Depth
      BY <2>1, <2>3, <2>5, <3>1
    <3>2. CASE k \in Depth /\ j \in Depth
      BY <1>1, <2>5, <3>2 DEF Stacked
    <3>3. CASE j = n + 1
      BY <2>2, <3>3
    <3> QED BY <2>2, <3>1, <3>2, <3>3
  <2>8. \A k \in Depth' \ {1} :
          LET above == stack'[k - 1]
              kids == Row[heap'[above.obj].cls].kids
          IN /\ stack'[k].tag \in DOMAIN kids
             /\ heap'[stack'[k].obj].cls = kids[stack'[k].tag].cls
             /\ stack'[k].place = Within(above.place, stack'[k].tag)
    <3> TAKE k \in Depth' \ {1}
    <3>1. CASE k = n + 1
      <4>1. k - 1 = n /\ n \in Depth
        BY <1>2, <3>1
      <4>2. heap'[stack'[k].obj].cls = KidClass(tag)
        BY <2>1, <2>4, <3>1
      <4>3. stack'[k - 1] = stack[n] /\ heap'[stack'[k - 1].obj].cls = Top.cls
        BY <1>2, <2>1, <4>1
      <4> QED BY <2>1, <3>1, <4>1, <4>2, <4>3 DEF KidClass
    <3>2. CASE k \in Depth
      <4>1. k - 1 \in Depth /\ k # 1
        BY <2>2, <3>2
      <4>2. /\ stack'[k] = stack[k] /\ stack'[k - 1] = stack[k - 1]
            /\ heap'[stack[k].obj] = heap[stack[k].obj]
            /\ heap'[stack[k - 1].obj] = heap[stack[k - 1].obj]
        BY <2>1, <2>5, <3>2, <4>1
      <4> QED BY <1>1, <3>2, <4>1, <4>2 DEF Stacked
    <3> QED BY <2>2, <3>1, <3>2
  <2>9. \A k \in Depth' :
          stack'[k].place # Outside =>
            /\ stack'[k].place \in Places
            /\ heap'[stack'[k].obj].cls = ClassAt(stack'[k].place)
    <3> TAKE k \in Depth'
    <3>1. CASE k = n + 1
      <4>1. ASSUME place # Outside
            PROVE  place \in Places /\ KidClass(tag) = ClassAt(place)
        <5>1. stack[n].place # Outside /\ place \in Places
          BY <1>2, <4>1, WithinIs
        <5>2. stack[n].place \in Places /\ Top.cls = ClassAt(stack[n].place)
          BY <1>1, <1>2, <5>1 DEF Stacked
        <5>3. KidClass(tag) = ClassAt(place)
          BY <2>1, <4>1, <5>2, KidPlace DEF KidClass
        <5> QED BY <5>1, <5>3
      <4> QED BY <2>1, <2>4, <3>1, <4>1
    <3>2. CASE k \in Depth
      BY <1>1, <2>1, <2>5, <3>2 DEF Stacked
    <3> QED BY <2>2, <3>1, <3>2
  <2> QED BY <2>6, <2>7, <2>8, <2>9 DEF Stacked
<1>5. CASE EndElement
  <2> DEFINE n == Len(stack)
             into == stack[n - 1].obj
  <2>1. /\ n > 1 /\ n - 1 \in Depth /\ into \in Ids /\ heap[into] \in Objs
        /\ Alone(into)
        /\ heap'[into] = Keeps(heap[into], stack[n].tag, stack[n].obj)
        /\ stack[n].tag \in DOMAIN Row[heap[into].cls].kids
        /\ stack[n].obj \in Ids
        /\ Len(stack') = n - 1 /\ \A k \in 1 .. n - 1 : stack'[k] = stack[k]
    BY <1>5, EndElementIs
  <2>2. heap'[into].cls = heap[into].cls
    <3>1. stack[n].obj \in Nat
      BY <2>1 DEF Ids
    <3> DEFINE o == heap[into]
               tag == stack[n].tag
               kid == stack[n].obj
    <3>2. o \in Objs /\ tag \in DOMAIN Row[o.cls].kids /\ kid \in Nat
      BY <2>1, <3>1
    <3>3. heap'[into] = Keeps(o, tag, kid)
      BY <2>1
    <3> HIDE DEF o, tag, kid
    <3>4. Keeps(o, tag, kid).cls = o.cls
      BY ONLY <3>2, KeepsIs
    <3> QED BY <3>3, <3>4 DEF o
  <2>3. /\ Ids' = Ids /\ \A id \in Ids : heap'[id].cls = heap[id].cls
    BY <2>1, <2>2 DEF Alone, Ids
  <2>4. /\ Depth' = 1 .. n - 1 /\ Depth' \subseteq Depth
        /\ \A k \in Depth' \ {1} : k - 1 \in Depth'
        /\ \A k \in Depth' : stack'[k] = stack[k]
    <3>1. Depth' = 1 .. n - 1
      BY <2>1 DEF Depth
    <3>2. n \in Nat /\ n > 1
      BY <1>2, <2>1
    <3> HIDE DEF n
    <3>3. 1 .. n - 1 \subseteq 1 .. n /\ \A k \in (1 .. n - 1) \ {1} : k - 1 \in 1 .. n - 1
      BY ONLY <3>2
    <3> QED BY ONLY <2>1, <3>1, <3>3 DEF Depth, n
  <2>5. \A k \in Depth : stack[k].obj \in Ids
    BY <1>1 DEF Stacked
  <2> HIDE DEF into, n
  <2>6. /\ \A k \in Depth' : stack'[k].obj \in Ids'
        /\ \A j, k \in Depth' : j < k => stack'[j].obj < stack'[k].obj
    BY <1>1, <2>3, <2>4 DEF Stacked
  <2>7. \A k \in Depth' \ {1} :
          LET above == stack'[k - 1]
              kids == Row[heap'[above.obj].cls].kids
          IN /\ stack'[k].tag \in DOMAIN kids
             /\ heap'[stack'[k].obj].cls = kids[stack'[k].tag].cls
             /\ stack'[k].place = Within(above.place, stack'[k].tag)
    <3> TAKE k \in Depth' \ {1}
    <3>1. /\ stack'[k] = stack[k] /\ stack'[k - 1] = stack[k - 1]
          /\ k \in Depth \ {1} /\ k - 1 \in Depth
      BY <2>4
    <3>2. /\ heap'[stack[k].obj].cls = heap[stack[k].obj].cls
          /\ heap'[stack[k - 1].obj].cls = heap[stack[k - 1].obj].cls
      BY <2>3, <2>5, <3>1
    <3> QED BY <1>1, <3>1, <3>2 DEF Stacked
  <2>8. \A k \in Depth' :
          stack'[k].place # Outside =>
            /\ stack'[k].place \in Places
            /\ heap'[stack'[k].obj].cls = ClassAt(stack'[k].place)
    BY <1>1, <2>3, <2>4, <2>5 DEF Stacked
  <2> QED BY <2>6, <2>7, <2>8 DEF Stacked
<1>6. CASE Export
  <2>1. /\ Len(heap') = Len(heap) + 1 /\ Len(stack') = 1
        /\ stack'[1].obj = Len(heap) + 1 /\ stack'[1].place = Outside
    BY <1>6, ExportIs, Zenon
  <2>2. Depth' = {1} /\ Len(heap) + 1 \in Ids'
    BY ONLY <1>2, <2>1 DEF Depth, Ids
  <2>3. stack'[1].obj \in Ids' /\ Depth' \ {1} = {}
    BY ONLY <2>1, <2>2
  <2>4. \A j, k \in Depth' : j = k /\ j = 1
    BY ONLY <2>2
  <2>5. \A j, k \in Depth' : ~(j < k)
    BY ONLY <2>4
  <2> QED BY ONLY <2>1, <2>2, <2>3, <2>4, <2>5 DEF Stacked
<1> QED BY <1>3, <1>4, <1>5, <1>6, StepKinds

(* What a step keeps of the objects there are.                             *)
LEMMA Later ==
  ASSUME Inv, [Next]_vars
  PROVE  /\ Ids \subseteq Ids'
         /\ \A id \in Ids : /\ heap'[id].cls = heap[id].cls
                            /\ Open(id)' => Open(id)
                            /\ copyOf'[id] = copyOf[id]
         /\ \A i, j \in Ids : (i < Base => j < Base) => (i < Base' => j < Base')
         /\ Types' /\ Stacked'
<1>1. Types /\ Stacked /\ Types' /\ Stacked'
  BY TypesStep, StackedStep DEF Inv
<1>2. /\ Len(stack) \in Nat /\ Len(stack) \in Depth /\ Len(heap) \in Nat /\ 1 \in Depth
  BY <1>1, Tops
<1>3. CASE Local
  BY <1>1, <1>3, SamePlaces DEF Local
<1>4. ASSUME NEW tag, Element(tag)
      PROVE  /\ Ids \subseteq Ids'
             /\ \A id \in Ids : /\ heap'[id].cls = heap[id].cls
                                /\ Open(id)' => Open(id)
                                /\ copyOf'[id] = copyOf[id]
             /\ \A i, j \in Ids : (i < Base => j < Base) => (i < Base' => j < Base')
  <2>1. /\ phase' = phase
        /\ Len(heap') = Len(heap) + 1
        /\ \A i \in Ids : heap'[i] = heap[i]
        /\ Len(stack') = Len(stack) + 1 /\ \A k \in Depth : stack'[k] = stack[k]
        /\ stack'[Len(stack) + 1].obj = Len(heap) + 1
        /\ \A i \in Ids : copyOf'[i] = copyOf[i]
    BY <1>4, ElementIs
  <2>2. Ids \subseteq Ids' /\ \A i \in Ids : i < Len(heap) + 1 /\ i < Len(heap') + 1
    BY ONLY <1>2, <2>1 DEF Ids
  <2>3. Depth' = Depth \cup {Len(stack) + 1}
    BY ONLY <1>2, <2>1 DEF Depth
  <2>4. \A id \in Ids : Open(id)' => Open(id)
    BY ONLY <2>1, <2>2, <2>3 DEF Open
  <2>5. \A i, j \in Ids : (i < Base => j < Base) => (i < Base' => j < Base')
    BY ONLY <1>2, <2>1, <2>2 DEF Base, Again
  <2>6. \A id \in Ids : heap'[id].cls = heap[id].cls /\ copyOf'[id] = copyOf[id]
    BY ONLY <2>1
  <2> QED BY ONLY <2>2, <2>4, <2>5, <2>6, Zenon
<1>5. CASE EndElement
  <2> DEFINE n == Len(stack)
             into == stack[n - 1].obj
             o == heap[into]
             tag == stack[n].tag
             kid == stack[n].obj
  <2>1. /\ phase' = phase /\ copyOf' = copyOf
        /\ n > 1 /\ into \in Ids /\ o \in Objs /\ Alone(into)
        /\ heap'[into] = Keeps(o, tag, kid)
        /\ tag \in DOMAIN Row[o.cls].kids /\ kid \in Ids
        /\ Len(stack') = n - 1 /\ \A k \in 1 .. n - 1 : stack'[k] = stack[k]
    BY <1>5, EndElementIs, Zenon
  <2>2. Keeps(o, tag, kid).cls = o.cls
    <3>1. kid \in Nat
      BY <2>1 DEF Ids
    <3> HIDE DEF o, tag, kid
    <3> QED BY ONLY <2>1, <3>1, KeepsIs
  <2>3. /\ Ids' = Ids /\ \A id \in Ids : heap'[id].cls = heap[id].cls
    BY <2>1, <2>2 DEF Alone, Ids
  <2>4. /\ 1 \in 1 .. n - 1 /\ Depth' = 1 .. n - 1 /\ 1 .. n - 1 \subseteq Depth
    BY <1>2, <2>1 DEF Depth
  <2>5. \A id \in Ids : Open(id)' => Open(id)
    BY <2>1, <2>4 DEF Open
  <2>6. Base' = Base
    BY <2>1, <2>4 DEF Base, Again, Alone
  <2>7. \A id \in Ids : copyOf'[id] = copyOf[id]
    BY ONLY <2>1
  <2> HIDE DEF n, into, o, tag, kid
  <2> QED BY ONLY <1>1, <2>3, <2>5, <2>6, <2>7, Zenon
<1>6. CASE Export
  <2>1. /\ Again' /\ Len(heap') = Len(heap) + 1
        /\ \A i \in Ids : heap'[i] = heap[i]
        /\ Len(stack') = 1 /\ stack'[1].obj = Len(heap) + 1
        /\ \A i \in Ids : copyOf'[i] = copyOf[i]
    BY <1>6, ExportIs, Zenon
  <2>2. Ids \subseteq Ids' /\ \A i \in Ids : i < Len(heap) + 1 /\ i # Len(heap) + 1
    BY ONLY <1>2, <2>1 DEF Ids
  <2>3. \A id \in Ids : ~Open(id)'
    BY ONLY <2>1, <2>2 DEF Open, Depth
  <2>4. Base' = Len(heap) + 1
    BY ONLY <2>1 DEF Base
  <2>5. \A id \in Ids : heap'[id].cls = heap[id].cls /\ copyOf'[id] = copyOf[id]
    BY ONLY <2>1
  <2> QED BY ONLY <1>1, <2>2, <2>3, <2>4, <2>5
<1> QED BY <1>1, <1>3, <1>4, <1>5, <1>6, StepKinds, Zenon

LEMMA KidStays ==
  ASSUME Inv, [Next]_vars, NEW id \in Ids, NEW tag, NEW kid, IsKid(id, tag, kid)
  PROVE  IsKid(id, tag, kid)'
BY Later DEF IsKid

-----------------------------------------------------------------------------
(* Every step keeps what an object is built of.                            *)

LEMMA FieldsStay ==
  ASSUME Inv, [Next]_vars, NEW id \in Ids, heap'[id].fields = heap[id].fields
  PROVE  BuiltFields(id)'
<1>1. BuiltFields(id) /\ heap'[id].cls = heap[id].cls
  BY Later DEF Inv, Built
<1>2. ASSUME NEW tag, NEW kid, IsKid(id, tag, kid) PROVE IsKid(id, tag, kid)'
  BY <1>2, KidStays
<1> QED BY <1>1, <1>2 DEF BuiltFields

LEMMA ContentStays ==
  ASSUME Inv, [Next]_vars, NEW id \in Ids, heap'[id].content = heap[id].content
  PROVE  BuiltContent(id)'
<1>1. BuiltContent(id) /\ heap'[id].cls = heap[id].cls
  BY Later DEF Inv, Built
<1>2. ASSUME NEW tag, NEW kid, IsKid(id, tag, kid) PROVE IsKid(id, tag, kid)'
  BY <1>2, KidStays
<1> QED BY <1>1, <1>2 DEF BuiltContent

LEMMA TextsStay ==
  ASSUME NEW o, NEW r, BuiltTexts(o), r.cls = o.cls, r.content = o.content,
         r.value = o.value
  PROVE  BuiltTexts(r)
BY DEF BuiltTexts

(* A new object has nothing.                                               *)
LEMMA NewBuilt ==
  ASSUME Types', NEW cls \in DOMAIN Row, NEW id \in Ids', heap'[id] = New(cls)
  PROVE  BuiltFields(id)' /\ BuiltContent(id)' /\ BuiltTexts(heap[id])'
<1>1. /\ heap'[id].cls = cls /\ heap'[id].content = <<>> /\ heap'[id].value = <<>>
      /\ \A tag \in DOMAIN Row[cls].kids : heap'[id].fields[tag] = <<>>
  BY NewIs
<1>2. TextOf(<<>>) = <<>>
  <2>1. [k \in DOMAIN <<>> |-> Piece1(<<>>[k])] = <<>>
    OBVIOUS
  <2> QED BY <2>1, FlatNone, Zenon DEF TextOf
<1>3. BuiltFields(id)'
  BY ONLY <1>1 DEF BuiltFields
<1>4. BuiltContent(id)'
  BY ONLY <1>1 DEF BuiltContent
<1>5. BuiltTexts(heap[id])'
  BY ONLY <1>1, <1>2 DEF BuiltTexts
<1> QED BY <1>3, <1>4, <1>5

(* The content_ of one more piece of text.                                 *)
LEMMA TextOfMore ==
  ASSUME NEW value \in Seq(Pieces), NEW p \in Pieces
  PROVE  /\ TextOf(Append(value, p)) = TextOf(value) \o Piece1(p)
         /\ TextOf(value) \in Seq(Items)
<1> DEFINE s == [k \in DOMAIN value |-> Piece1(value[k])]
           v == Append(value, p)
           t == [k \in DOMAIN v |-> Piece1(v[k])]
<1>1. \A q \in Pieces : Piece1(q) \in Seq(Items)
  <2> TAKE q \in Pieces
  <2>1. Said(q) \in Items
    <3>1. NoTag \in Tags /\ None \in Nat
      BY DEF Tags, None
    <3> QED BY ONLY <3>1, q \in Pieces DEF Said, Items
  <2> QED BY <2>1 DEF Piece1
<1>2. /\ Len(value) \in Nat /\ DOMAIN value = 1 .. Len(value)
      /\ \A k \in 1 .. Len(value) : value[k] \in Pieces
  OBVIOUS
<1>3. s \in Seq(Seq(Items)) /\ Len(s) = Len(value)
  BY <1>1, <1>2
<1>4. Piece1(p) \in Seq(Items)
  BY <1>1
<1>5. t = Append(s, Piece1(p))
  <2>1. /\ v \in Seq(Pieces) /\ Len(v) = Len(value) + 1
        /\ \A k \in 1 .. Len(value) : v[k] = value[k]
        /\ v[Len(value) + 1] = p
    BY Appended
  <2>2. DOMAIN v = 1 .. Len(value) + 1
    BY ONLY <2>1
  <2> DEFINE a == Append(s, Piece1(p))
  <2> HIDE DEF v
  <2>3. /\ a \in Seq(Seq(Items)) /\ Len(a) = Len(value) + 1
        /\ \A k \in 1 .. Len(value) : a[k] = s[k]
        /\ a[Len(value) + 1] = Piece1(p)
    <3> HIDE DEF s
    <3> QED BY ONLY <1>3, <1>4, Appended
  <2>4. \A k \in 1 .. Len(value) : s[k] = Piece1(value[k])
    BY ONLY <1>2
  <2> HIDE DEF s, a
  <2>5. a = [k \in 1 .. Len(value) + 1 |-> a[k]]
    BY ONLY <1>2, <2>3
  <2>6. \A k \in 1 .. Len(value) + 1 : a[k] = Piece1(v[k])
    <3> TAKE k \in 1 .. Len(value) + 1
    <3>1. k \in 1 .. Len(value) \/ k = Len(value) + 1
      BY ONLY <1>2, k \in 1 .. Len(value) + 1
    <3> QED BY ONLY <2>1, <2>3, <2>4, <3>1
  <2> QED BY ONLY <2>2, <2>5, <2>6 DEF a
<1>6. TextOf(v) = FlattenSeq(t) /\ TextOf(value) = FlattenSeq(s)
  BY DEF TextOf
<1> HIDE DEF s, v, t
<1> QED BY ONLY <1>3, <1>4, <1>5, <1>6, FlatMore DEF v

(* A step that changes one object, into one that is built as it should be. *)
LEMMA BuiltAlone ==
  ASSUME Inv, [Next]_vars, NEW id \in Ids, Alone(id),
         BuiltFields(id)' /\ BuiltContent(id)' /\ BuiltTexts(heap[id])'
  PROVE  Built'
<1>1. Ids' = Ids
  BY DEF Alone, Ids
<1>2. ASSUME NEW i \in Ids, i # id
      PROVE  BuiltFields(i)' /\ BuiltContent(i)' /\ BuiltTexts(heap[i])'
  <2>1. heap'[i] = heap[i]
    BY <1>2 DEF Alone
  <2>2. BuiltFields(i)' /\ BuiltContent(i)'
    BY <1>2, <2>1, FieldsStay, ContentStays
  <2>3. BuiltTexts(heap[i])
    BY <1>2 DEF Inv, Built
  <2> QED BY <2>1, <2>2, <2>3
<1> QED BY <1>1, <1>2 DEF Built

LEMMA BuiltStay ==
  ASSUME Inv, [Next]_vars, heap' = heap
  PROVE  Built'
<1>1. ASSUME NEW i \in Ids
      PROVE  BuiltFields(i)' /\ BuiltContent(i)' /\ BuiltTexts(heap[i])'
  <2>1. BuiltFields(i)' /\ BuiltContent(i)'
    BY FieldsStay, ContentStays
  <2>2. BuiltTexts(heap[i])
    BY DEF Inv, Built
  <2> QED BY <2>1, <2>2
<1> QED BY <1>1 DEF Built, Ids

LEMMA BuiltMore ==
  ASSUME Inv, [Next]_vars, Len(heap') = Len(heap) + 1, NEW cls \in DOMAIN Row,
         heap'[Len(heap) + 1] = New(cls), \A i \in Ids : heap'[i] = heap[i]
  PROVE  Built'
<1>1. Types /\ Types' /\ Len(heap) \in Nat
  BY Later, Tops DEF Inv
<1>2. Ids' = Ids \cup {Len(heap) + 1}
  BY <1>1 DEF Ids
<1>3. ASSUME NEW i \in Ids
      PROVE  BuiltFields(i)' /\ BuiltContent(i)' /\ BuiltTexts(heap[i])'
  <2>1. heap'[i] = heap[i]
    OBVIOUS
  <2>2. BuiltFields(i)' /\ BuiltContent(i)'
    BY <2>1, FieldsStay, ContentStays
  <2>3. BuiltTexts(heap[i])
    BY DEF Inv, Built
  <2> QED BY <2>1, <2>2, <2>3
<1>4. PICK i \in Ids' : i = Len(heap) + 1
  BY <1>2
<1>5. BuiltFields(i)' /\ BuiltContent(i)' /\ BuiltTexts(heap[i])'
  BY <1>1, <1>4, NewBuilt
<1> QED BY <1>2, <1>3, <1>4, <1>5 DEF Built

LEMMA BuiltText ==
  ASSUME Inv, NEW p \in Piece, Text(p), [Next]_vars
  PROVE  Built'
<1> DEFINE L == [Left EXCEPT
                   !.value = IF Left.value = <<>> THEN Left.value ELSE Tail(Left.value),
                   !.content = IF Left.content = <<>> THEN Left.content
                               ELSE Tail(Left.content)]
<1>10. PICK o : o = Takes(Top, p)
  OBVIOUS
<1>1. Becomes(o, L) /\ p \in Pieces
  BY <1>10, TextIs, Zenon
<1> HIDE DEF L
<1>0. PICK c \in Ids : c = Cur
  BY Tops DEF Inv
<1>2. /\ Types /\ Top = heap[c] /\ Top \in Objs /\ Top.cls \in DOMAIN Row
      /\ BuiltTexts(Top) /\ BuiltContent(c)
      /\ Top.content \in Seq(Items) /\ Top.value \in Seq(Pieces)
  BY <1>0, Tops, Parts DEF Inv, Built
<1>3. /\ o.cls = Top.cls /\ o.fields = Top.fields
      /\ o.content = IF In(Top, p) THEN Append(Top.content, Said(p)) ELSE Top.content
      /\ o.value = IF Row[Top.cls].text \in {"value", "both"}
                   THEN Append(Top.value, Kept(Top, p)) ELSE Top.value
      /\ Kept(Top, p) \in Pieces /\ Said(p) \in Items
  BY <1>1, <1>2, <1>10, TakesIs
<1>4. heap'[c] = o /\ Alone(c)
  BY <1>0, <1>1 DEF Becomes
<1>5. BuiltFields(c)'
  BY <1>2, <1>3, <1>4, FieldsStay
<1>6. BuiltContent(c)'
  <2>1. ASSUME NEW tag, NEW kid, IsKid(c, tag, kid)
        PROVE  IsKid(c, tag, kid)'
    BY <1>2, <2>1, KidStays
  <2>2. /\ Said(p).tag = NoTag /\ Said(p).text = p
    BY DEF Said
  <2>3. CASE In(Top, p)
    <3>1. /\ o.content \in Seq(Items) /\ Len(o.content) = Len(Top.content) + 1
          /\ \A k \in 1 .. Len(Top.content) : o.content[k] = Top.content[k]
          /\ o.content[Len(Top.content) + 1] = Said(p)
      BY <1>2, <1>3, <2>3, Appended
    <3>2. \A k \in DOMAIN o.content :
            k \in DOMAIN Top.content \/ k = Len(Top.content) + 1
      BY <1>2, <3>1
    <3>3. p.kind # "cdata"
      BY <2>3 DEF In
    <3>4. \A k \in DOMAIN o.content :
            LET item == o.content[k]
            IN IF item.tag = NoTag THEN item = Said(item.text) /\ item.text.kind # "cdata"
               ELSE /\ item = Held(item.tag, item.obj)
                    /\ IsKid(c, item.tag, item.obj)'
                    /\ Row[Top.cls].kids[item.tag].how = "mixed"
      <4> TAKE k \in DOMAIN o.content
      <4>1. CASE k = Len(Top.content) + 1
        BY <2>2, <3>1, <3>3, <4>1
      <4>2. CASE k \in DOMAIN Top.content
        <5>1. o.content[k] = Top.content[k]
          BY <1>2, <3>1, <4>2
        <5>2. LET item == Top.content[k]
              IN IF item.tag = NoTag
                 THEN item = Said(item.text) /\ item.text.kind # "cdata"
                 ELSE /\ item = Held(item.tag, item.obj)
                      /\ IsKid(c, item.tag, item.obj)
                      /\ Row[Top.cls].kids[item.tag].how = "mixed"
          BY <1>2, <4>2 DEF BuiltContent
        <5> QED BY <2>1, <5>1, <5>2
      <4> QED BY <3>2, <4>1, <4>2
    <3> QED BY <1>3, <1>4, <3>4 DEF BuiltContent
  <2>4. CASE ~In(Top, p)
    BY <1>2, <1>3, <1>4, <2>4, ContentStays
  <2> QED BY <2>3, <2>4
<1>7. BuiltTexts(heap[c])'
  <2>1. /\ Row[Top.cls].text \in {"none", "value"} => o.content = <<>>
        /\ Row[Top.cls].text \in {"none", "content"} => o.value = <<>>
    BY <1>2, <1>3 DEF BuiltTexts, In
  <2>2. ASSUME Row[Top.cls].text = "both", Top.cls # "docParaType"
        PROVE  o.content = TextOf(o.value)
    <3>1. Kept(Top, p) = p
      BY <2>2, NamesAssumption DEF Kept
    <3>2. o.value = Append(Top.value, p) /\ Top.content = TextOf(Top.value)
      BY <1>2, <1>3, <2>2, <3>1 DEF BuiltTexts
    <3>3. TextOf(o.value) = Top.content \o Piece1(p)
      BY <1>1, <1>2, <3>2, TextOfMore
    <3>4. o.content = IF p.kind = "cdata" THEN Top.content ELSE Append(Top.content, Said(p))
      BY <1>3, <2>2 DEF In
    <3>5. /\ Top.content \o <<>> = Top.content
          /\ Top.content \o <<Said(p)>> = Append(Top.content, Said(p))
      BY <1>2, <1>3
    <3> QED BY <3>3, <3>4, <3>5 DEF Piece1
  <2>3. ASSUME Top.cls = "Text"
        PROVE  \A k \in DOMAIN o.value : o.value[k].kind # "cdata"
    <3>1. Kept(Top, p).kind # "cdata"
      <4>1. p.kind = "cdata" => [p EXCEPT !.kind = "plain"].kind = "plain"
        BY <1>1 DEF Pieces
      <4> QED BY <2>3, <4>1 DEF Kept
    <3>2. o.value = Append(Top.value, Kept(Top, p))
      BY <1>3, <2>3, NamesAssumption
    <3>3. \A k \in DOMAIN Top.value : Top.value[k].kind # "cdata"
      BY <1>2, <2>3 DEF BuiltTexts
    <3>4. /\ Len(o.value) = Len(Top.value) + 1 /\ o.value \in Seq(Pieces)
          /\ \A k \in 1 .. Len(Top.value) : o.value[k] = Top.value[k]
          /\ o.value[Len(Top.value) + 1] = Kept(Top, p)
      BY ONLY <1>2, <1>3, <3>2, Appended
    <3>5. \A k \in DOMAIN o.value : k \in 1 .. Len(Top.value) \/ k = Len(Top.value) + 1
      BY ONLY <1>2, <3>4
    <3>6. DOMAIN Top.value = 1 .. Len(Top.value)
      BY <1>2
    <3> QED BY ONLY <3>1, <3>3, <3>4, <3>5, <3>6
  <2> QED BY <1>3, <1>4, <2>1, <2>2, <2>3 DEF BuiltTexts
<1> QED BY <1>2, <1>4, <1>5, <1>6, <1>7, BuiltAlone

(* The child that is complete is one of the object it is in.               *)
LEMMA KidEnds ==
  ASSUME Inv, [Next]_vars, EndElement, NEW into, NEW tag, NEW kid,
         into = stack[Len(stack) - 1].obj, tag = stack[Len(stack)].tag,
         kid = stack[Len(stack)].obj
  PROVE  IsKid(into, tag, kid)'
<1> DEFINE n == Len(stack)
<1>1. /\ Types /\ Stacked /\ n \in Nat /\ n > 1 /\ n \in Depth /\ n - 1 \in Depth
      /\ into \in Ids /\ kid \in Ids /\ into < kid
      /\ tag \in DOMAIN Row[heap[into].cls].kids
      /\ heap[kid].cls = Row[heap[into].cls].kids[tag].cls
      /\ Len(stack') = n - 1 /\ \A k \in 1 .. n - 1 : stack'[k] = stack[k]
      /\ Len(heap') = Len(heap) /\ phase' = phase
  BY EndElementIs DEF Inv, Alone
<1>2. /\ Ids' = Ids
      /\ heap'[into].cls = heap[into].cls /\ heap'[kid].cls = heap[kid].cls
  BY <1>1, Later DEF Ids
<1>3. ~Open(kid)'
  <2>1. \A k \in 1 .. n - 1 : k \in Depth /\ k < n
    BY <1>1 DEF Depth
  <2>2. Depth' = 1 .. n - 1
    BY <1>1 DEF Depth
  <2>3. \A k \in 1 .. n - 1 : stack[k].obj < kid /\ stack[k].obj \in Ids
    BY <1>1, <2>1 DEF Stacked
  <2>4. \A k \in 1 .. n - 1 : stack[k].obj # kid
    <3>1. Ids \subseteq Nat /\ kid \in Ids
      BY <1>1, IdsAreNat
    <3> QED BY ONLY <2>3, <3>1
  <2> HIDE DEF n
  <2> QED BY <1>1, <2>2, <2>4 DEF Open
<1>4. into < Base' => kid < Base'
  <2>1. CASE Again
    <3>1. Base <= into /\ Base \in Nat /\ into \in Nat
      <4>1. Base \in Ids /\ \A k \in Depth : Base <= stack[k].obj
        BY <1>1, <2>1, BaseIs
      <4>2. Ids \subseteq Nat
        BY <1>1, IdsAreNat
      <4>3. n - 1 \in Depth /\ into \in Ids
        BY ONLY <1>1
      <4> QED BY <4>1, <4>2, <4>3
    <3>2. Base' = Base
      <4>1. 1 \in 1 .. n - 1
        BY ONLY <1>1
      <4>2. stack'[1] = stack[1]
        BY ONLY <1>1, <4>1
      <4>3. Again'
        BY ONLY <1>1, <2>1 DEF Again
      <4> QED BY ONLY <2>1, <4>2, <4>3 DEF Base
    <3> QED BY ONLY <3>1, <3>2
  <2>2. CASE ~Again
    <3>1. Base' = Len(heap) + 1
      BY <1>1, <2>2 DEF Base, Again
    <3>2. kid \in 1 .. Len(heap) /\ Len(heap) \in Nat
      BY <1>1, Tops DEF Ids
    <3> QED BY ONLY <3>1, <3>2
  <2> QED BY <2>1, <2>2
<1> QED BY <1>1, <1>2, <1>3, <1>4 DEF IsKid

LEMMA BuiltEndElement ==
  ASSUME Inv, EndElement, [Next]_vars
  PROVE  Built'
<1>1. PICK into, tag, kid, o, r :
        /\ into = stack[Len(stack) - 1].obj /\ tag = stack[Len(stack)].tag
        /\ kid = stack[Len(stack)].obj /\ o = heap[into] /\ r = Keeps(o, tag, kid)
  OBVIOUS
<1>2. /\ into \in Ids /\ kid \in Nat /\ o \in Objs /\ tag \in DOMAIN Row[o.cls].kids
      /\ Alone(into) /\ heap'[into] = r
  <2>1. /\ into \in Ids /\ kid \in Ids /\ o \in Objs
        /\ tag \in DOMAIN Row[o.cls].kids /\ Alone(into) /\ heap'[into] = r
    BY <1>1, EndElementIs
  <2>2. Ids \subseteq Nat
    BY IdsAreNat DEF Inv
  <2> QED BY ONLY <2>1, <2>2
<1>3. /\ r.cls = o.cls /\ r.value = o.value
      /\ IF Row[o.cls].kids[tag].how = "mixed"
         THEN /\ r.fields = o.fields /\ r.content = Append(o.content, Held(tag, kid))
         ELSE /\ r.content = o.content
              /\ r.fields = [o.fields EXCEPT ![tag] =
                               IF Row[o.cls].kids[tag].how = "one" THEN <<kid>>
                               ELSE Append(o.fields[tag], kid)]
  <2>1. /\ Keeps(o, tag, kid).cls = o.cls /\ Keeps(o, tag, kid).value = o.value
        /\ IF Row[o.cls].kids[tag].how = "mixed"
           THEN /\ Keeps(o, tag, kid).fields = o.fields
                /\ Keeps(o, tag, kid).content = Append(o.content, Held(tag, kid))
           ELSE /\ Keeps(o, tag, kid).content = o.content
                /\ Keeps(o, tag, kid).fields =
                     [o.fields EXCEPT ![tag] =
                        IF Row[o.cls].kids[tag].how = "one" THEN <<kid>>
                        ELSE Append(o.fields[tag], kid)]
    BY ONLY <1>2, KeepsIs
  <2>2. r = Keeps(o, tag, kid)
    BY <1>1
  <2> QED BY ONLY <2>1, <2>2, Zenon
<1>4. IsKid(into, tag, kid)'
  BY <1>1, KidEnds
<1>5. ASSUME NEW t, NEW i, IsKid(into, t, i) PROVE IsKid(into, t, i)'
  BY <1>2, <1>5, KidStays
<1>6. /\ BuiltFields(into) /\ BuiltContent(into) /\ BuiltTexts(o)
      /\ o.cls \in DOMAIN Row /\ o.content \in Seq(Items) /\ o.value \in Seq(Pieces)
      /\ o.fields \in [DOMAIN Row[o.cls].kids -> Seq(Nat)]
  BY <1>1, <1>2, Parts DEF Inv, Built
<1>7. /\ tag # NoTag
      /\ Row[o.cls].text = "none" => Row[o.cls].kids[tag].how # "mixed"
      /\ Row[o.cls].text = "content" => Row[o.cls].kids[tag].how = "mixed"
      /\ Row[o.cls].text \in {"value", "both"} => o.cls = "docParaType"
      /\ Row[o.cls].text \in {"none", "content", "value", "both"}
  BY <1>2, <1>6, TextKinds
<1>8. CASE Row[o.cls].kids[tag].how = "mixed"
  <2>1. BuiltFields(into)'
    BY <1>1, <1>2, <1>3, <1>8, FieldsStay
  <2>2. PICK item : item = Held(tag, kid)
    OBVIOUS
  <2>3. item \in Items /\ item.tag = tag /\ item.obj = kid
    <3>1. tag \in Tags
      BY <1>2, <1>6 DEF Tags
    <3>2. NoPiece \in Pieces
      BY DEF NoPiece, Pieces
    <3> QED BY ONLY <1>2, <2>2, <3>1, <3>2 DEF Held, Items
  <2>4. /\ Len(r.content) = Len(o.content) + 1 /\ r.content \in Seq(Items)
        /\ \A k \in 1 .. Len(o.content) : r.content[k] = o.content[k]
        /\ r.content[Len(o.content) + 1] = item
    <3>1. r.content = Append(o.content, item) /\ o.content \in Seq(Items)
      BY <1>3, <1>6, <1>8, <2>2
    <3> QED BY ONLY <2>3, <3>1, Appended
  <2>5. BuiltContent(into)'
    <3>1. \A k \in DOMAIN r.content : k \in DOMAIN o.content \/ k = Len(o.content) + 1
      BY ONLY <1>6, <2>4
    <3>2. DOMAIN o.content = 1 .. Len(o.content)
      BY <1>6
    <3>3. \A k \in DOMAIN r.content :
            IF r.content[k].tag = NoTag
            THEN r.content[k] = Said(r.content[k].text) /\ r.content[k].text.kind # "cdata"
            ELSE /\ r.content[k] = Held(r.content[k].tag, r.content[k].obj)
                 /\ IsKid(into, r.content[k].tag, r.content[k].obj)'
                 /\ Row[o.cls].kids[r.content[k].tag].how = "mixed"
      <4> TAKE k \in DOMAIN r.content
      <4>1. CASE k = Len(o.content) + 1
        BY <1>4, <1>7, <1>8, <2>2, <2>3, <2>4, <4>1
      <4>2. CASE k \in DOMAIN o.content
        <5>1. r.content[k] = o.content[k]
          BY <2>4, <3>2, <4>2
        <5>2. IF o.content[k].tag = NoTag
              THEN o.content[k] = Said(o.content[k].text)
                     /\ o.content[k].text.kind # "cdata"
              ELSE /\ o.content[k] = Held(o.content[k].tag, o.content[k].obj)
                   /\ IsKid(into, o.content[k].tag, o.content[k].obj)
                   /\ Row[o.cls].kids[o.content[k].tag].how = "mixed"
          BY <1>1, <1>6, <4>2 DEF BuiltContent
        <5> QED BY <1>5, <5>1, <5>2
      <4> QED BY <3>1, <4>1, <4>2
    <3> QED BY <1>2, <1>3, <3>3 DEF BuiltContent
  <2>6. BuiltTexts(r)
    <3>1. Row[o.cls].text = "both" => o.cls = "docParaType"
      BY <1>7
    <3>2. Row[o.cls].text \notin {"none", "value"}
      BY <1>7, <1>8, NamesAssumption
    <3>3. o.cls # "Text"
      BY <3>2, NamesAssumption
    <3> QED BY <1>3, <1>6, <3>1, <3>2, <3>3 DEF BuiltTexts
  <2> QED BY <1>2, <2>1, <2>5, <2>6, BuiltAlone
<1>9. CASE Row[o.cls].kids[tag].how # "mixed"
  <2>1. BuiltContent(into)' /\ BuiltTexts(r)
    BY <1>1, <1>2, <1>3, <1>6, <1>9, ContentStays, TextsStay
  <2>2. PICK kids : kids = IF Row[o.cls].kids[tag].how = "one" THEN <<kid>>
                           ELSE Append(o.fields[tag], kid)
    OBVIOUS
  <2>3. /\ Row[o.cls].kids[tag].how = "one" => Len(kids) <= 1
        /\ \A k \in DOMAIN kids :
             \/ kids[k] = kid
             \/ k \in DOMAIN o.fields[tag] /\ kids[k] = o.fields[tag][k]
    <3>1. o.fields[tag] \in Seq(Nat)
      BY <1>2, <1>6
    <3>2. CASE Row[o.cls].kids[tag].how = "one"
      <4>1. kids = <<kid>>
        BY <2>2, <3>2
      <4>2. Len(kids) = 1 /\ kids[1] = kid /\ DOMAIN kids = {1}
        BY ONLY <1>2, <4>1, One
      <4> QED BY ONLY <4>2
    <3>3. CASE Row[o.cls].kids[tag].how # "one"
      <4>1. kids = Append(o.fields[tag], kid)
        BY <2>2, <3>3
      <4>2. /\ kids \in Seq(Nat) /\ Len(kids) = Len(o.fields[tag]) + 1
            /\ \A k \in 1 .. Len(o.fields[tag]) : kids[k] = o.fields[tag][k]
            /\ kids[Len(o.fields[tag]) + 1] = kid
        BY ONLY <1>2, <3>1, <4>1, Appended
      <4>3. \A k \in DOMAIN kids :
              k \in 1 .. Len(o.fields[tag]) \/ k = Len(o.fields[tag]) + 1
        BY ONLY SMTT(60), <3>1, <4>2
      <4>4. DOMAIN o.fields[tag] = 1 .. Len(o.fields[tag])
        BY ONLY <3>1
      <4>5. Row[o.cls].kids[tag].how # "one"
        BY ONLY <3>3
      <4> QED BY ONLY <4>2, <4>3, <4>4, <4>5, Zenon
    <3> QED BY <3>2, <3>3
  <2>4. /\ r.fields[tag] = kids
        /\ \A t \in DOMAIN Row[o.cls].kids : t # tag => r.fields[t] = o.fields[t]
    BY <1>2, <1>3, <1>6, <1>9, <2>2
  <2>5. \A t \in DOMAIN Row[o.cls].kids :
          /\ \A k \in DOMAIN r.fields[t] : IsKid(into, t, r.fields[t][k])'
          /\ Row[o.cls].kids[t].how = "one" => Len(r.fields[t]) <= 1
          /\ Row[o.cls].kids[t].how = "mixed" => r.fields[t] = <<>>
    <3> TAKE t \in DOMAIN Row[o.cls].kids
    <3>1. /\ \A k \in DOMAIN o.fields[t] : IsKid(into, t, o.fields[t][k])
          /\ Row[o.cls].kids[t].how = "one" => Len(o.fields[t]) <= 1
          /\ Row[o.cls].kids[t].how = "mixed" => o.fields[t] = <<>>
      BY <1>1, <1>6 DEF BuiltFields
    <3>2. \A k \in DOMAIN o.fields[t] : IsKid(into, t, o.fields[t][k])'
      BY <1>5, <3>1
    <3>3. CASE t = tag
      BY <1>4, <1>9, <2>3, <2>4, <3>2, <3>3
    <3>4. CASE t # tag
      BY <2>4, <3>1, <3>2, <3>4
    <3> QED BY <3>3, <3>4
  <2>6. BuiltFields(into)'
    BY <1>2, <1>3, <2>5 DEF BuiltFields
  <2> QED BY <1>2, <2>1, <2>6, BuiltAlone
<1> QED BY <1>8, <1>9

LEMMA BuiltStep ==
  ASSUME Inv, [Next]_vars
  PROVE  Built'
<1>1. ASSUME NEW a \in Class.attrs, Attribute(a) PROVE Built'
  <2>1. PICK c \in Ids : c = Cur
    BY Tops DEF Inv
  <2>2. PICK o, L : o = [Top EXCEPT !.attrs = Top.attrs \cup {a}]
                    /\ L = [Left EXCEPT !.attrs = Left.attrs \ {a}]
    OBVIOUS
  <2>3. /\ Becomes(o, L) /\ o.cls = Top.cls /\ o.fields = Top.fields
        /\ o.content = Top.content /\ o.value = Top.value
    BY <1>1, <2>2, AttributeIs, Zenon
  <2>4. heap'[c] = o /\ Alone(c) /\ Top = heap[c] /\ BuiltTexts(Top)
    BY <2>1, <2>3, Tops DEF Becomes, Inv, Built
  <2>5. BuiltFields(c)' /\ BuiltContent(c)'
    BY <2>3, <2>4, FieldsStay, ContentStays
  <2>6. BuiltTexts(o)
    BY <2>3, <2>4, TextsStay
  <2> QED BY <2>4, <2>5, <2>6, BuiltAlone
<1>2. ASSUME NEW tag \in DOMAIN Class.kids, Element(tag) PROVE Built'
  <2>1. PICK cls \in DOMAIN Row : cls = KidClass(tag)
    BY <1>2, ElementIs
  <2>2. /\ Len(heap') = Len(heap) + 1 /\ heap'[Len(heap) + 1] = New(cls)
        /\ \A i \in Ids : heap'[i] = heap[i]
    BY <1>2, <2>1, ElementIs
  <2> QED BY <2>2, BuiltMore
<1>3. CASE Unknown
  BY <1>3, BuiltStay DEF Unknown
<1>4. ASSUME NEW p \in Piece, Text(p) PROVE Built'
  BY <1>4, BuiltText
<1>5. CASE EndElement
  BY <1>5, BuiltEndElement
<1>6. CASE EndDocument
  BY <1>6, BuiltStay DEF EndDocument
<1>7. CASE Export
  <2>1. PICK cls \in DOMAIN Row : cls = heap[1].cls
    BY <1>7, ExportIs, Tops DEF Inv
  <2>2. /\ Len(heap') = Len(heap) + 1 /\ heap'[Len(heap) + 1] = New(cls)
        /\ \A i \in Ids : heap'[i] = heap[i]
    BY <1>7, <2>1, ExportIs
  <2> QED BY <2>2, BuiltMore
<1>8. CASE Malformed
  BY <1>8, BuiltStay DEF Malformed
<1>9. CASE UNCHANGED vars
  BY <1>9, BuiltStay DEF vars
<1> QED BY <1>1, <1>2, <1>3, <1>4, <1>5, <1>6, <1>7, <1>8, <1>9 DEF Next

-----------------------------------------------------------------------------
(* Every step keeps what is complete a copy of what it was written from.   *)

(* An object that is complete stays as it is.                              *)
LEMMA ClosedStay ==
  ASSUME Inv, [Next]_vars
  PROVE  \A id \in Ids : ~Open(id) => heap'[id] = heap[id]
<1>1. Types /\ Stacked /\ Open(Cur)
  BY Tops DEF Inv
<1>2. ASSUME NEW a \in Class.attrs, Attribute(a)
      PROVE  \A id \in Ids : ~Open(id) => heap'[id] = heap[id]
  <2>1. Alone(Cur)
    BY <1>2, AttributeIs, Zenon DEF Becomes
  <2> QED BY ONLY <1>1, <2>1 DEF Alone
<1>3. ASSUME NEW tag \in DOMAIN Class.kids, Element(tag)
      PROVE  \A id \in Ids : ~Open(id) => heap'[id] = heap[id]
  BY <1>3, ElementIs
<1>4. CASE Unknown
  BY <1>4 DEF Unknown
<1>5. ASSUME NEW p \in Piece, Text(p)
      PROVE  \A id \in Ids : ~Open(id) => heap'[id] = heap[id]
  <2>1. Alone(Cur)
    BY <1>5, TextIs, Zenon DEF Becomes
  <2> QED BY ONLY <1>1, <2>1 DEF Alone
<1>6. CASE EndElement
  <2>1. PICK into : into = stack[Len(stack) - 1].obj
    OBVIOUS
  <2>2. Alone(into) /\ Len(stack) - 1 \in Depth
    BY <1>6, <2>1, EndElementIs
  <2>3. Open(into)
    BY <2>1, <2>2 DEF Open
  <2> QED BY <2>2, <2>3 DEF Alone
<1>7. CASE EndDocument
  BY <1>7 DEF EndDocument
<1>8. CASE Export
  BY <1>8, ExportIs
<1>9. CASE Malformed
  BY <1>9 DEF Malformed
<1>10. CASE UNCHANGED vars
  BY <1>10 DEF vars
<1> QED BY <1>2, <1>3, <1>4, <1>5, <1>6, <1>7, <1>8, <1>9, <1>10 DEF Next

(* While it is read again, what was written is complete.                   *)
LEMMA SourceClosed ==
  ASSUME Inv, Again, NEW id \in Nat, id < Base
  PROVE  ~Open(id)
BY BaseIs DEF Inv, Open, Ids

LEMMA CopyStays ==
  ASSUME NEW o \in Objs, NEW c \in Objs, IsCopy(o, c),
         \A tag \in DOMAIN c.fields : \A k \in DOMAIN c.fields[tag] :
           /\ heap'[c.fields[tag][k]] = heap[c.fields[tag][k]]
           /\ copyOf'[c.fields[tag][k]] = copyOf[c.fields[tag][k]],
         \A k \in DOMAIN c.content :
           c.content[k].tag # NoTag => copyOf'[c.content[k].obj] = copyOf[c.content[k].obj]
  PROVE  IsCopy(o, c)'
<1>1. CASE o.cls = "docParaType"
  BY <1>1 DEF IsCopy
<1>2. CASE o.cls # "docParaType"
  <2>1. /\ c.cls = o.cls /\ c.attrs = o.attrs \cup Always(o.cls) /\ c.value = o.value
        /\ DOMAIN c.fields = DOMAIN o.fields
        /\ \A tag \in DOMAIN o.fields :
             /\ Len(c.fields[tag]) = Len(KidsOf(o, tag))
             /\ \A k \in DOMAIN KidsOf(o, tag) :
                  KidIsCopy(o.cls, tag, KidsOf(o, tag)[k], c.fields[tag][k])
        /\ Len(c.content) = Len(o.content)
        /\ \A k \in DOMAIN o.content :
             /\ c.content[k].tag = o.content[k].tag
             /\ c.content[k].text = o.content[k].text
             /\ o.content[k].tag # NoTag => copyOf[c.content[k].obj] = o.content[k].obj
    BY <1>2 DEF IsCopy
  <2>2. /\ o.fields \in [DOMAIN Row[o.cls].kids -> Seq(Nat)]
        /\ c.fields \in [DOMAIN Row[c.cls].kids -> Seq(Nat)]
        /\ o.content \in Seq(Items) /\ c.content \in Seq(Items)
    BY Parts
  <2>3. ASSUME NEW tag \in DOMAIN o.fields, NEW k \in DOMAIN KidsOf(o, tag)
        PROVE  KidIsCopy(o.cls, tag, KidsOf(o, tag)[k], c.fields[tag][k])'
    <3>1. KidIsCopy(o.cls, tag, KidsOf(o, tag)[k], c.fields[tag][k])
      BY <2>1, <2>3
    <3>2. KidsOf(o, tag) \in Seq(Nat) /\ c.fields[tag] \in Seq(Nat)
      BY <2>1, <2>2, <2>3, KidsAre
    <3>3. k \in DOMAIN c.fields[tag] /\ tag \in DOMAIN c.fields
      BY <2>1, <2>3, <3>2
    <3>4. /\ heap'[c.fields[tag][k]] = heap[c.fields[tag][k]]
          /\ copyOf'[c.fields[tag][k]] = copyOf[c.fields[tag][k]]
      BY <3>3
    <3> QED BY ONLY <3>1, <3>4 DEF KidIsCopy
  <2>4. \A k \in DOMAIN o.content : k \in DOMAIN c.content
    BY <2>1, <2>2
  <2>5. \A k \in DOMAIN o.content :
          o.content[k].tag # NoTag => copyOf'[c.content[k].obj] = o.content[k].obj
    BY <2>1, <2>4
  <2> QED BY ONLY <1>2, <2>1, <2>3, <2>5 DEF IsCopy
<1> QED BY <1>1, <1>2

(* The children of an object that is complete or in the stack do so.       *)
LEMMA KidsStay ==
  ASSUME Inv, [Next]_vars, NEW id \in Ids, NEW c \in Objs, c = heap[id]
  PROVE  /\ \A tag \in DOMAIN c.fields : \A k \in DOMAIN c.fields[tag] :
              /\ heap'[c.fields[tag][k]] = heap[c.fields[tag][k]]
              /\ copyOf'[c.fields[tag][k]] = copyOf[c.fields[tag][k]]
         /\ \A k \in DOMAIN c.content :
              c.content[k].tag # NoTag => copyOf'[c.content[k].obj] = copyOf[c.content[k].obj]
<1>1. /\ BuiltFields(id) /\ BuiltContent(id)
      /\ c.fields \in [DOMAIN Row[c.cls].kids -> Seq(Nat)]
  BY Parts DEF Inv, Built
<1>2. ASSUME NEW tag, NEW kid, IsKid(id, tag, kid)
      PROVE  heap'[kid] = heap[kid] /\ copyOf'[kid] = copyOf[kid]
  BY <1>2, ClosedStay, Later DEF IsKid
<1>3. \A tag \in DOMAIN c.fields : \A k \in DOMAIN c.fields[tag] :
        IsKid(id, tag, c.fields[tag][k])
  BY <1>1 DEF BuiltFields
<1>4. \A k \in DOMAIN c.content :
        c.content[k].tag # NoTag => IsKid(id, c.content[k].tag, c.content[k].obj)
  BY <1>1 DEF BuiltContent
<1> QED BY <1>2, <1>3, <1>4

LEMMA TitleReadIs ==
  ASSUME NEW of, NEW c \in Objs, c.cls = "docTitleType", c.attrs = {}, NoFields(c),
         c.content = IF of = None THEN <<>> ELSE <<Said(Repr)>>, c.value = TitleText(of)
  PROVE  c = TitleRead(of)
<1>1. "docTitleType" \in DOMAIN Row
  BY NamesAssumption
<1> DEFINE n == New("docTitleType")
           d == [n EXCEPT !.content = <<Said(Repr)>>]
<1>2. /\ n \in Objs /\ n.cls = "docTitleType" /\ n.attrs = {} /\ n.content = <<>>
      /\ n.fields \in [DOMAIN Row["docTitleType"].kids -> {<<>>}] /\ n.value = <<>>
      /\ n = [cls |-> n.cls, attrs |-> n.attrs, fields |-> n.fields,
              content |-> n.content, value |-> n.value]
  BY <1>1, NewIs, Parts
<1>3. /\ c.fields \in [DOMAIN Row["docTitleType"].kids -> Seq(Nat)]
      /\ c = [cls |-> c.cls, attrs |-> c.attrs, fields |-> c.fields,
              content |-> c.content, value |-> c.value]
  BY Parts
<1>4. c.fields = n.fields
  BY <1>2, <1>3 DEF NoFields
<1>5. TitleRead(of) = IF of = None THEN n ELSE [d EXCEPT !.value = <<Repr>>]
  BY DEF TitleRead
<1> HIDE DEF n
<1>6. d = [cls |-> n.cls, attrs |-> n.attrs, fields |-> n.fields,
           content |-> <<Said(Repr)>>, value |-> n.value]
  <2>1. n = [cls |-> n.cls, attrs |-> n.attrs, fields |-> n.fields,
             content |-> n.content, value |-> n.value]
    BY <1>2
  <2> QED BY ONLY <2>1
<1> HIDE DEF d
<1>7. CASE of = None
  <2>1. c.content = n.content /\ c.value = n.value
    BY <1>2, <1>7 DEF TitleText
  <2>2. c = n
    BY ONLY <1>2, <1>3, <1>4, <2>1, c.cls = "docTitleType", c.attrs = {}
  <2> QED BY ONLY <1>5, <1>7, <2>2
<1>8. CASE of # None
  <2>1. TitleRead(of) = [cls |-> n.cls, attrs |-> n.attrs, fields |-> n.fields,
                         content |-> <<Said(Repr)>>, value |-> <<Repr>>]
    BY ONLY <1>5, <1>6, <1>8
  <2>2. c.content = <<Said(Repr)>> /\ c.value = <<Repr>>
    BY <1>8 DEF TitleText
  <2>3. c = [cls |-> n.cls, attrs |-> n.attrs, fields |-> n.fields,
             content |-> <<Said(Repr)>>, value |-> <<Repr>>]
    BY ONLY <1>2, <1>3, <1>4, <2>2, c.cls = "docTitleType", c.attrs = {}
  <2> QED BY ONLY <2>1, <2>3
<1> QED BY <1>7, <1>8

(* What has been read of an object that has been written is a copy of it.  *)
LEMMA Closes ==
  ASSUME Inv, phase \in {"rereading", "reread"}, AllWritten,
         NEW c \in Objs, c = heap[Cur], NEW of, of = copyOf[Cur]
  PROVE  /\ of \in Int /\ of < Base
         /\ IF ~FromOne(of) THEN c = TitleRead(of) ELSE of \in Ids /\ IsCopy(heap[of], c)
<1> DEFINE n == Len(stack)
           o == heap[of]
           l == Left
<1>1. Types /\ Stacked /\ Built /\ Again
  BY DEF Inv, Again
<1>2. /\ n \in Depth /\ n \in Nat /\ Cur = stack[n].obj /\ Cur \in Ids /\ Top = c
      /\ c.cls \in DOMAIN Row
      /\ \A id \in Ids : heap[id] \in Objs
  BY <1>1, Tops
<1>3. l = writing[n].left /\ l \in Objs /\ WritingOf(n) /\ l.cls = c.cls
  BY <1>2, Lefts
<1>4. /\ l.attrs = {} /\ l.content = <<>> /\ l.value = <<>>
      /\ \A tag \in DOMAIN l.fields : l.fields[tag] = <<>>
  BY DEF AllWritten
<1>5. /\ l.fields \in [DOMAIN Row[c.cls].kids -> Seq(Nat)]
      /\ c.fields \in [DOMAIN Row[c.cls].kids -> Seq(Nat)]
      /\ c.content \in Seq(Items) /\ c.value \in Seq(Pieces)
  BY <1>3, Parts
<1> HIDE DEF l
<1>6. /\ copyOf[stack[n].obj] = writing[n].of /\ writing[n].of < Base /\ OfSource(n)
  BY <1>3 DEF WritingOf
<1>7. of = writing[n].of
  BY <1>2, <1>6
<1>8. of \in Int
  <2>1. copyOf \in Seq(Int) /\ Len(copyOf) = Len(heap)
    BY <1>1 DEF Types
  <2> QED BY <1>2, <2>1 DEF Ids
<1>9. /\ Row[c.cls].text \in {"value", "both"} => OfValue(n)
      /\ Row[c.cls].text = "none" => OfFields(n)
      /\ Row[c.cls].text = "content" => OfContent(n)
  BY <1>2, <1>3 DEF WritingOf
<1>10. BuiltTexts(c) /\ BuiltFields(Cur)
  BY <1>1, <1>2 DEF Built
<1>11. c.value \o <<>> = c.value
  BY <1>5
<1>12. ASSUME ~FromOne(of) PROVE c = TitleRead(of)
  <2>1. /\ c.cls = "docTitleType" /\ c.attrs = {} /\ c.value = TitleText(of)
    BY <1>2, <1>3, <1>4, <1>6, <1>7, <1>11, <1>12 DEF OfSource
  <2>2. Row[c.cls].text = "both" /\ c.cls # "docParaType"
    BY <2>1, NamesAssumption
  <2>3. NoFields(c)
    BY <1>2, <1>9, <2>2 DEF OfValue
  <2>4. c.content = TextOf(TitleText(of))
    BY <1>10, <2>1, <2>2 DEF BuiltTexts
  <2>5. TextOf(<<>>) = <<>>
    <3>1. [k \in DOMAIN <<>> |-> Piece1(<<>>[k])] = <<>>
      OBVIOUS
    <3> QED BY <3>1, FlatNone, Zenon DEF TextOf
  <2>6. TextOf(<<Repr>>) = <<Said(Repr)>>
    <3>1. Repr \in Pieces /\ Repr.kind # "cdata" /\ <<>> \in Seq(Pieces)
      BY DEF Repr, Pieces, Kinds
    <3>2. TextOf(Append(<<>>, Repr)) = TextOf(<<>>) \o Piece1(Repr)
      BY <3>1, TextOfMore
    <3>3. Piece1(Repr) = <<Said(Repr)>>
      BY <3>1 DEF Piece1
    <3>4. Append(<<>>, Repr) = <<Repr>> /\ <<>> \o <<Said(Repr)>> = <<Said(Repr)>>
      OBVIOUS
    <3> QED BY ONLY <2>5, <3>2, <3>3, <3>4
  <2>7. c.content = IF of = None THEN <<>> ELSE <<Said(Repr)>>
    BY ONLY <2>4, <2>5, <2>6 DEF TitleText
  <2> QED BY <2>1, <2>3, <2>7, TitleReadIs
<1>13. ASSUME FromOne(of) PROVE of \in Ids /\ IsCopy(o, c)
  <2>1. Base \in 1 .. Len(heap) + 1 /\ Len(heap) \in Nat
    BY <1>1, BaseIs, Tops
  <2>2. of \in Ids
    BY <1>6, <1>7, <1>8, <1>13, <2>1 DEF Ids, None, FromOne
  <2>3. /\ c.cls = o.cls /\ c.attrs = o.attrs \cup Always(o.cls) /\ c.value = o.value
    BY <1>2, <1>3, <1>4, <1>6, <1>7, <1>11, <1>13 DEF OfSource
  <2>4. BuiltTexts(o) /\ BuiltFields(of) /\ o \in Objs
    BY <1>1, <1>2, <2>2 DEF Built
  <2>5. /\ o.fields \in [DOMAIN Row[c.cls].kids -> Seq(Nat)]
        /\ o.content \in Seq(Items)
    BY <2>3, <2>4, Parts
  <2> HIDE DEF o
  <2>6. DOMAIN c.fields = DOMAIN o.fields /\ DOMAIN o.fields = DOMAIN Row[c.cls].kids
    BY <1>5, <2>5
  <2>7. CASE c.cls = "docParaType"
    <3>1. OfValue(n)
      BY <1>9, <2>7, NamesAssumption
    <3>2. NoFields(c) /\ \A k \in DOMAIN c.content : c.content[k].tag = NoTag
      BY <1>2, <3>1 DEF OfValue
    <3>3. New("docParaType").fields \in [DOMAIN Row["docParaType"].kids -> {<<>>}]
      BY NamesAssumption, NewIs
    <3>4. c.fields = New("docParaType").fields
      BY <1>5, <2>7, <3>2, <3>3 DEF NoFields
    <3> QED BY <2>2, <2>3, <2>7, <3>2, <3>4 DEF IsCopy
  <2>8. CASE Row[c.cls].text \in {"value", "both"} /\ c.cls # "docParaType"
    <3>1. OfValue(n)
      BY <1>9, <2>8
    <3>2. \A k \in DOMAIN c.content : c.content[k].tag = NoTag
      BY <1>2, <3>1 DEF OfValue
    <3>3. DOMAIN o.fields = {}
      BY <1>2, <2>6, <2>8, TextKinds
    <3>4. c.content = o.content
      BY <1>10, <2>3, <2>4, <2>8 DEF BuiltTexts
    <3> QED BY <2>2, <2>3, <2>6, <2>8, <3>2, <3>3, <3>4 DEF IsCopy
  <2>9. CASE Row[c.cls].text = "none"
    <3>1. OfFields(n)
      BY <1>9, <2>9
    <3>2. \A tag : Waits(n, tag) = 0
      BY <1>2 DEF Waits
    <3>0. heap[writing[n].of] = o /\ heap[stack[n].obj] = c /\ writing[n].left = l
      BY <1>2, <1>3, <1>7 DEF o
    <3>3. \A tag \in DOMAIN Row[c.cls].kids :
            /\ Len(KidsOf(o, tag)) = Len(c.fields[tag]) + 0 + Len(l.fields[tag])
            /\ \A k \in DOMAIN c.fields[tag] :
                 KidIsCopy(o.cls, tag, KidsOf(o, tag)[k], c.fields[tag][k])
      BY ONLY <2>3, <3>0, <3>1, <3>2 DEF OfFields
    <3>4. ASSUME NEW tag \in DOMAIN o.fields
          PROVE  /\ Len(c.fields[tag]) = Len(KidsOf(o, tag))
                 /\ \A k \in DOMAIN KidsOf(o, tag) :
                      KidIsCopy(o.cls, tag, KidsOf(o, tag)[k], c.fields[tag][k])
      <4>1. KidsOf(o, tag) \in Seq(Nat) /\ c.fields[tag] \in Seq(Nat) /\ l.fields[tag] = <<>>
            /\ tag \in DOMAIN Row[c.cls].kids
        BY <1>4, <1>5, <2>3, <2>4, <2>5, <2>6, <3>4, KidsAre
      <4>2. Len(c.fields[tag]) = Len(KidsOf(o, tag))
        <5>1. Len(KidsOf(o, tag)) = Len(c.fields[tag]) + 0 + Len(l.fields[tag])
          BY <3>3, <4>1
        <5>2. Len(l.fields[tag]) = 0 /\ Len(c.fields[tag]) \in Nat
          BY ONLY <4>1
        <5> QED BY ONLY <5>1, <5>2
      <4>3. DOMAIN c.fields[tag] = DOMAIN KidsOf(o, tag)
        BY <4>1, <4>2
      <4> QED BY <3>3, <4>1, <4>2, <4>3
    <3>5. c.content = <<>> /\ o.content = <<>>
      BY <1>10, <2>3, <2>4, <2>9 DEF BuiltTexts
    <3>6. c.cls # "docParaType"
      BY <2>9, NamesAssumption
    <3> QED BY <2>2, <2>3, <2>6, <3>4, <3>5, <3>6 DEF IsCopy
  <2>10. CASE Row[c.cls].text = "content"
    <3>1. OfContent(n)
      BY <1>9, <2>10
    <3>2. Below(n) = 0
      BY <1>2 DEF Below
    <3>3. /\ Len(o.content) = Len(c.content) + 0 + Len(l.content)
          /\ \A k \in DOMAIN c.content : ItemIsCopy(o.content[k], c.content[k])
      BY <1>2, <1>3, <1>7, <2>3, <3>1, <3>2 DEF OfContent, o
    <3>4. Len(c.content) = Len(o.content) /\ DOMAIN c.content = DOMAIN o.content
      BY <1>4, <1>5, <2>5, <3>3
    <3>5. \A k \in DOMAIN o.content :
            /\ c.content[k].tag = o.content[k].tag
            /\ c.content[k].text = o.content[k].text
            /\ o.content[k].tag # NoTag => copyOf[c.content[k].obj] = o.content[k].obj
      BY <3>3, <3>4 DEF ItemIsCopy
    <3>6. \A tag \in DOMAIN o.fields : c.fields[tag] = <<>> /\ KidsOf(o, tag) = <<>>
      <4>1. \A tag \in DOMAIN o.fields : Row[c.cls].kids[tag].how = "mixed"
        BY <1>2, <2>6, <2>10, TextKinds
      <4>2. \A tag \in DOMAIN o.fields : c.fields[tag] = <<>> /\ o.fields[tag] = <<>>
        BY <1>2, <1>10, <2>3, <2>4, <2>6, <4>1 DEF BuiltFields, o
      <4> QED BY <2>3, <2>10, <4>2, PlainKids
    <3>7. c.cls # "docParaType"
      BY <2>10, NamesAssumption
    <3> QED BY <2>2, <2>3, <2>6, <3>4, <3>5, <3>6, <3>7 DEF IsCopy
  <2>11. Row[c.cls].text \in {"none", "content", "value", "both"}
    BY <1>2, TextKinds
  <2> QED BY <2>7, <2>8, <2>9, <2>10, <2>11
<1> QED BY <1>6, <1>7, <1>8, <1>12, <1>13

(* The object that is begun is a copy of one of those that are written.    *)
LEMMA BegunFrom ==
  ASSUME Inv, NEW tag, Element(tag)
  PROVE  LET of == copyOf'[Len(heap) + 1]
         IN /\ phase = "reading" => of = None
            /\ phase = "rereading" => of < Base /\ of \in Int
<1>1. /\ Types /\ Stacked /\ tag \in DOMAIN Row[Top.cls].kids
      /\ phase = "reading" => copyOf'[Len(heap) + 1] = None
      /\ phase = "rereading" =>
           copyOf'[Len(heap) + 1] = writing'[Len(stack) + 1].of
  BY ElementIs DEF Inv
<1>2. ASSUME phase = "rereading"
      PROVE  copyOf'[Len(heap) + 1] < Base /\ copyOf'[Len(heap) + 1] \in Int
  <2>1. WritesElement(tag) /\ Len(writing) = Len(stack)
    BY <1>2, Lefts DEF Element, Node
  <2>2. WritesField(tag) \/ WritesItem(tag)
    BY <1>1, <1>2, <2>1, WritesElementIs
  <2>3. PICK kid1, kid2 :
          /\ kid1 = KidsOf(heap[writing[Len(stack)].of], tag)[Len(Top.fields[tag]) + 1]
          /\ kid2 = heap[writing[Len(stack)].of].content[Len(Top.content) + 1].obj
    OBVIOUS
  <2>4. CASE WritesField(tag)
    <3>0. PICK L \in Objs, e \in Writes : FieldPush(tag, kid1, L, e)
      BY <1>1, <1>2, <2>1, <2>3, <2>4, FieldPushed
    <3>1. /\ Pushes(L, e) /\ kid1 \in Nat
          /\ \/ e = AsString(kid1)
             \/ kid1 \in Ids /\ kid1 < Base /\ e = Exported(kid1, FALSE)
      BY <3>0 DEF FieldPush
    <3>2. e.of \in Int /\ e.of < Base
      <4>1. AsString(kid1).of \in {-1, 0} /\ Exported(kid1, FALSE).of = kid1
        BY DEF AsString, Exported, None, AsText
      <4>2. 0 < Base /\ Base \in Nat
        BY <1>1, BaseIs, Tops
      <4>3. CASE e = AsString(kid1)
        <5>1. PICK a : a = e.of
          OBVIOUS
        <5>2. a \in {-1, 0}
          BY ONLY <4>1, <4>3, <5>1
        <5>3. a \in Int /\ a < Base
          BY ONLY <4>2, <5>2
        <5> QED BY ONLY <5>1, <5>3
      <4>4. CASE kid1 \in Ids /\ kid1 < Base /\ e = Exported(kid1, FALSE)
        <5>1. e.of = kid1
          BY ONLY <4>1, <4>4
        <5>2. PICK a \in Nat : a = kid1
          BY ONLY <3>1
        <5>3. a < Base /\ e.of = a
          BY ONLY <4>4, <5>1, <5>2
        <5>4. a \in Int
          BY ONLY <5>2
        <5> QED BY ONLY <5>3, <5>4
      <4> QED BY ONLY <3>1, <4>3, <4>4
    <3>3. copyOf'[Len(heap) + 1] = e.of
      BY <1>1, <1>2, <2>1, <3>1 DEF Pushes
    <3> QED BY <3>2, <3>3
  <2>5. CASE WritesItem(tag)
    <3>1. PICK L \in Objs, e \in Writes :
            /\ Pushes(L, e) /\ kid2 \in Ids /\ kid2 < Base
            /\ e = Exported(kid2, heap[kid2].cls = "Text")
      BY <1>1, <1>2, <2>1, <2>3, <2>5, ItemPushed DEF ItemPush
    <3>2. e.of = kid2
      BY <3>1 DEF Exported
    <3>3. copyOf'[Len(heap) + 1] = e.of
      BY <1>1, <1>2, <2>1, <3>1 DEF Pushes
    <3> QED BY <3>1, <3>2, <3>3 DEF Ids
  <2> QED BY <2>2, <2>4, <2>5
<1> QED BY <1>1, <1>2

(* A copy stays one.                                                       *)
LEMMA CopiesStay ==
  ASSUME Inv, [Next]_vars, Again, NEW id \in Ids, ~Open(id), NEW of \in Int, of < Base,
         NEW c \in Objs, c = heap[id],
         IF ~FromOne(of) THEN c = TitleRead(of) ELSE IsCopy(heap[of], c)
  PROVE  /\ heap'[id] = c
         /\ IF ~FromOne(of) THEN c = TitleRead(of) ELSE IsCopy(heap[of], c)'
<1>1. heap'[id] = c
  BY ClosedStay
<1>2. ASSUME FromOne(of) PROVE IsCopy(heap[of], c)'
  <2>1. Base \in 1 .. Len(heap) + 1 /\ Len(heap) \in Nat
    BY BaseIs, Tops DEF Inv
  <2>2. of \in Ids
    BY <1>2, <2>1 DEF Ids, None, FromOne
  <2>3. PICK o \in Objs : o = heap[of]
    BY <2>2, Tops DEF Inv
  <2>4. heap'[of] = o
    <3>1. of \in Nat
      BY <2>2, IdsAreNat DEF Inv
    <3> QED BY <2>2, <2>3, <3>1, SourceClosed, ClosedStay
  <2>5. IsCopy(o, c)
    BY <1>2, <2>3
  <2>6. IsCopy(o, c)'
    BY <2>5, KidsStay, CopyStays
  <2> QED BY <2>4, <2>6
<1> QED BY <1>1, <1>2

LEMMA CopiesStep ==
  ASSUME Inv, [Next]_vars
  PROVE  Copies'
<1>1. Types /\ Stacked /\ Copies /\ Types' /\ Stacked'
  BY Later DEF Inv
<1>2. /\ Len(stack) \in Nat /\ Len(stack) \in Depth /\ Len(heap) \in Nat
      /\ \A id \in Ids : heap[id] \in Objs
  BY <1>1, Tops
<1>3. Base \in 1 .. Len(heap) + 1
  BY <1>1, BaseIs
<1> DEFINE Right(i) ==
             /\ i < Base => copyOf[i] = None
             /\ i >= Base =>
                  /\ copyOf[i] < Base
                  /\ ~Open(i) => IF ~FromOne(copyOf[i]) THEN heap[i] = TitleRead(copyOf[i])
                                 ELSE IsCopy(heap[copyOf[i]], heap[i])
<1>4. ASSUME NEW id \in Ids, Again, Base' = Base, id >= Base, ~Open(id)
      PROVE  IF ~FromOne(copyOf'[id]) THEN heap'[id] = TitleRead(copyOf'[id])
             ELSE IsCopy(heap[copyOf[id]], heap[id])'
  <2>1. PICK of : of = copyOf[id]
    OBVIOUS
  <2>2. of \in Int /\ copyOf'[id] = of
    <3>1. copyOf \in Seq(Int) /\ Len(copyOf) = Len(heap)
      BY <1>1 DEF Types
    <3> QED BY <2>1, <3>1, Later DEF Ids
  <2>3. PICK c \in Objs : c = heap[id]
    BY <1>2
  <2>4. of < Base /\ IF ~FromOne(of) THEN c = TitleRead(of) ELSE IsCopy(heap[of], c)
    BY <1>1, <1>4, <2>1, <2>3 DEF Copies
  <2>5. /\ heap'[id] = c
        /\ IF ~FromOne(of) THEN c = TitleRead(of) ELSE IsCopy(heap[of], c)'
    BY <1>4, <2>2, <2>3, <2>4, CopiesStay
  <2> QED BY <2>2, <2>5
<1>5. CASE Local
  <2>1. Depth' = Depth /\ Ids' = Ids /\ Base' = Base /\ (\A id : Open(id)' = Open(id))
    BY <1>1, <1>5, SamePlaces
  <2>2. \A id \in Ids : ~Again => id < Base
    BY <1>2 DEF Base, Ids
  <2>3. copyOf' = copyOf /\ \A id \in Ids : id < Base \/ id >= Base
    BY <1>3, <1>5 DEF Local, Ids
  <2>4. ASSUME NEW i \in Ids
        PROVE  /\ i < Base' => copyOf'[i] = None
               /\ i >= Base' =>
                    /\ copyOf'[i] < Base'
                    /\ ~Open(i)' => IF ~FromOne(copyOf'[i]) THEN heap'[i] = TitleRead(copyOf'[i])
                                    ELSE IsCopy(heap[copyOf[i]], heap[i])'
    <3>1. i >= Base => Again
      BY <1>2, <2>2, <2>3 DEF Base, Ids
    <3> QED BY <1>1, <1>4, <2>1, <2>3, <3>1 DEF Copies
  <2> QED BY <2>1, <2>4 DEF Copies
<1>6. ASSUME NEW tag, Element(tag) PROVE Copies'
  <2>1. /\ phase' = phase /\ phase \in {"reading", "rereading"}
        /\ Len(heap') = Len(heap) + 1
        /\ Len(stack') = Len(stack) + 1 /\ \A k \in Depth : stack'[k] = stack[k]
        /\ stack'[Len(stack) + 1].obj = Len(heap) + 1
        /\ \A i \in Ids : copyOf'[i] = copyOf[i]
    BY <1>6, ElementIs
  <2>2. PICK new \in Ids' : new = Len(heap) + 1
    BY <1>2, <2>1 DEF Ids
  <2>3. Ids' = Ids \cup {new} /\ \A i \in Ids : i < Len(heap) + 1
    BY ONLY <1>2, <2>1, <2>2 DEF Ids
  <2>4. /\ Len(stack) + 1 \in Depth' /\ \A k \in Depth : k \in Depth'
    BY ONLY <1>2, <2>1 DEF Depth
  <2>5. Open(new)' /\ \A id : Open(id) => Open(id)'
    BY <2>1, <2>2, <2>4 DEF Open
  <2>6. /\ phase = "reading" => copyOf'[new] = None
        /\ phase = "rereading" => copyOf'[new] < Base /\ copyOf'[new] \in Int
    BY <1>6, <2>2, BegunFrom
  <2>7. CASE phase = "reading"
    <3>1. Base' = Len(heap) + 2 /\ Base = Len(heap) + 1
      BY <1>2, <2>1, <2>7 DEF Base, Again
    <3>2. \A i \in Ids' : i < Base'
      BY <1>2, <2>2, <2>3, <3>1
    <3>3. \A i \in Ids : copyOf[i] = None
      BY <1>1, <2>3, <3>1 DEF Copies
    <3>4. \A i \in Ids' : copyOf'[i] = None
      BY <2>1, <2>3, <2>6, <2>7, <3>3
    <3>5. \A i \in Ids' : ~(i >= Base')
      BY <1>2, <2>2, <3>1, <3>2 DEF Ids
    <3> QED BY <3>2, <3>4, <3>5 DEF Copies
  <2>8. CASE phase = "rereading"
    <3>1. Again /\ Base' = Base /\ Base \in Ids
      <4>1. Again
        BY <2>8 DEF Again
      <4>2. 1 \in Depth
        BY <1>1, Tops
      <4> QED BY <1>1, <2>1, <4>1, <4>2, BaseIs DEF Base, Again
    <3>2. new >= Base /\ ~(new < Base)
      BY <1>2, <2>2, <2>3, <3>1 DEF Ids
    <3>3. \A i \in Ids : i < Base \/ i >= Base
      BY <3>1 DEF Ids
    <3>4. ASSUME NEW i \in Ids
          PROVE  /\ i < Base' => copyOf'[i] = None
                 /\ i >= Base' =>
                      /\ copyOf'[i] < Base'
                      /\ ~Open(i)' => IF ~FromOne(copyOf'[i]) THEN heap'[i] = TitleRead(copyOf'[i])
                                      ELSE IsCopy(heap[copyOf[i]], heap[i])'
      BY <1>1, <1>4, <2>1, <2>5, <3>1 DEF Copies
    <3> QED BY <2>3, <2>5, <2>6, <2>8, <3>1, <3>2, <3>4 DEF Copies
  <2> QED BY <2>1, <2>7, <2>8
<1>7. CASE EndElement
  <2>1. /\ phase' = phase /\ phase \in {"reading", "rereading"} /\ copyOf' = copyOf
        /\ Len(stack) > 1 /\ Len(heap') = Len(heap)
        /\ Len(stack') = Len(stack) - 1
        /\ \A k \in 1 .. Len(stack) - 1 : stack'[k] = stack[k]
    BY <1>7, EndElementIs DEF Alone
  <2>2. /\ Ids' = Ids /\ Depth' = 1 .. Len(stack) - 1 /\ 1 \in Depth' /\ 1 \in Depth
        /\ \A k \in Depth : k \in Depth' \/ k = Len(stack)
    BY ONLY <1>2, <2>1 DEF Ids, Depth
  <2>3. Base' = Base
    BY ONLY <2>1, <2>2 DEF Base, Again
  <2>4. PICK kid \in Ids : kid = Cur
    BY <1>1, Tops
  <2>5. ASSUME NEW id, ~Open(id)', id # kid PROVE ~Open(id)
    <3>1. Cur = stack[Len(stack)].obj
      BY <1>1, Tops
    <3> QED BY <2>1, <2>2, <2>4, <2>5, <3>1 DEF Open
  <2>6. CASE phase = "reading"
    <3>1. \A i \in Ids : i < Base /\ ~(i >= Base)
      BY <1>2, <2>6 DEF Base, Again, Ids
    <3> QED BY <1>1, <2>1, <2>2, <2>3, <3>1 DEF Copies
  <2>7. CASE phase = "rereading"
    <3>1. Again /\ AllWritten
      BY <1>7, <2>7 DEF Again, EndElement
    <3>2. PICK c, of : c \in Objs /\ c = heap[kid] /\ of = copyOf[kid]
      BY <1>2
    <3>3. /\ of \in Int /\ of < Base
          /\ IF ~FromOne(of) THEN c = TitleRead(of) ELSE of \in Ids /\ IsCopy(heap[of], c)
      BY <2>4, <2>7, <3>1, <3>2, Closes
    <3>4. /\ heap'[kid] = c
          /\ IF ~FromOne(of) THEN c = TitleRead(of) ELSE IsCopy(heap[of], c)'
      <4>1. heap'[kid] = c
        <5>1. PICK into : into = stack[Len(stack) - 1].obj
          OBVIOUS
        <5>2. Alone(into) /\ into < kid /\ into \in Ids
          BY <1>1, <1>7, <2>4, <5>1, EndElementIs, Tops
        <5> QED BY <3>2, <5>2 DEF Alone, Ids
      <4>2. ASSUME FromOne(of) PROVE IsCopy(heap[of], c)'
        <5>1. PICK o \in Objs : o = heap[of]
          BY <1>2, <3>3, <4>2
        <5>2. heap'[of] = o
          <6>1. of \in Nat
            BY <1>1, <3>3, <4>2, IdsAreNat
          <6> QED BY <3>1, <3>3, <4>2, <5>1, <6>1, SourceClosed, ClosedStay
        <5>3. IsCopy(o, c)
          BY <3>3, <4>2, <5>1
        <5>4. IsCopy(o, c)'
          BY <3>2, <5>3, KidsStay, CopyStays
        <5> QED BY <5>2, <5>4
      <4> QED BY <3>3, <4>1, <4>2
    <3>5. kid >= Base /\ ~(kid < Base)
      <4>1. Base <= Cur /\ Base \in Nat
        BY <1>1, <1>2, <1>3, <3>1, BaseIs, Tops
      <4> QED BY <2>4, <4>1 DEF Ids
    <3>6. ASSUME NEW i \in Ids
          PROVE  /\ i < Base' => copyOf'[i] = None
                 /\ i >= Base' =>
                      /\ copyOf'[i] < Base'
                      /\ ~Open(i)' => IF ~FromOne(copyOf'[i]) THEN heap'[i] = TitleRead(copyOf'[i])
                                      ELSE IsCopy(heap[copyOf[i]], heap[i])'
      <4>1. CASE i = kid
        BY <2>1, <2>3, <3>2, <3>3, <3>4, <3>5, <4>1
      <4>2. CASE i # kid
        BY <1>1, <1>4, <2>1, <2>3, <2>5, <3>1, <4>2 DEF Copies
      <4> QED BY <4>1, <4>2
    <3> QED BY <2>2, <3>6 DEF Copies
  <2> QED BY <2>1, <2>6, <2>7
<1>8. CASE Export
  <2>1. /\ ~Again /\ Again' /\ Len(heap') = Len(heap) + 1
        /\ Len(stack') = 1 /\ stack'[1].obj = Len(heap) + 1
        /\ \A i \in Ids : copyOf'[i] = copyOf[i]
        /\ copyOf'[Len(heap) + 1] = 1 /\ 1 \in Ids
    BY <1>8, ExportIs, Zenon
  <2>2. Base' = Len(heap) + 1 /\ Base = Len(heap) + 1
    BY ONLY <2>1 DEF Base
  <2>3. /\ Ids' = Ids \cup {Len(heap) + 1} /\ Depth' = {1}
        /\ \A i \in Ids : i < Len(heap) + 1 /\ ~(i >= Len(heap) + 1)
        /\ ~(Len(heap) + 1 < Len(heap) + 1)
    BY ONLY <1>2, <2>1 DEF Ids, Depth
  <2>4. PICK new : new = Len(heap) + 1
    OBVIOUS
  <2>5. Open(new)'
    BY ONLY <2>1, <2>3, <2>4 DEF Open
  <2>6. \A i \in Ids : copyOf'[i] = None
    BY <1>1, <2>1, <2>2, <2>3 DEF Copies
  <2> QED BY ONLY <2>1, <2>2, <2>3, <2>4, <2>5, <2>6 DEF Copies
<1> QED BY <1>5, <1>6, <1>7, <1>8, StepKinds

-----------------------------------------------------------------------------
(* Every step keeps what is read and what is written in lockstep.          *)

(* Of an object that is begun, all there is to write is left.              *)
LEMMA Started ==
  ASSUME Inv, [Next]_vars, NEW k \in Nat, k = Len(stack'), NEW m, stack'[k].obj = m,
         NEW id \in Ids, id < Base', copyOf'[m] = id, NEW raw,
         writing'[k] = Exported(id, raw), NEW o \in Objs, o = heap[id], heap'[id] = o,
         heap'[m] = New(o.cls)
  PROVE  WritingOf(k)'
<1> DEFINE l == Written(o)
           c == New(o.cls)
<1>1. /\ o.cls \in DOMAIN Row /\ o.attrs \subseteq Attrs /\ o.value \in Seq(Pieces)
      /\ o.fields \in [DOMAIN Row[o.cls].kids -> Seq(Nat)] /\ o.content \in Seq(Items)
  BY Parts
<1>2. /\ l \in Objs /\ l.cls = o.cls /\ l.attrs = o.attrs \cup Always(o.cls)
      /\ l.fields = IF Valued(o.cls) THEN c.fields
                    ELSE [tag \in DOMAIN o.fields |-> KidsOf(o, tag)]
      /\ l.content = IF Valued(o.cls) THEN <<>> ELSE o.content
      /\ l.value = o.value
  BY WrittenIs
<1>3. /\ c \in Objs /\ c.cls = o.cls /\ c.attrs = {} /\ c.content = <<>> /\ c.value = <<>>
      /\ \A tag \in DOMAIN Row[o.cls].kids : c.fields[tag] = <<>>
  BY <1>1, NewIs
<1>4. writing'[k].of = id /\ writing'[k].left = l
  BY DEF Exported
<1>5. BuiltTexts(o) /\ BuiltFields(id)
  BY DEF Inv, Built
<1>6. <<>> \o o.value = o.value
  BY <1>1
<1>7. /\ Valued(o.cls) <=> Row[o.cls].text \in {"value", "both"}
      /\ \A tag \in DOMAIN Row[o.cls].kids :
           Row[o.cls].text = "content" => Row[o.cls].kids[tag].how = "mixed"
  BY <1>1, TextKinds
<1> HIDE DEF l, c
<1>8. heap'[stack'[k].obj] = c /\ heap'[writing'[k].of] = o
  BY <1>4 DEF c
<1>9. FromOne(id)
  BY DEF Ids, None, FromOne
<1>10. OfSource(k)'
  BY ONLY <1>2, <1>3, <1>4, <1>6, <1>8, <1>9 DEF OfSource
<1>11. ASSUME Row[o.cls].text \in {"value", "both"} PROVE OfValue(k)'
  <2>1. l.content = <<>> /\ l.fields = c.fields
    BY <1>2, <1>7, <1>11
  <2>2. NoFields(l) /\ NoFields(c)
    BY ONLY <1>2, <1>3, <2>1 DEF NoFields
  <2>3. \A j \in DOMAIN c.content : c.content[j].tag = NoTag
    BY <1>3
  <2>4. k = Len(stack')
    OBVIOUS
  <2> QED BY ONLY <1>4, <1>8, <2>1, <2>2, <2>3, <2>4 DEF OfValue
<1>12. ASSUME Row[o.cls].text = "none" PROVE OfFields(k)' /\ l.content = <<>>
  <2>1. l.fields = [tag \in DOMAIN o.fields |-> KidsOf(o, tag)] /\ l.content = o.content
    BY <1>2, <1>7, <1>12
  <2>2. o.content = <<>>
    BY <1>5, <1>12 DEF BuiltTexts
  <2>3. ~(k < Len(stack'))
    OBVIOUS
  <2>5. ASSUME NEW tag \in DOMAIN Row[o.cls].kids, NEW w, w = Waits(k, tag)'
        PROVE  /\ Len(KidsOf(o, tag)) = Len(c.fields[tag]) + w + Len(l.fields[tag])
               /\ DOMAIN c.fields[tag] = {}
               /\ \A j \in DOMAIN l.fields[tag] :
                    l.fields[tag][j] = KidsOf(o, tag)[Len(c.fields[tag]) + w + j]
               /\ w # 1
    <3>1. w = 0
      BY ONLY <2>3, <2>5 DEF Waits
    <3>2. /\ KidsOf(o, tag) \in Seq(Nat) /\ c.fields[tag] = <<>>
          /\ l.fields[tag] = KidsOf(o, tag)
      BY <1>1, <1>3, <2>1, <2>5, KidsAre
    <3>3. Len(c.fields[tag]) = 0 /\ DOMAIN c.fields[tag] = {}
      BY ONLY <3>2
    <3> QED BY ONLY <3>1, <3>2, <3>3
  <2>6. OfFields(k)'
    BY ONLY <1>4, <1>8, <2>5 DEF OfFields
  <2> QED BY <2>1, <2>2, <2>6
<1>13. ASSUME Row[o.cls].text = "content" PROVE OfContent(k)' /\ NoFields(l)
  <2>1. l.fields = [tag \in DOMAIN o.fields |-> KidsOf(o, tag)] /\ l.content = o.content
    BY <1>2, <1>7, <1>13
  <2>2. NoFields(l)
    <3>1. \A tag \in DOMAIN Row[o.cls].kids : o.fields[tag] = <<>>
      BY <1>5, <1>7, <1>13 DEF BuiltFields
    <3>2. ASSUME NEW tag \in DOMAIN Row[o.cls].kids
          PROVE  l.fields[tag] = o.fields[tag]
      <4>1. tag \in DOMAIN o.fields
        BY ONLY <1>1, tag \in DOMAIN Row[o.cls].kids
      <4>2. KidsOf(o, tag) = o.fields[tag]
        BY <1>13, PlainKids
      <4> QED BY ONLY <2>1, <4>1, <4>2
    <3> QED BY <1>2, <3>1, <3>2 DEF NoFields
  <2>3. Below(k)' = 0 /\ ~(k < Len(stack'))
    BY DEF Below
  <2>4. /\ Len(o.content) = Len(c.content) + 0 + Len(l.content)
        /\ \A j \in DOMAIN c.content : FALSE
        /\ \A j \in DOMAIN l.content : l.content[j] = o.content[Len(c.content) + 0 + j]
    BY <1>1, <1>3, <2>1
  <2>5. OfContent(k)'
    BY ONLY <1>4, <1>8, <2>3, <2>4 DEF OfContent
  <2> QED BY <2>2, <2>5
<1>14. /\ copyOf'[stack'[k].obj] = writing'[k].of /\ writing'[k].of < Base'
  BY <1>4
<1> QED BY ONLY <1>2, <1>3, <1>4, <1>8, <1>10, <1>11, <1>12, <1>13, <1>14 DEF WritingOf

LEMMA StartedString ==
  ASSUME Inv, [Next]_vars, NEW k \in Nat, k = Len(stack'), NEW m, stack'[k].obj = m,
         Base' \in Nat, 0 < Base', NEW kid \in Nat, copyOf'[m] = AsString(kid).of,
         writing'[k] = AsString(kid),
         heap'[m] = New("docTitleType")
  PROVE  WritingOf(k)'
<1> DEFINE l == AsString(kid).left
           of == AsString(kid).of
           c == New("docTitleType")
<1>1. /\ "docTitleType" \in DOMAIN Row /\ Row["docTitleType"].text = "both"
  BY NamesAssumption
<1>2. /\ l.cls = "docTitleType" /\ l.attrs = {} /\ l.content = <<>> /\ l.value = TitleText(of)
      /\ NoFields(l) /\ ~FromOne(of) /\ of \in Int
  BY AsStringIs DEF Writes
<1>3. /\ c.cls = "docTitleType" /\ c.attrs = {} /\ c.content = <<>> /\ c.value = <<>>
      /\ \A tag \in DOMAIN Row["docTitleType"].kids : c.fields[tag] = <<>>
  BY <1>1, NewIs
<1>4. <<>> \o TitleText(of) = TitleText(of)
  BY DEF TitleText
<1>5. writing'[k].of = of /\ writing'[k].left = l /\ heap'[stack'[k].obj] = c
  BY <1>2
<1>6. /\ copyOf'[stack'[k].obj] = of /\ of < Base' /\ k = Len(stack')
  BY <1>2 DEF None, FromOne
<1> HIDE DEF l, c, of
<1>7. NoFields(c)
  BY ONLY <1>3 DEF NoFields
<1>8. OfSource(k)'
  BY ONLY <1>2, <1>3, <1>4, <1>5 DEF OfSource
<1>9. OfValue(k)'
  <2>1. \A j \in DOMAIN c.content : c.content[j].tag = NoTag
    BY ONLY <1>3
  <2> QED BY ONLY <1>2, <1>5, <1>6, <1>7, <2>1 DEF OfValue
<1> QED BY ONLY <1>1, <1>2, <1>3, <1>5, <1>6, <1>8, <1>9 DEF WritingOf

(* What is not the last stays as it is.                                    *)
LEMMA WritingStays ==
  ASSUME Inv, [Next]_vars, Again, NEW k \in Depth, Base' = Base,
         writing'[k] = writing[k], stack'[k] = stack[k],
         heap'[stack[k].obj] = heap[stack[k].obj],
         k < Len(stack') <=> k < Len(stack),
         k < Len(stack) => stack'[k + 1] = stack[k + 1],
         k = Len(stack') <=> k = Len(stack)
  PROVE  WritingOf(k)'
<1>1. WritingOf(k) /\ Types /\ Stacked
  BY DEF Inv, Lockstep
<1>2. PICK m \in Ids, c \in Objs, w \in Writes :
        m = stack[k].obj /\ c = heap[m] /\ w = writing[k]
  <2>1. stack[k].obj \in Ids
    BY <1>1 DEF Stacked
  <2>2. writing \in Seq(Writes) /\ Len(writing) = Len(stack)
    BY <1>1 DEF Inv, Types, Lockstep, Writes
  <2>3. writing[k] \in Writes
    BY <2>2 DEF Depth
  <2> QED BY <1>1, <2>1, <2>3, Tops
<1>3. w.of \in Int /\ w.of < Base /\ copyOf[m] = w.of
  BY <1>1, <1>2 DEF WritingOf, Writes
<1>4. PICK o : o = heap[w.of]
  OBVIOUS
<1>5. FromOne(w.of) => heap'[w.of] = o
  <2>1. Base \in 1 .. Len(heap) + 1 /\ Len(heap) \in Nat
    BY <1>1, BaseIs, Tops
  <2>2. FromOne(w.of) => w.of \in Ids
    BY <1>3, <2>1 DEF Ids, None, FromOne
  <2>3. FromOne(w.of) => w.of \in Nat
    BY <1>1, <2>2, IdsAreNat
  <2> QED BY <1>3, <1>4, <2>2, <2>3, SourceClosed, ClosedStay
<1>6. /\ \A tag \in DOMAIN c.fields : \A j \in DOMAIN c.fields[tag] :
           /\ heap'[c.fields[tag][j]] = heap[c.fields[tag][j]]
           /\ copyOf'[c.fields[tag][j]] = copyOf[c.fields[tag][j]]
      /\ \A j \in DOMAIN c.content :
           c.content[j].tag # NoTag => copyOf'[c.content[j].obj] = copyOf[c.content[j].obj]
  BY <1>2, KidsStay
<1>7. copyOf'[m] = copyOf[m] /\ (k < Len(stack) => copyOf'[stack[k + 1].obj]
                                                     = copyOf[stack[k + 1].obj])
  <2>1. k < Len(stack) => k + 1 \in Depth
    BY DEF Depth
  <2>2. k < Len(stack) => stack[k + 1].obj \in Ids
    BY <1>1, <2>1 DEF Stacked
  <2> QED BY <1>2, <2>2, Later
<1>8. /\ \A tag : Waits(k, tag)' = Waits(k, tag)
      /\ Below(k)' = Below(k)
  BY DEF Waits, Below
<1>9. OfSource(k)'
  <2>1. OfSource(k)
    BY <1>1 DEF WritingOf
  <2> QED BY <1>2, <1>4, <1>5, <2>1 DEF OfSource
<1>10. OfValue(k) => OfValue(k)'
  BY <1>2 DEF OfValue
<1>11. /\ Row[c.cls].text \in {"none", "content"} => FromOne(w.of)
       /\ FromOne(w.of) => o.cls = c.cls
  <2>1. OfSource(k)
    BY <1>1 DEF WritingOf
  <2>2. ~FromOne(w.of) => c.cls = "docTitleType"
    BY <1>2, <2>1 DEF OfSource
  <2>3. FromOne(w.of) => o.cls = c.cls
    BY <1>2, <1>4, <2>1 DEF OfSource
  <2> QED BY <2>2, <2>3, NamesAssumption
<1>12. ASSUME Row[c.cls].text = "none", OfFields(k) PROVE OfFields(k)'
  <2>0. /\ heap[stack[k].obj] = c /\ heap[writing[k].of] = o /\ writing[k] = w
        /\ heap'[stack'[k].obj] = c /\ heap'[writing'[k].of] = o /\ writing'[k] = w
    BY <1>2, <1>4, <1>5, <1>11, <1>12
  <2>1. c.fields \in [DOMAIN Row[o.cls].kids -> Seq(Nat)]
    BY <1>11, <1>12, Parts
  <2>2. ASSUME NEW tag \in DOMAIN Row[o.cls].kids
        PROVE  /\ Len(KidsOf(o, tag))
                    = Len(c.fields[tag]) + Waits(k, tag)' + Len(w.left.fields[tag])
               /\ \A j \in DOMAIN c.fields[tag] :
                    KidIsCopy(o.cls, tag, KidsOf(o, tag)[j], c.fields[tag][j])'
               /\ \A j \in DOMAIN w.left.fields[tag] :
                    w.left.fields[tag][j]
                      = KidsOf(o, tag)[Len(c.fields[tag]) + Waits(k, tag)' + j]
               /\ Waits(k, tag)' = 1 =>
                    copyOf'[stack'[k + 1].obj] =
                      IF TitleOf(o.cls, tag) THEN TitleFrom(KidsOf(o, tag)[Len(c.fields[tag]) + 1])
                      ELSE KidsOf(o, tag)[Len(c.fields[tag]) + 1]
    <3>1. /\ Len(KidsOf(o, tag))
                = Len(c.fields[tag]) + Waits(k, tag) + Len(w.left.fields[tag])
          /\ \A j \in DOMAIN c.fields[tag] :
               KidIsCopy(o.cls, tag, KidsOf(o, tag)[j], c.fields[tag][j])
          /\ \A j \in DOMAIN w.left.fields[tag] :
               w.left.fields[tag][j]
                 = KidsOf(o, tag)[Len(c.fields[tag]) + Waits(k, tag) + j]
          /\ Waits(k, tag) = 1 =>
               copyOf[stack[k + 1].obj] =
                 IF TitleOf(o.cls, tag) THEN TitleFrom(KidsOf(o, tag)[Len(c.fields[tag]) + 1])
                 ELSE KidsOf(o, tag)[Len(c.fields[tag]) + 1]
      BY ONLY <1>12, <2>0, <2>2 DEF OfFields
    <3>2. ASSUME NEW j \in DOMAIN c.fields[tag]
          PROVE  KidIsCopy(o.cls, tag, KidsOf(o, tag)[j], c.fields[tag][j])'
      <4>1. KidIsCopy(o.cls, tag, KidsOf(o, tag)[j], c.fields[tag][j])
        BY <3>1, <3>2
      <4>2. /\ heap'[c.fields[tag][j]] = heap[c.fields[tag][j]]
            /\ copyOf'[c.fields[tag][j]] = copyOf[c.fields[tag][j]]
        BY <1>6, <2>1, <2>2, <3>2
      <4> QED BY ONLY <4>1, <4>2 DEF KidIsCopy
    <3>3. Waits(k, tag) = 1 => k < Len(stack)
      BY DEF Waits
    <3>4. /\ Waits(k, tag)' = Waits(k, tag)
          /\ Waits(k, tag) = 1 => /\ stack'[k + 1] = stack[k + 1]
                                  /\ copyOf'[stack[k + 1].obj] = copyOf[stack[k + 1].obj]
      BY <1>7, <1>8, <3>3
    <3> QED BY ONLY <3>1, <3>2, <3>4
  <2> QED BY ONLY <2>0, <2>2 DEF OfFields
<1>13. ASSUME Row[c.cls].text = "content", OfContent(k) PROVE OfContent(k)'
  <2>0. /\ heap[stack[k].obj] = c /\ heap[writing[k].of] = o /\ writing[k] = w
        /\ heap'[stack'[k].obj] = c /\ heap'[writing'[k].of] = o /\ writing'[k] = w
    BY <1>2, <1>4, <1>5, <1>11, <1>13
  <2>1. \A j \in DOMAIN c.content : ItemIsCopy(o.content[j], c.content[j])
    BY ONLY <1>13, <2>0 DEF OfContent
  <2>2. \A j \in DOMAIN c.content : ItemIsCopy(o.content[j], c.content[j])'
    BY <1>6, <2>1 DEF ItemIsCopy
  <2>3. k < Len(stack) <=> k < Len(stack')
    OBVIOUS
  <2>4. k < Len(stack) => stack'[k + 1] = stack[k + 1]
    OBVIOUS
  <2> QED BY ONLY <1>7, <1>8, <1>13, <2>0, <2>2, <2>3, <2>4 DEF OfContent
<1>14. /\ writing[k].left.cls = c.cls
       /\ Row[c.cls].text \in {"value", "both"} => OfValue(k)
       /\ Row[c.cls].text = "none" => OfFields(k) /\ writing[k].left.content = <<>>
       /\ Row[c.cls].text = "content" => OfContent(k) /\ NoFields(writing[k].left)
  BY <1>1, <1>2 DEF WritingOf
<1>15. /\ copyOf'[stack'[k].obj] = writing'[k].of /\ writing'[k].of < Base'
       /\ writing'[k] = writing[k] /\ heap'[stack'[k].obj] = c
  BY <1>2, <1>3, <1>7
<1> QED BY ONLY <1>9, <1>10, <1>12, <1>13, <1>14, <1>15 DEF WritingOf

(* What an object is written from stays, and is built as it should be.     *)
SourceIs(of, o, c) ==
  /\ of \in Int /\ of < Base
  /\ FromOne(of) => /\ of \in Ids /\ heap'[of] = o /\ o \in Objs /\ o.cls = c.cls
                  /\ BuiltFields(of) /\ BuiltContent(of) /\ BuiltTexts(o)
  /\ ~FromOne(of) => c.cls = "docTitleType"
  /\ Row[c.cls].text \in {"none", "content"} => FromOne(of)

LEMMA Sources ==
  ASSUME Inv, [Next]_vars, Again, NEW k \in Depth, NEW of, of = writing[k].of,
         NEW o, o = heap[of], NEW c, c = heap[stack[k].obj]
  PROVE  SourceIs(of, o, c)
<1>1. WritingOf(k) /\ Types /\ Stacked /\ Built
  BY DEF Inv, Lockstep
<1>2. writing[k] \in Writes
  <2>1. writing \in Seq(Writes) /\ Len(writing) = Len(stack)
    BY <1>1 DEF Inv, Types, Lockstep, Writes
  <2> QED BY <2>1 DEF Depth
<1>3. of \in Int /\ of < Base /\ OfSource(k)
  BY <1>1, <1>2 DEF WritingOf, Writes
<1>4. FromOne(of) => of \in Ids
  <2>1. Base \in 1 .. Len(heap) + 1 /\ Len(heap) \in Nat
    BY <1>1, BaseIs, Tops
  <2> QED BY <1>3, <2>1 DEF Ids, None, FromOne
<1>5. FromOne(of) => heap'[of] = o
  <2>1. FromOne(of) => of \in Nat
    BY <1>1, <1>4, IdsAreNat
  <2> QED BY <1>3, <1>4, <2>1, SourceClosed, ClosedStay
<1>6. FromOne(of) => /\ o \in Objs
                   /\ BuiltFields(of) /\ BuiltContent(of) /\ BuiltTexts(o)
  BY <1>1, <1>4, Tops DEF Built
<1>7. /\ ~FromOne(of) => c.cls = "docTitleType"
      /\ FromOne(of) => o.cls = c.cls
  BY <1>3 DEF OfSource
<1>8. Row[c.cls].text \in {"none", "content"} => FromOne(of)
  BY <1>7, NamesAssumption
<1> QED BY <1>3, <1>4, <1>5, <1>6, <1>7, <1>8 DEF SourceIs

LEMMA AttributeLock ==
  ASSUME Inv, [Next]_vars, phase = "rereading", NEW a, Attribute(a),
         NEW n, n = Len(stack)
  PROVE  WritingOf(n)'
<1>1. /\ Types /\ Stacked /\ Again /\ Base' = Base /\ n \in Depth /\ n \in Nat
      /\ stack' = stack /\ copyOf' = copyOf /\ Len(writing) = n
  <2>1. Local
    <3>1. PICK o, L : /\ o = [Top EXCEPT !.attrs = Top.attrs \cup {a}]
                      /\ L = [Left EXCEPT !.attrs = Left.attrs \ {a}]
      OBVIOUS
    <3>2. Becomes(o, L) /\ o.cls = Top.cls /\ Top = heap[Cur]
      BY <3>1, AttributeIs, Tops, Zenon DEF Inv
    <3> QED BY ONLY <3>2 DEF Becomes, Alone, Local, Again
  <2>2. Types /\ Stacked /\ Again
    BY DEF Inv, Again
  <2> QED BY <2>1, <2>2, SamePlaces, Tops, Lefts DEF Local
<1>2. PICK m, c, of, o, l : /\ m = Cur /\ c = heap[m] /\ of = writing[n].of
                            /\ o = heap[of] /\ l = Left
  OBVIOUS
<1>3. PICK d, L : /\ d = [Top EXCEPT !.attrs = Top.attrs \cup {a}]
                  /\ L = [Left EXCEPT !.attrs = Left.attrs \ {a}]
  OBVIOUS
<1>4. /\ Becomes(d, L) /\ d.cls = c.cls /\ d.attrs = c.attrs \cup {a}
      /\ d.fields = c.fields /\ d.content = c.content /\ d.value = c.value
      /\ a \in l.attrs /\ L.cls = l.cls /\ L.attrs = l.attrs \ {a}
      /\ L.fields = l.fields /\ L.content = l.content /\ L.value = l.value
  <2>1. Top = c
    BY <1>1, <1>2, Tops
  <2>2. /\ Becomes(d, L) /\ d.cls = Top.cls /\ d.attrs = Top.attrs \cup {a}
        /\ d.fields = Top.fields /\ d.content = Top.content /\ d.value = Top.value
    BY <1>3, AttributeIs, Zenon
  <2>3. /\ a \in Left.attrs /\ L.cls = Left.cls /\ L.attrs = Left.attrs \ {a}
        /\ L.fields = Left.fields /\ L.content = Left.content /\ L.value = Left.value
    BY <1>3, AttributeIs, Zenon
  <2> QED BY ONLY <1>2, <2>1, <2>2, <2>3
<1>5. /\ heap'[m] = d /\ writing'[n].of = of /\ writing'[n].left = L
      /\ writing[n].left = l /\ m = stack[n].obj /\ m = stack'[n].obj
  BY <1>1, <1>2, <1>4, Tops, Lefts DEF Becomes, Leaving
<1>6. /\ of \in Int /\ of < Base
      /\ FromOne(of) => heap'[of] = o /\ o.cls = c.cls
      /\ Row[c.cls].text \in {"none", "content"} => FromOne(of)
  <2>1. c = heap[stack[n].obj] /\ o = heap[of] /\ of = writing[n].of
    BY ONLY <1>2, <1>5
  <2>2. n \in Depth /\ Again
    BY <1>1
  <2>3. SourceIs(of, o, c)
    BY <2>1, <2>2, Sources
  <2> QED BY ONLY <2>3 DEF SourceIs
<1>7. WritingOf(n)
  BY <1>1 DEF Inv, Lockstep
<1>8. OfSource(n)'
  <2>1. OfSource(n)
    BY <1>7 DEF WritingOf
  <2>2. CASE ~FromOne(of)
    <3>1. c.attrs = {} /\ l.attrs = {}
      BY ONLY <1>2, <1>5, <2>1, <2>2 DEF OfSource
    <3> QED BY <1>4, <3>1
  <2>3. CASE FromOne(of)
    <3>1. /\ c.cls = o.cls /\ c.attrs \cup l.attrs = o.attrs \cup Always(o.cls)
          /\ c.value \o l.value = o.value
      BY ONLY <1>2, <1>5, <2>1, <2>3 DEF OfSource
    <3>2. d.attrs \cup L.attrs = c.attrs \cup l.attrs
      BY ONLY <1>4
    <3> QED BY ONLY <1>4, <1>5, <1>6, <2>3, <3>1, <3>2 DEF OfSource
  <2> QED BY <2>2, <2>3
<1>9. /\ \A tag : Waits(n, tag)' = Waits(n, tag)
      /\ Below(n)' = Below(n) /\ Below(n) = 0
  BY <1>1 DEF Waits, Below
<1>10. /\ \A tag \in DOMAIN c.fields : \A j \in DOMAIN c.fields[tag] :
            /\ heap'[c.fields[tag][j]] = heap[c.fields[tag][j]]
            /\ copyOf'[c.fields[tag][j]] = copyOf[c.fields[tag][j]]
       /\ \A j \in DOMAIN c.content :
            c.content[j].tag # NoTag => copyOf'[c.content[j].obj] = copyOf[c.content[j].obj]
  BY <1>1, <1>2, KidsStay, Tops
<1>11. c \in Objs /\ c.fields \in [DOMAIN Row[c.cls].kids -> Seq(Nat)]
  BY <1>1, <1>2, Tops, Parts
<1>12. ASSUME Row[c.cls].text = "none", OfFields(n) PROVE OfFields(n)'
  <2>0. heap[stack[n].obj] = c /\ heap[writing[n].of] = o /\ writing[n].left = l
        /\ heap'[stack'[n].obj] = d /\ heap'[writing'[n].of] = o /\ writing'[n].left = L
        /\ o.cls = c.cls
    BY <1>2, <1>5, <1>6, <1>12
  <2>1. ASSUME NEW tag, Waits(n, tag)' = 1 PROVE FALSE
    BY <1>1, <2>1 DEF Waits
  <2>2. ASSUME NEW tag \in DOMAIN Row[o.cls].kids, NEW w, w = Waits(n, tag)
        PROVE  /\ Len(KidsOf(o, tag)) = Len(c.fields[tag]) + w + Len(l.fields[tag])
               /\ \A j \in DOMAIN c.fields[tag] :
                    KidIsCopy(o.cls, tag, KidsOf(o, tag)[j], c.fields[tag][j])'
               /\ \A j \in DOMAIN l.fields[tag] :
                    l.fields[tag][j] = KidsOf(o, tag)[Len(c.fields[tag]) + w + j]
               /\ Waits(n, tag)' = w /\ w # 1
    <3>1. /\ Len(KidsOf(o, tag)) = Len(c.fields[tag]) + w + Len(l.fields[tag])
          /\ \A j \in DOMAIN c.fields[tag] :
               KidIsCopy(o.cls, tag, KidsOf(o, tag)[j], c.fields[tag][j])
          /\ \A j \in DOMAIN l.fields[tag] :
               l.fields[tag][j] = KidsOf(o, tag)[Len(c.fields[tag]) + w + j]
      BY ONLY <1>12, <2>0, <2>2 DEF OfFields
    <3>2. ASSUME NEW j \in DOMAIN c.fields[tag]
          PROVE  KidIsCopy(o.cls, tag, KidsOf(o, tag)[j], c.fields[tag][j])'
      <4>1. KidIsCopy(o.cls, tag, KidsOf(o, tag)[j], c.fields[tag][j])
        BY <3>1, <3>2
      <4>2. /\ heap'[c.fields[tag][j]] = heap[c.fields[tag][j]]
            /\ copyOf'[c.fields[tag][j]] = copyOf[c.fields[tag][j]]
        BY <1>10, <1>11, <2>0, <2>2, <3>2
      <4> QED BY ONLY <4>1, <4>2 DEF KidIsCopy
    <3>3. Waits(n, tag)' = w /\ w # 1
      BY <1>9, <2>1, <2>2
    <3> QED BY <3>1, <3>2, <3>3
  <2> QED BY ONLY SMTT(60), <1>4, <2>0, <2>2 DEF OfFields
<1>13. ASSUME Row[c.cls].text = "content", OfContent(n) PROVE OfContent(n)'
  <2>0. heap[stack[n].obj] = c /\ heap[writing[n].of] = o /\ writing[n].left = l
        /\ heap'[stack'[n].obj] = d /\ heap'[writing'[n].of] = o /\ writing'[n].left = L
        /\ o.cls = c.cls
    BY <1>2, <1>5, <1>6, <1>13
  <2>1. \A j \in DOMAIN c.content : ItemIsCopy(o.content[j], c.content[j])
    BY ONLY <1>13, <2>0 DEF OfContent
  <2>2. \A j \in DOMAIN c.content : ItemIsCopy(o.content[j], c.content[j])'
    BY <1>10, <2>1 DEF ItemIsCopy
  <2>3. ~(n < Len(stack'))
    BY <1>1
  <2>4. /\ Len(o.content) = Len(c.content) + Below(n) + Len(l.content)
        /\ \A j \in DOMAIN l.content :
             l.content[j] = o.content[Len(c.content) + Below(n) + j]
    BY ONLY <1>13, <2>0 DEF OfContent
  <2>5. /\ Len(o.content) = Len(d.content) + Below(n)' + Len(L.content)
        /\ \A j \in DOMAIN L.content :
             L.content[j] = o.content[Len(d.content) + Below(n)' + j]
        /\ \A j \in DOMAIN d.content : ItemIsCopy(o.content[j], d.content[j])'
    BY ONLY <1>4, <1>9, <2>2, <2>4
  <2> QED BY ONLY <2>0, <2>3, <2>5 DEF OfContent
<1>14. ASSUME Row[c.cls].text \in {"value", "both"}, OfValue(n) PROVE OfValue(n)'
  <2>1. /\ l.content = <<>> /\ NoFields(l) /\ NoFields(c)
        /\ \A j \in DOMAIN c.content : c.content[j].tag = NoTag
    BY ONLY <1>2, <1>5, <1>14 DEF OfValue
  <2>2. NoFields(L) /\ NoFields(d)
    BY ONLY <1>4, <2>1 DEF NoFields
  <2>3. n = Len(stack')
    BY <1>1
  <2> QED BY ONLY <1>4, <1>5, <2>1, <2>2, <2>3 DEF OfValue
<1>15. /\ l.cls = c.cls /\ copyOf[m] = of
       /\ Row[c.cls].text \in {"value", "both"} => OfValue(n)
       /\ Row[c.cls].text = "none" => OfFields(n) /\ l.content = <<>>
       /\ Row[c.cls].text = "content" => OfContent(n) /\ NoFields(l)
  BY ONLY <1>2, <1>5, <1>7 DEF WritingOf
<1>16. NoFields(l) => NoFields(L)
  BY ONLY <1>4 DEF NoFields
<1> QED BY ONLY <1>1, <1>4, <1>5, <1>6, <1>8, <1>12, <1>13, <1>14, <1>15, <1>16
    DEF WritingOf

LEMMA MoveHead ==
  ASSUME NEW S, NEW s \in Seq(S), NEW t \in Seq(S), t # <<>>
  PROVE  /\ Append(s, Head(t)) \o Tail(t) = s \o t
         /\ Head(t) \in S /\ (s \o t)[Len(s) + 1] = Head(t) /\ Len(s) + 1 \in DOMAIN (s \o t)
<1> DEFINE a == Append(s, Head(t))
           r == Tail(t)
<1>1. /\ Head(t) \in S /\ Head(t) = t[1] /\ r \in Seq(S) /\ Len(t) = Len(r) + 1
      /\ \A i \in 1 .. Len(r) : r[i] = t[i + 1]
      /\ Len(s) \in Nat /\ Len(r) \in Nat
  BY Headed
<1>2. /\ a \in Seq(S) /\ Len(a) = Len(s) + 1 /\ a[Len(s) + 1] = Head(t)
      /\ \A i \in 1 .. Len(s) : a[i] = s[i]
  BY <1>1, Appended
<1> HIDE DEF a, r
<1>3. /\ a \o r \in Seq(S) /\ Len(a \o r) = Len(a) + Len(r)
      /\ \A i \in 1 .. Len(a) + Len(r) :
           (a \o r)[i] = IF i <= Len(a) THEN a[i] ELSE r[i - Len(a)]
  <2>1. a \in Seq(S) /\ r \in Seq(S)
    BY ONLY <1>1, <1>2
  <2> QED BY ONLY <2>1
<1>4. /\ s \o t \in Seq(S) /\ Len(s \o t) = Len(s) + Len(t)
      /\ \A i \in 1 .. Len(s) + Len(t) :
           (s \o t)[i] = IF i <= Len(s) THEN s[i] ELSE t[i - Len(s)]
  OBVIOUS
<1>5. Len(a) + Len(r) = Len(s) + Len(t)
  BY ONLY <1>1, <1>2
<1>6. ASSUME NEW i \in 1 .. Len(s) + Len(t) PROVE (a \o r)[i] = (s \o t)[i]
  <2>1. CASE i <= Len(s)
    <3>1. i \in 1 .. Len(s) /\ i <= Len(a)
      BY ONLY <1>1, <1>2, <2>1, <1>6
    <3> QED BY ONLY <1>2, <1>3, <1>4, <1>5, <1>6, <2>1, <3>1
  <2>2. CASE i = Len(s) + 1
    <3>1. i <= Len(a) /\ ~(i <= Len(s)) /\ i - Len(s) = 1
      BY ONLY <1>1, <1>2, <2>2
    <3> QED BY ONLY <1>1, <1>2, <1>3, <1>4, <1>5, <1>6, <2>2, <3>1
  <2>3. CASE i > Len(s) + 1
    <3>1. /\ ~(i <= Len(a)) /\ ~(i <= Len(s)) /\ i - Len(a) \in 1 .. Len(r)
          /\ i - Len(a) + 1 = i - Len(s)
      BY ONLY <1>1, <1>2, <1>6, <2>3
    <3> QED BY ONLY <1>1, <1>3, <1>4, <1>5, <1>6, <3>1
  <2>4. i <= Len(s) \/ i = Len(s) + 1 \/ i > Len(s) + 1
    BY ONLY <1>1, <1>6
  <2> QED BY <2>1, <2>2, <2>3, <2>4
<1>7. a \o r = s \o t
  BY ONLY <1>3, <1>4, <1>5, <1>6
<1>8. (s \o t)[Len(s) + 1] = Head(t) /\ Len(s) + 1 \in DOMAIN (s \o t)
  <2>1. Len(s) + 1 \in 1 .. Len(s) + Len(t) /\ ~(Len(s) + 1 <= Len(s))
        /\ Len(s) + 1 - Len(s) = 1
    BY ONLY <1>1
  <2> QED BY ONLY <1>1, <1>4, <2>1
<1> QED BY <1>1, <1>7, <1>8 DEF a, r

LEMMA NoneJoined ==
  ASSUME NEW S, NEW s \in Seq(S), NEW t \in Seq(S), s \o t = <<>>
  PROVE  s = <<>> /\ t = <<>>
<1>1. Len(s \o t) = Len(s) + Len(t) /\ Len(s \o t) = 0
  OBVIOUS
<1>2. Len(s) \in Nat /\ Len(t) \in Nat
  OBVIOUS
<1>3. Len(s) = 0 /\ Len(t) = 0
  BY ONLY <1>1, <1>2
<1> QED BY <1>3

LEMMA TextLock ==
  ASSUME Inv, [Next]_vars, phase = "rereading", NEW p \in Piece, Text(p),
         NEW n, n = Len(stack)
  PROVE  WritingOf(n)'
<1>2. PICK m, c, of, o, l : /\ m = Cur /\ c = heap[m] /\ of = writing[n].of
                            /\ o = heap[of] /\ l = Left
  OBVIOUS
<1>3. PICK d, L :
        /\ d = Takes(Top, p)
        /\ L = [Left EXCEPT
                  !.value = IF Left.value = <<>> THEN Left.value ELSE Tail(Left.value),
                  !.content = IF Left.content = <<>> THEN Left.content
                              ELSE Tail(Left.content)]
  OBVIOUS
<1>4. /\ Becomes(d, L) /\ p \in Pieces /\ p \in NextText /\ l.attrs = {}
      /\ L.cls = l.cls /\ L.attrs = {} /\ L.fields = l.fields
      /\ L.content = IF l.content = <<>> THEN l.content ELSE Tail(l.content)
      /\ L.value = IF l.value = <<>> THEN l.value ELSE Tail(l.value)
  <2>1. /\ Becomes(d, L) /\ p \in Pieces
        /\ p \in NextText /\ Left.attrs = {}
        /\ L.cls = Left.cls /\ L.attrs = Left.attrs /\ L.fields = Left.fields
        /\ L.content = IF Left.content = <<>> THEN Left.content ELSE Tail(Left.content)
        /\ L.value = IF Left.value = <<>> THEN Left.value ELSE Tail(Left.value)
    BY <1>3, TextIs, Zenon
  <2>2. l = Left
    BY <1>2
  <2> QED BY ONLY <2>1, <2>2
<1>1. /\ Types /\ Stacked /\ Again /\ Base' = Base /\ n \in Depth /\ n \in Nat
      /\ stack' = stack /\ copyOf' = copyOf /\ Len(writing) = n
      /\ Top = c /\ c \in Objs /\ m \in Ids /\ m = stack[n].obj
      /\ l = writing[n].left /\ l \in Objs
  <2>1. Types /\ Stacked /\ Again
    BY DEF Inv, Again
  <2>2. stack' = stack /\ copyOf' = copyOf /\ Base' = Base
    BY ONLY <1>4, <2>1 DEF Becomes, Base, Again, Alone
  <2> QED BY <1>2, <2>1, <2>2, Tops, Lefts
<1>5. /\ heap'[m] = d /\ writing'[n].of = of /\ writing'[n].left = L
      /\ m = stack'[n].obj
  <2>1. n \in 1 .. Len(writing)
    BY ONLY <1>1 DEF Depth
  <2> QED BY <1>1, <1>2, <1>4, <2>1 DEF Becomes, Leaving
<1>6. /\ of \in Int /\ of < Base
      /\ FromOne(of) => /\ heap'[of] = o /\ o.cls = c.cls /\ o \in Objs
                      /\ BuiltContent(of) /\ BuiltTexts(o)
      /\ ~FromOne(of) => c.cls = "docTitleType"
      /\ Row[c.cls].text \in {"none", "content"} => FromOne(of)
  <2>1. c = heap[stack[n].obj] /\ o = heap[of] /\ of = writing[n].of
    BY ONLY <1>1, <1>2
  <2>2. n \in Depth /\ Again
    BY <1>1
  <2>3. SourceIs(of, o, c)
    BY <2>1, <2>2, Sources
  <2> QED BY ONLY <2>3 DEF SourceIs
<1>7. /\ l.cls = c.cls /\ copyOf[m] = of /\ OfSource(n)
      /\ Row[c.cls].text \in {"value", "both"} => OfValue(n)
      /\ Row[c.cls].text = "none" => OfFields(n) /\ l.content = <<>>
      /\ Row[c.cls].text = "content" => OfContent(n) /\ NoFields(l)
  <2>1. WritingOf(n)
    BY <1>1 DEF Inv, Lockstep
  <2>2. heap[stack[n].obj] = c /\ writing[n].of = of /\ writing[n].left = l
        /\ m = stack[n].obj
    BY <1>1, <1>2
  <2> QED BY ONLY <2>1, <2>2 DEF WritingOf
<1>8. /\ d.cls = c.cls /\ d.attrs = c.attrs /\ d.fields = c.fields
      /\ d.content = IF In(c, p) THEN Append(c.content, Said(p)) ELSE c.content
      /\ d.value = IF Row[c.cls].text \in {"value", "both"}
                   THEN Append(c.value, Kept(c, p)) ELSE c.value
      /\ Said(p) \in Items
  BY <1>1, <1>3, <1>4, TakesIs
<1>9. /\ c.value \in Seq(Pieces) /\ l.value \in Seq(Pieces)
      /\ c.content \in Seq(Items) /\ l.content \in Seq(Items)
      /\ c.cls \in DOMAIN Row
  BY <1>1, Parts
<1>10. \/ l.value # <<>> /\ p = Head(l.value)
       \/ l.content # <<>> /\ Head(l.content).tag = NoTag /\ p = Head(l.content).text
  BY <1>2, <1>4 DEF NextText
<1>11. Said(p).tag = NoTag /\ Said(p).text = p
  BY DEF Said
<1>12. /\ ~FromOne(of) => /\ c.attrs = {} /\ c.value \o l.value = TitleText(of)
       /\ FromOne(of) => /\ c.attrs \cup l.attrs = o.attrs \cup Always(o.cls)
                       /\ c.value \o l.value = o.value
  BY <1>1, <1>2, <1>7 DEF OfSource
<1>13. ASSUME d.value \o L.value = c.value \o l.value PROVE OfSource(n)'
  BY ONLY <1>4, <1>5, <1>6, <1>8, <1>12, <1>13 DEF OfSource
<1>14. ASSUME Row[c.cls].text \in {"value", "both"} PROVE WritingOf(n)'
  <2>1. /\ l.content = <<>> /\ NoFields(l) /\ NoFields(c)
        /\ \A j \in DOMAIN c.content : c.content[j].tag = NoTag
    <3>1. OfValue(n)
      BY <1>7, <1>14
    <3>2. heap[stack[n].obj] = c /\ writing[n].left = l
      BY <1>1, <1>2
    <3> QED BY ONLY <3>1, <3>2 DEF OfValue
  <2>2. l.value # <<>> /\ p = Head(l.value) /\ L.value = Tail(l.value) /\ L.content = <<>>
    BY <1>4, <1>10, <2>1
  <2>3. /\ Append(c.value, p) \o Tail(l.value) = c.value \o l.value
        /\ (c.value \o l.value)[Len(c.value) + 1] = p
        /\ Len(c.value) + 1 \in DOMAIN (c.value \o l.value)
    BY ONLY <1>9, <2>2, MoveHead
  <2>4. Kept(c, p) = p
    <3>1. ASSUME c.cls = "Text" PROVE p.kind # "cdata"
      <4>1. FromOne(of)
        BY <1>6, <3>1
      <4>2. \A j \in DOMAIN o.value : o.value[j].kind # "cdata"
        BY <1>6, <3>1, <4>1 DEF BuiltTexts
      <4> QED BY <1>12, <2>3, <4>1, <4>2
    <3> QED BY <3>1 DEF Kept
  <2>5. d.value = Append(c.value, p)
    BY <1>8, <1>14, <2>4
  <2>6. OfSource(n)'
    BY <1>13, <2>2, <2>3, <2>5
  <2>7. \A j \in DOMAIN d.content : d.content[j].tag = NoTag
    <3>1. CASE In(c, p)
      <4>1. /\ d.content \in Seq(Items) /\ Len(d.content) = Len(c.content) + 1
            /\ \A k \in 1 .. Len(c.content) : d.content[k] = c.content[k]
            /\ d.content[Len(c.content) + 1] = Said(p)
        BY <1>8, <1>9, <3>1, Appended
      <4>2. \A j \in DOMAIN d.content : j \in 1 .. Len(c.content) \/ j = Len(c.content) + 1
        BY ONLY <1>9, <4>1
      <4>3. DOMAIN c.content = 1 .. Len(c.content)
        BY <1>9
      <4> QED BY ONLY <1>11, <2>1, <4>1, <4>2, <4>3
    <3>2. CASE ~In(c, p)
      BY <1>8, <2>1, <3>2
    <3> QED BY <3>1, <3>2
  <2>8. NoFields(L) /\ NoFields(d)
    BY ONLY <1>4, <1>8, <2>1 DEF NoFields
  <2>9. OfValue(n)'
    <3>1. n = Len(stack')
      BY <1>1
    <3> QED BY ONLY <1>5, <2>2, <2>7, <2>8, <3>1 DEF OfValue
  <2>10. Row[c.cls].text # "none" /\ Row[c.cls].text # "content"
    BY <1>14
  <2>11. copyOf'[m] = of /\ of < Base'
    BY <1>1, <1>6, <1>7
  <2> QED BY ONLY <1>4, <1>5, <1>7, <1>8, <2>6, <2>9, <2>10, <2>11 DEF WritingOf
<1>15. ASSUME Row[c.cls].text \in {"none", "content"}
       PROVE  FromOne(of) /\ c.value = <<>> /\ l.value = <<>>
  <2>1. FromOne(of)
    BY <1>6, <1>15
  <2>2. o.value = <<>>
    BY <1>6, <1>15, <2>1 DEF BuiltTexts
  <2>3. c.value \o l.value = <<>>
    BY <1>12, <2>1, <2>2
  <2> QED BY ONLY <1>9, <2>1, <2>3, NoneJoined
<1>16. ASSUME Row[c.cls].text = "none" PROVE WritingOf(n)'
  BY <1>7, <1>10, <1>15, <1>16
<1>17. ASSUME Row[c.cls].text = "content" PROVE WritingOf(n)'
  <2>1. FromOne(of) /\ c.value = <<>> /\ l.value = <<>>
    BY <1>15, <1>17
  <2>2. /\ l.content # <<>> /\ Head(l.content).tag = NoTag /\ p = Head(l.content).text
        /\ L.content = Tail(l.content) /\ L.value = <<>>
    BY <1>4, <1>10, <2>1
  <2>3. /\ Head(l.content) = l.content[1] /\ Tail(l.content) \in Seq(Items)
        /\ Len(l.content) = Len(Tail(l.content)) + 1 /\ Len(Tail(l.content)) \in Nat
        /\ \A i \in 1 .. Len(Tail(l.content)) : Tail(l.content)[i] = l.content[i + 1]
        /\ 1 \in DOMAIN l.content
    BY ONLY <1>9, <2>2, Headed
  <2>4. /\ Len(o.content) = Len(c.content) + 0 + Len(l.content)
        /\ \A j \in DOMAIN c.content : ItemIsCopy(o.content[j], c.content[j])
        /\ \A j \in DOMAIN l.content : l.content[j] = o.content[Len(c.content) + 0 + j]
    <3>1. OfContent(n)
      BY <1>7, <1>17
    <3>2. /\ heap[stack[n].obj] = c /\ writing[n].left = l /\ heap[writing[n].of] = o
          /\ Below(n) = 0
      BY <1>1, <1>2 DEF Below
    <3> QED BY ONLY <3>1, <3>2 DEF OfContent
  <2>5. Len(c.content) \in Nat /\ Len(l.content) \in Nat /\ o.content \in Seq(Items)
    BY <1>6, <1>9, <2>1, Parts
  <2>6. o.content[Len(c.content) + 1] = l.content[1] /\ Len(c.content) + 1 \in DOMAIN o.content
    <3>0. PICK a, b, r, x : /\ a = Len(c.content) /\ b = Len(l.content)
                             /\ r = Len(Tail(l.content)) /\ x = Len(o.content)
      OBVIOUS
    <3>1. a + 1 \in 1 .. x /\ a + 0 + 1 = a + 1
      <4>1. a \in Nat /\ b \in Nat /\ r \in Nat /\ x = a + 0 + b /\ b = r + 1
        BY ONLY <2>3, <2>4, <2>5, <3>0
      <4> QED BY ONLY <4>1
    <3>2. l.content[1] = o.content[Len(c.content) + 0 + 1]
      BY ONLY <2>3, <2>4
    <3> QED BY ONLY <2>5, <3>0, <3>1, <3>2
  <2>7. l.content[1] = Said(p) /\ p.kind # "cdata"
    <3>1. BuiltContent(of) /\ o = heap[of]
      BY <1>2, <1>6, <2>1
    <3> QED BY ONLY <2>2, <2>3, <2>6, <3>1 DEF BuiltContent
  <2>8. d.content = Append(c.content, Said(p)) /\ d.value = c.value
    BY <1>8, <1>17, <2>7 DEF In
  <2>9. /\ d.content \in Seq(Items) /\ Len(d.content) = Len(c.content) + 1
        /\ \A k \in 1 .. Len(c.content) : d.content[k] = c.content[k]
        /\ d.content[Len(c.content) + 1] = Said(p)
    BY ONLY <1>8, <1>9, <2>8, Appended
  <2>10. /\ DOMAIN d.content = 1 .. Len(c.content) + 1
         /\ DOMAIN c.content = 1 .. Len(c.content)
         /\ DOMAIN L.content = 1 .. Len(L.content)
         /\ \A j \in 1 .. Len(c.content) + 1 :
              j \in 1 .. Len(c.content) \/ j = Len(c.content) + 1
    BY <1>9, <2>2, <2>3, <2>5, <2>9
  <2>11. ASSUME NEW j \in DOMAIN d.content
         PROVE  ItemIsCopy(o.content[j], d.content[j])'
    <3>1. CASE j = Len(c.content) + 1
      BY ONLY <1>11, <2>6, <2>7, <2>9, <3>1 DEF ItemIsCopy
    <3>2. CASE j \in DOMAIN c.content
      <4>1. ItemIsCopy(o.content[j], c.content[j])
        BY <2>4, <3>2
      <4>2. d.content[j] = c.content[j]
        BY <2>9, <2>10, <3>2
      <4>3. copyOf' = copyOf
        BY <1>1
      <4> QED BY ONLY <4>1, <4>2, <4>3 DEF ItemIsCopy
    <3> QED BY <2>10, <2>11, <3>1, <3>2
  <2>12. /\ Len(o.content) = Len(d.content) + 0 + Len(L.content)
         /\ \A j \in DOMAIN L.content : L.content[j] = o.content[Len(d.content) + 0 + j]
    <3>0. PICK a, b, r, x, y : /\ a = Len(c.content) /\ b = Len(l.content)
                                /\ r = Len(L.content) /\ x = Len(o.content)
                                /\ y = Len(d.content)
      OBVIOUS
    <3>9. /\ a \in Nat /\ b \in Nat /\ r \in Nat /\ x = a + 0 + b /\ b = r + 1
          /\ y = a + 1
      BY ONLY <2>2, <2>3, <2>4, <2>5, <2>9, <3>0
    <3>1. Len(o.content) = Len(d.content) + 0 + Len(L.content)
      <4>1. x = y + 0 + r
        BY ONLY <3>9
      <4> QED BY ONLY <3>0, <4>1
    <3>2. ASSUME NEW j \in DOMAIN L.content
          PROVE  L.content[j] = o.content[Len(d.content) + 0 + j]
      <4>1. /\ j \in 1 .. Len(Tail(l.content)) /\ j + 1 \in DOMAIN l.content
            /\ Len(c.content) + 0 + (j + 1) = Len(d.content) + 0 + j
        <5>1. j \in 1 .. Len(Tail(l.content))
          BY ONLY <2>2, <2>10, <3>2
        <5>2. DOMAIN l.content = 1 .. Len(l.content)
          BY <1>9
        <5>3. j \in 1 .. r
          BY ONLY <2>2, <3>0, <5>1
        <5>4. j + 1 \in 1 .. b /\ a + 0 + (j + 1) = y + 0 + j
          BY ONLY <3>9, <5>3
        <5> QED BY ONLY <3>0, <5>1, <5>2, <5>4
      <4>2. L.content[j] = l.content[j + 1]
        BY ONLY <2>2, <2>3, <4>1
      <4>3. l.content[j + 1] = o.content[Len(c.content) + 0 + (j + 1)]
        BY <2>4, <4>1
      <4> QED BY ONLY <4>1, <4>2, <4>3
    <3> QED BY <3>1, <3>2
  <2>13. OfContent(n)'
    <3>1. ~(n < Len(stack')) /\ Below(n)' = 0 /\ heap'[of] = o
      BY <1>1, <1>6, <2>1 DEF Below
    <3> QED BY ONLY <1>5, <2>11, <2>12, <3>1 DEF OfContent
  <2>14. NoFields(L)
    BY <1>4, <1>7, <1>17 DEF NoFields
  <2>15. OfSource(n)'
    BY <1>13, <2>1, <2>2, <2>8
  <2>16. Row[c.cls].text # "none" /\ Row[c.cls].text \notin {"value", "both"}
    BY <1>17
  <2>17. copyOf'[m] = of /\ of < Base'
    BY <1>1, <1>6, <1>7
  <2> QED BY ONLY <1>4, <1>5, <1>7, <1>8, <2>13, <2>14, <2>15, <2>16, <2>17 DEF WritingOf
<1> QED BY <1>9, <1>14, <1>16, <1>17, TextKinds

(* The parent, when a child is begun that is written: all of it stays but  *)
(* what is left of it.                                                     *)
AtElement(tag, n, m, c, of, o, l, new) ==
  /\ Types /\ Stacked /\ Again /\ Base' = Base /\ n \in Depth /\ n \in Nat
  /\ Len(writing) = n
  /\ c = Top /\ c \in Objs /\ l = Left /\ l \in Objs /\ l.cls = c.cls
  /\ stack[n].obj = m /\ heap[m] = c
  /\ writing[n].of = of /\ writing[n].left = l /\ heap[of] = o
  /\ stack'[n].obj = m /\ heap'[m] = c /\ copyOf'[m] = of
  /\ Len(stack') = n + 1 /\ stack'[n + 1].tag = tag /\ stack'[n + 1].obj = new
  /\ heap'[new] = New(KidClass(tag)) /\ copyOf'[new] = writing'[n + 1].of
  /\ \A i \in Ids : heap'[i] = heap[i]
  /\ SourceIs(of, o, c)
  /\ \A t \in DOMAIN c.fields : \A k \in DOMAIN c.fields[t] :
       /\ heap'[c.fields[t][k]] = heap[c.fields[t][k]]
       /\ copyOf'[c.fields[t][k]] = copyOf[c.fields[t][k]]
  /\ \A k \in DOMAIN c.content :
       c.content[k].tag # NoTag => copyOf'[c.content[k].obj] = copyOf[c.content[k].obj]

LEMMA AtElementIs ==
  ASSUME Inv, [Next]_vars, phase = "rereading", NEW tag, Element(tag),
         NEW n, n = Len(stack), NEW m, m = Cur, NEW c, c = heap[m],
         NEW of, of = writing[n].of, NEW o, o = heap[of], NEW l, l = Left,
         NEW new, new = Len(heap) + 1
  PROVE  AtElement(tag, n, m, c, of, o, l, new)
<1>1. Types /\ Stacked /\ Again
  BY DEF Inv, Again
<1>2. /\ n \in Depth /\ n \in Nat /\ m = stack[n].obj /\ m \in Ids /\ c = Top /\ c \in Objs
      /\ 1 \in Depth
  BY <1>1, Tops
<1>3. /\ Len(writing) = n /\ l = writing[n].left /\ l \in Objs /\ l.cls = c.cls
      /\ WritingOf(n)
  BY <1>2, Lefts
<1>4. /\ phase' = phase
      /\ \A i \in Ids : heap'[i] = heap[i]
      /\ heap'[new] = New(KidClass(tag))
      /\ Len(stack') = n + 1 /\ \A k \in Depth : stack'[k] = stack[k]
      /\ stack'[n + 1].tag = tag
      /\ stack'[n + 1].obj = new
      /\ copyOf'[new] = writing'[n + 1].of
      /\ \A i \in Ids : copyOf'[i] = copyOf[i]
  BY ElementIs
<1>5. Base' = Base
  BY <1>1, <1>2, <1>4 DEF Base, Again
<1>6. SourceIs(of, o, c)
  BY <1>1, <1>2, Sources
<1>7. copyOf[m] = of
  BY <1>2, <1>3 DEF WritingOf
<1>8. /\ \A t \in DOMAIN c.fields : \A k \in DOMAIN c.fields[t] :
           /\ heap'[c.fields[t][k]] = heap[c.fields[t][k]]
           /\ copyOf'[c.fields[t][k]] = copyOf[c.fields[t][k]]
      /\ \A k \in DOMAIN c.content :
           c.content[k].tag # NoTag => copyOf'[c.content[k].obj] = copyOf[c.content[k].obj]
  BY <1>2, KidsStay
<1>9. /\ stack[n].obj = m /\ heap[m] = c
      /\ writing[n].of = of /\ writing[n].left = l /\ heap[of] = o
      /\ stack'[n].obj = m /\ heap'[m] = c /\ copyOf'[m] = of
  BY <1>2, <1>3, <1>4, <1>7
<1> QED BY ONLY <1>1, <1>2, <1>3, <1>4, <1>5, <1>6, <1>8, <1>9, l = Left DEF AtElement

(* Of the parent, the child is next in the list it is in.                  *)
LEMMA FieldLock ==
  ASSUME Inv, [Next]_vars, phase = "rereading", NEW tag, Element(tag),
         WritesField(tag), NEW n, n = Len(stack)
  PROVE  WritingOf(n)'
<1>2. PICK m, c, of, o, l, new, kid :
        /\ m = Cur /\ c = heap[m] /\ of = writing[n].of /\ o = heap[of] /\ l = Left
        /\ new = Len(heap) + 1
        /\ kid = KidsOf(heap[writing[n].of], tag)[Len(Top.fields[tag]) + 1]
  OBVIOUS
<1>1. AtElement(tag, n, m, c, of, o, l, new)
  BY <1>2, AtElementIs
<1>3. tag \in DOMAIN Row[Top.cls].kids /\ WritesElement(tag)
  BY ElementIs
<1>4. \E L \in Objs, e \in Writes : FieldPush(tag, kid, L, e)
  BY <1>2, <1>3, FieldPushed
<1>5. PICK L \in Objs, e \in Writes : FieldPush(tag, kid, L, e)
  BY <1>4
<1>6. /\ L.cls = l.cls /\ L.attrs = l.attrs /\ L.content = l.content /\ L.value = l.value
      /\ L.fields = [l.fields EXCEPT ![tag] = Tail(l.fields[tag])]
      /\ Pushes(L, e)
      /\ IF TitleOf(c.cls, tag) THEN e = AsString(kid) ELSE e = Exported(kid, FALSE)
  BY ONLY <1>1, <1>5 DEF FieldPush, AtElement
<1>7. /\ Row[c.cls].text = "none" /\ l.fields[tag] # <<>>
      /\ tag \in DOMAIN Row[c.cls].kids
      /\ kid = KidsOf(o, tag)[Len(c.fields[tag]) + 1]
  <2>1. Row[Top.cls].text = "none" /\ Left.fields[tag] # <<>>
    BY Zenon DEF WritesField
  <2> QED BY <1>1, <1>2, <1>3, <2>1 DEF AtElement
<1>8. /\ n \in 1 .. Len(writing) /\ Len(writing) = n
      /\ writing'[n].of = of /\ writing'[n].left = L /\ writing'[n + 1] = e
  <2>1. n \in 1 .. Len(writing) /\ Len(writing) = n
    BY ONLY <1>1 DEF AtElement, Depth
  <2> QED BY ONLY <1>1, <1>6, <2>1 DEF Pushes, AtElement
<1>9. /\ of \in Int /\ of < Base' /\ FromOne(of)
      /\ heap'[of] = o /\ o.cls = c.cls /\ o \in Objs
  BY ONLY <1>1, <1>7 DEF AtElement, SourceIs
<1>10. copyOf'[new] = IF TitleOf(o.cls, tag) THEN TitleFrom(kid) ELSE kid
  <2>1. copyOf'[new] = e.of
    BY ONLY <1>1, <1>8 DEF AtElement
  <2>2. TitleOf(c.cls, tag) => e.of = TitleFrom(kid)
    BY ONLY <1>6 DEF AsString, TitleFrom
  <2>3. ~TitleOf(c.cls, tag) => e.of = kid
    BY ONLY <1>6 DEF Exported
  <2> QED BY ONLY <1>9, <2>1, <2>2, <2>3
<1>11. WritingOf(n) /\ heap[m] = c /\ stack[n].obj = m
  BY <1>1, Lefts DEF AtElement
<1>12. /\ OfSource(n) /\ OfFields(n) /\ l.content = <<>>
  BY ONLY <1>1, <1>7, <1>11 DEF WritingOf, AtElement
<1>13. OfSource(n)'
  <2>1. /\ heap[stack[n].obj] = c /\ writing[n].of = of /\ writing[n].left = l
        /\ heap[of] = o /\ heap'[stack'[n].obj] = c
    BY ONLY <1>1 DEF AtElement
  <2>2. /\ c.cls = o.cls /\ c.attrs \cup l.attrs = o.attrs \cup Always(o.cls)
        /\ c.value \o l.value = o.value
    BY ONLY <1>9, <1>12, <2>1 DEF OfSource
  <2> QED BY ONLY <1>6, <1>8, <1>9, <2>1, <2>2 DEF OfSource
<1>14. /\ c.fields \in [DOMAIN Row[c.cls].kids -> Seq(Nat)]
       /\ l.fields \in [DOMAIN Row[c.cls].kids -> Seq(Nat)]
  <2>1. c \in Objs /\ l \in Objs /\ l.cls = c.cls
    BY ONLY <1>1 DEF AtElement
  <2> QED BY <2>1, Parts
<1>15. ASSUME NEW t \in DOMAIN Row[o.cls].kids, NEW w, w = Waits(n, t)'
       PROVE  /\ Len(KidsOf(o, t)) = Len(c.fields[t]) + w + Len(L.fields[t])
              /\ \A j \in DOMAIN c.fields[t] :
                   KidIsCopy(o.cls, t, KidsOf(o, t)[j], c.fields[t][j])'
              /\ \A j \in DOMAIN L.fields[t] :
                   L.fields[t][j] = KidsOf(o, t)[Len(c.fields[t]) + w + j]
              /\ w = 1 => copyOf'[new] = IF TitleOf(o.cls, t) THEN TitleFrom(KidsOf(o, t)[Len(c.fields[t]) + 1])
                                         ELSE KidsOf(o, t)[Len(c.fields[t]) + 1]
  <2>1. Waits(n, t) = 0 /\ w = IF t = tag THEN 1 ELSE 0
    <3>1. n < n + 1 /\ ~(n < n)
      BY ONLY <1>1 DEF AtElement
    <3>2. Len(stack') = n + 1 /\ stack'[n + 1].tag = tag
      BY ONLY <1>1 DEF AtElement
    <3> QED BY ONLY <1>15, <3>1, <3>2, n = Len(stack) DEF Waits
  <2>2. /\ Len(KidsOf(o, t)) = Len(c.fields[t]) + 0 + Len(l.fields[t])
        /\ \A j \in DOMAIN c.fields[t] :
             KidIsCopy(o.cls, t, KidsOf(o, t)[j], c.fields[t][j])
        /\ \A j \in DOMAIN l.fields[t] :
             l.fields[t][j] = KidsOf(o, t)[Len(c.fields[t]) + 0 + j]
    <3>1. /\ heap[stack[n].obj] = c /\ heap[writing[n].of] = o /\ writing[n].left = l
      BY ONLY <1>1 DEF AtElement
    <3> QED BY ONLY <1>12, <1>15, <2>1, <3>1 DEF OfFields
  <2>3. ASSUME NEW j \in DOMAIN c.fields[t]
        PROVE  KidIsCopy(o.cls, t, KidsOf(o, t)[j], c.fields[t][j])'
    <3>1. KidIsCopy(o.cls, t, KidsOf(o, t)[j], c.fields[t][j])
      BY <2>2, <2>3
    <3>2. t \in DOMAIN c.fields
      BY ONLY <1>9, <1>14, <1>15
    <3>3. /\ heap'[c.fields[t][j]] = heap[c.fields[t][j]]
          /\ copyOf'[c.fields[t][j]] = copyOf[c.fields[t][j]]
      BY ONLY <1>1, <2>3, <3>2 DEF AtElement
    <3> QED BY ONLY <3>1, <3>3 DEF KidIsCopy
  <2>4. /\ c.fields[t] \in Seq(Nat) /\ l.fields[t] \in Seq(Nat) /\ t \in DOMAIN l.fields
    BY ONLY <1>9, <1>14, <1>15
  <2>5. CASE t # tag
    <3>1. L.fields[t] = l.fields[t] /\ w = 0
      BY ONLY <1>6, <2>1, <2>4, <2>5
    <3>2. Len(KidsOf(o, t)) = Len(c.fields[t]) + w + Len(L.fields[t])
      BY ONLY <2>2, <3>1
    <3>3. \A j \in DOMAIN L.fields[t] :
            L.fields[t][j] = KidsOf(o, t)[Len(c.fields[t]) + w + j]
      BY ONLY <2>2, <3>1
    <3>4. w # 1
      BY ONLY <3>1
    <3> QED BY ONLY <2>3, <3>2, <3>3, <3>4
  <2>6. CASE t = tag
    <3>1. L.fields[t] = Tail(l.fields[t]) /\ w = 1
      BY ONLY <1>6, <2>1, <2>4, <2>6
    <3>2. PICK lt, Lt : lt = l.fields[t] /\ Lt = L.fields[t]
      OBVIOUS
    <3>3. /\ Lt \in Seq(Nat) /\ Len(lt) = Len(Lt) + 1 /\ Len(Lt) \in Nat
          /\ \A i \in 1 .. Len(Lt) : Lt[i] = lt[i + 1]
      <4>1. lt \in Seq(Nat) /\ lt # <<>> /\ Lt = Tail(lt)
        BY ONLY <1>7, <2>4, <2>6, <3>1, <3>2
      <4> QED BY ONLY <4>1, Headed
    <3>4. PICK a, b, r, x : /\ a = Len(c.fields[t]) /\ b = Len(lt) /\ r = Len(Lt)
                            /\ x = Len(KidsOf(o, t))
      OBVIOUS
    <3>5. a \in Nat /\ b \in Nat /\ r \in Nat /\ x = a + 0 + b /\ b = r + 1
      <4>1. a \in Nat /\ b \in Nat
        BY ONLY <2>4, <3>2, <3>4
      <4>2. x = a + 0 + b
        BY ONLY <2>2, <3>2, <3>4
      <4>3. b = r + 1 /\ r \in Nat
        BY ONLY <3>3, <3>4
      <4> QED BY ONLY <4>1, <4>2, <4>3
    <3>6. x = a + w + r
      BY ONLY <3>1, <3>5
    <3>7. ASSUME NEW j \in DOMAIN Lt PROVE Lt[j] = KidsOf(o, t)[a + w + j]
      <4>1. j \in 1 .. r /\ DOMAIN lt = 1 .. b
        BY ONLY <2>4, <3>2, <3>3, <3>4, <3>7
      <4>2. j + 1 \in 1 .. b /\ a + 0 + (j + 1) = a + w + j
        BY ONLY <3>1, <3>5, <4>1
      <4>3. Lt[j] = lt[j + 1]
        BY ONLY <3>3, <3>4, <4>1
      <4>4. lt[j + 1] = KidsOf(o, t)[a + 0 + (j + 1)]
        BY ONLY <2>2, <3>2, <3>4, <4>1, <4>2
      <4> QED BY ONLY <4>2, <4>3, <4>4
    <3>8. copyOf'[new] = IF TitleOf(o.cls, t) THEN TitleFrom(KidsOf(o, t)[Len(c.fields[t]) + 1])
                         ELSE KidsOf(o, t)[Len(c.fields[t]) + 1]
      BY ONLY <1>7, <1>10, <2>6
    <3> QED BY ONLY <2>3, <3>2, <3>4, <3>6, <3>7, <3>8
  <2> QED BY <2>5, <2>6
<1>16. /\ heap'[stack'[n].obj] = c /\ heap'[writing'[n].of] = o /\ writing'[n].left = L
       /\ stack'[n + 1].obj = new
  BY ONLY <1>1, <1>8, <1>9 DEF AtElement
<1>17. OfFields(n)'
  BY ONLY <1>15, <1>16 DEF OfFields
<1>18. /\ copyOf'[stack'[n].obj] = writing'[n].of /\ writing'[n].of < Base'
       /\ L.cls = c.cls /\ L.content = <<>>
  BY ONLY <1>1, <1>6, <1>8, <1>9, <1>12 DEF AtElement
<1>19. Row[c.cls].text \notin {"value", "both"} /\ Row[c.cls].text # "content"
  BY ONLY <1>7
<1> QED BY ONLY <1>13, <1>16, <1>17, <1>18, <1>19 DEF WritingOf

(* Or it is next in content_.                                              *)
LEMMA ItemLock ==
  ASSUME Inv, [Next]_vars, phase = "rereading", NEW tag, Element(tag),
         WritesItem(tag), NEW n, n = Len(stack)
  PROVE  WritingOf(n)'
<1>2. PICK m, c, of, o, l, new, kid :
        /\ m = Cur /\ c = heap[m] /\ of = writing[n].of /\ o = heap[of] /\ l = Left
        /\ new = Len(heap) + 1
        /\ kid = heap[writing[n].of].content[Len(Top.content) + 1].obj
  OBVIOUS
<1>1. AtElement(tag, n, m, c, of, o, l, new)
  BY <1>2, AtElementIs
<1>3. tag \in DOMAIN Row[Top.cls].kids /\ WritesElement(tag)
  BY ElementIs
<1>4. \E L \in Objs, e \in Writes : ItemPush(tag, kid, L, e)
  BY <1>2, <1>3, ItemPushed
<1>5. PICK L \in Objs, e \in Writes : ItemPush(tag, kid, L, e)
  BY <1>4
<1>6. /\ L.cls = l.cls /\ L.attrs = l.attrs /\ L.fields = l.fields /\ L.value = l.value
      /\ L.content = Tail(l.content)
      /\ Pushes(L, e) /\ e.of = kid
  <2>1. /\ L.cls = l.cls /\ L.attrs = l.attrs /\ L.fields = l.fields /\ L.value = l.value
        /\ L.content = Tail(l.content)
        /\ Pushes(L, e) /\ e = Exported(kid, heap[kid].cls = "Text")
    BY ONLY <1>1, <1>5 DEF ItemPush, AtElement
  <2> QED BY ONLY <2>1 DEF Exported
<1>7. /\ Row[c.cls].text = "content" /\ l.content # <<>>
      /\ o.content[Len(c.content) + 1].tag = tag
      /\ kid = o.content[Len(c.content) + 1].obj
  <2>1. /\ Row[Top.cls].text = "content" /\ Left.content # <<>>
        /\ heap[writing[Len(stack)].of].content[Len(Top.content) + 1].tag = tag
    BY Zenon DEF WritesItem
  <2> QED BY <1>1, <1>2, <2>1 DEF AtElement
<1>8. /\ n \in 1 .. Len(writing) /\ Len(writing) = n
      /\ writing'[n].of = of /\ writing'[n].left = L /\ writing'[n + 1] = e
  <2>1. n \in 1 .. Len(writing) /\ Len(writing) = n
    BY ONLY <1>1 DEF AtElement, Depth
  <2> QED BY ONLY <1>1, <1>6, <2>1 DEF Pushes, AtElement
<1>9. /\ of \in Int /\ of < Base' /\ FromOne(of)
      /\ heap'[of] = o /\ o.cls = c.cls /\ o \in Objs
  BY ONLY <1>1, <1>7 DEF AtElement, SourceIs
<1>10. copyOf'[new] = kid
  BY ONLY <1>1, <1>6, <1>8 DEF AtElement
<1>11. WritingOf(n)
  BY <1>1, Lefts DEF AtElement
<1>12. /\ OfSource(n) /\ OfContent(n) /\ NoFields(l)
  BY ONLY <1>1, <1>7, <1>11 DEF WritingOf, AtElement
<1>13. OfSource(n)'
  <2>1. /\ heap[stack[n].obj] = c /\ writing[n].of = of /\ writing[n].left = l
        /\ heap[of] = o /\ heap'[stack'[n].obj] = c
    BY ONLY <1>1 DEF AtElement
  <2>2. /\ c.cls = o.cls /\ c.attrs \cup l.attrs = o.attrs \cup Always(o.cls)
        /\ c.value \o l.value = o.value
    BY ONLY <1>9, <1>12, <2>1 DEF OfSource
  <2> QED BY ONLY <1>6, <1>8, <1>9, <2>1, <2>2 DEF OfSource
<1>14. c.content \in Seq(Items) /\ l.content \in Seq(Items)
  <2>1. c \in Objs /\ l \in Objs
    BY ONLY <1>1 DEF AtElement
  <2> QED BY <2>1, Parts
<1>15. PICK cc, lt, Lt, oc : /\ cc = c.content /\ lt = l.content /\ Lt = L.content
                             /\ oc = o.content
  OBVIOUS
<1>16. /\ Len(oc) = Len(cc) + 0 + Len(lt)
       /\ \A j \in DOMAIN cc : ItemIsCopy(oc[j], cc[j])
       /\ \A j \in DOMAIN lt : lt[j] = oc[Len(cc) + 0 + j]
  <2>1. ~(n < Len(stack))
    BY ONLY <1>1, n = Len(stack) DEF AtElement
  <2>2. /\ heap[stack[n].obj] = c /\ heap[writing[n].of] = o /\ writing[n].left = l
    BY ONLY <1>1 DEF AtElement
  <2>3. Below(n) = 0
    BY ONLY <2>1 DEF Below
  <2> QED BY ONLY <1>12, <1>15, <2>2, <2>3 DEF OfContent
<1>17. /\ Lt \in Seq(Items) /\ Len(lt) = Len(Lt) + 1 /\ Len(Lt) \in Nat
       /\ \A i \in 1 .. Len(Lt) : Lt[i] = lt[i + 1]
  <2>1. lt \in Seq(Items) /\ lt # <<>> /\ Lt = Tail(lt)
    BY ONLY <1>6, <1>7, <1>14, <1>15
  <2> QED BY ONLY <2>1, Headed
<1>18. PICK a, b, r, x : a = Len(cc) /\ b = Len(lt) /\ r = Len(Lt) /\ x = Len(oc)
  OBVIOUS
<1>19. a \in Nat /\ b \in Nat /\ r \in Nat /\ x = a + 0 + b /\ b = r + 1
  <2>1. a \in Nat /\ b \in Nat
    BY ONLY <1>14, <1>15, <1>18
  <2>2. x = a + 0 + b
    BY ONLY <1>16, <1>18
  <2>3. b = r + 1 /\ r \in Nat
    BY ONLY <1>17, <1>18
  <2> QED BY ONLY <2>1, <2>2, <2>3
<1>20. x = a + 1 + r
  BY ONLY <1>19
<1>21. ASSUME NEW j \in DOMAIN Lt PROVE Lt[j] = oc[a + 1 + j]
  <2>1. j \in 1 .. r /\ DOMAIN lt = 1 .. b
    BY ONLY <1>14, <1>15, <1>17, <1>18, <1>21
  <2>2. j + 1 \in 1 .. b /\ a + 0 + (j + 1) = a + 1 + j
    BY ONLY <1>19, <2>1
  <2>3. Lt[j] = lt[j + 1]
    BY ONLY <1>17, <1>18, <2>1
  <2>4. lt[j + 1] = oc[a + 0 + (j + 1)]
    BY ONLY <1>16, <1>18, <2>1, <2>2
  <2> QED BY ONLY <2>2, <2>3, <2>4
<1>22. ASSUME NEW j \in DOMAIN cc PROVE ItemIsCopy(oc[j], cc[j])'
  <2>1. ItemIsCopy(oc[j], cc[j])
    BY <1>16, <1>22
  <2>2. cc[j].tag # NoTag => copyOf'[cc[j].obj] = copyOf[cc[j].obj]
    BY ONLY <1>1, <1>15, <1>22 DEF AtElement
  <2> QED BY ONLY <2>1, <2>2 DEF ItemIsCopy
<1>23. /\ heap'[stack'[n].obj] = c /\ heap'[writing'[n].of] = o /\ writing'[n].left = L
       /\ stack'[n + 1].obj = new /\ stack'[n + 1].tag = tag
  BY ONLY <1>1, <1>8, <1>9 DEF AtElement
<1>24. OfContent(n)'
  <2>1. n < Len(stack')
    <3>1. Len(stack') = n + 1 /\ n \in Nat
      BY ONLY <1>1 DEF AtElement
    <3> QED BY ONLY <3>1
  <2>2. Below(n)' = 1
    BY ONLY <2>1 DEF Below
  <2>3. oc[Len(cc) + 1].tag = tag /\ copyOf'[new] = oc[Len(cc) + 1].obj
    BY ONLY <1>7, <1>10, <1>15
  <2> QED BY ONLY <1>15, <1>18, <1>20, <1>21, <1>22, <1>23, <2>2, <2>3 DEF OfContent
<1>25. /\ copyOf'[stack'[n].obj] = writing'[n].of /\ writing'[n].of < Base'
       /\ L.cls = c.cls
  BY ONLY <1>1, <1>6, <1>8, <1>9 DEF AtElement
<1>26. Row[c.cls].text \notin {"value", "both"} /\ Row[c.cls].text # "none"
  BY ONLY <1>7
<1>27. NoFields(L)
  BY ONLY <1>6, <1>12 DEF NoFields
<1> QED BY ONLY <1>13, <1>23, <1>24, <1>25, <1>26, <1>27 DEF WritingOf

(* Of the child, all is left.                                              *)
LEMMA KidLock ==
  ASSUME Inv, [Next]_vars, phase = "rereading", NEW tag, Element(tag),
         NEW n, n = Len(stack)
  PROVE  WritingOf(n + 1)'
<1>2. PICK m, c, of, o, l, new :
        /\ m = Cur /\ c = heap[m] /\ of = writing[n].of /\ o = heap[of] /\ l = Left
        /\ new = Len(heap) + 1
  OBVIOUS
<1>1. AtElement(tag, n, m, c, of, o, l, new)
  BY <1>2, AtElementIs
<1>3. tag \in DOMAIN Row[Top.cls].kids /\ WritesElement(tag) /\ Types /\ Stacked
  BY ElementIs DEF Inv
<1>4. Base' = Base /\ 1 <= Base /\ n + 1 \in Nat /\ n + 1 = Len(stack')
      /\ stack'[n + 1].obj = new /\ heap'[new] = New(KidClass(tag))
      /\ copyOf'[new] = writing'[n + 1].of /\ \A i \in Ids : heap'[i] = heap[i] /\ heap[i] \in Objs
  <2>1. 1 <= Base
    BY <1>3, BaseIs, Tops
  <2>2. \A i \in Ids : heap[i] \in Objs
    BY <1>3, Tops
  <2> QED BY ONLY <1>1, <2>1, <2>2 DEF AtElement
<1>5. ASSUME NEW kid \in Ids, kid < Base, heap[kid].cls = KidClass(tag), NEW raw,
             writing'[n + 1] = Exported(kid, raw)
      PROVE  WritingOf(n + 1)'
  <2>1. PICK k, s : k = n + 1 /\ s = heap[kid]
    OBVIOUS
  <2>2. copyOf'[new] = kid
    <3>1. writing'[n + 1].of = kid
      BY ONLY <1>5 DEF Exported
    <3> QED BY ONLY <1>4, <3>1
  <2>3. /\ k \in Nat /\ k = Len(stack') /\ stack'[k].obj = new
        /\ kid < Base' /\ writing'[k] = Exported(kid, raw)
        /\ s \in Objs /\ heap'[kid] = s /\ heap'[new] = New(s.cls)
    BY ONLY <1>4, <1>5, <2>1
  <2>4. WritingOf(k)'
    BY <2>1, <2>2, <2>3, Started
  <2> QED BY <2>1, <2>4
<1>6. CASE WritesField(tag)
  <2>1. PICK kid : kid = KidsOf(heap[writing[n].of], tag)[Len(Top.fields[tag]) + 1]
    OBVIOUS
  <2>2. \E L \in Objs, e \in Writes : FieldPush(tag, kid, L, e)
    BY <1>3, <1>6, <2>1, FieldPushed
  <2>3. PICK L \in Objs, e \in Writes : FieldPush(tag, kid, L, e)
    BY <2>2
  <2>4. /\ kid \in Nat
        /\ IF TitleOf(Top.cls, tag) THEN e = AsString(kid)
           ELSE /\ kid \in Ids /\ kid < Base /\ heap[kid].cls = KidClass(tag)
                /\ e = Exported(kid, FALSE)
        /\ writing'[n + 1] = e
    <3>1. Len(writing) = n
      BY ONLY <1>1 DEF AtElement
    <3> QED BY ONLY <2>3, <3>1 DEF FieldPush, Pushes
  <2>5. CASE ~TitleOf(Top.cls, tag)
    BY <1>5, <2>4, <2>5
  <2>6. CASE TitleOf(Top.cls, tag)
    <3>1. writing'[n + 1] = AsString(kid)
      BY <2>4, <2>6
    <3>2. copyOf'[new] = AsString(kid).of
      BY ONLY <1>4, <3>1
    <3>3. KidClass(tag) = "docTitleType"
      BY <1>3, <2>6, NamesAssumption DEF TitleOf, KidClass
    <3>4. PICK k : k = n + 1
      OBVIOUS
    <3>5. /\ k \in Nat /\ k = Len(stack') /\ stack'[k].obj = new /\ 0 < Base' /\ Base' \in Nat
          /\ writing'[k] = AsString(kid) /\ heap'[new] = New("docTitleType")
      <4>1. 0 < Base /\ Base \in Nat
        BY <1>3, <1>4, BaseIs, Tops
      <4> QED BY ONLY <1>4, <3>1, <3>3, <3>4, <4>1
    <3>6. WritingOf(k)'
      BY <2>4, <3>2, <3>5, StartedString
    <3> QED BY <3>4, <3>6
  <2> QED BY <2>5, <2>6
<1>7. CASE WritesItem(tag)
  <2>1. PICK kid : kid = heap[writing[n].of].content[Len(Top.content) + 1].obj
    OBVIOUS
  <2>2. \E L \in Objs, e \in Writes : ItemPush(tag, kid, L, e)
    BY <1>3, <1>7, <2>1, ItemPushed
  <2>3. PICK L \in Objs, e \in Writes : ItemPush(tag, kid, L, e)
    BY <2>2
  <2>4. /\ kid \in Ids /\ kid < Base /\ heap[kid].cls = KidClass(tag)
        /\ e = Exported(kid, heap[kid].cls = "Text")
        /\ writing'[n + 1] = e
    <3>1. Len(writing) = n
      BY ONLY <1>1 DEF AtElement
    <3> QED BY ONLY <2>3, <3>1 DEF ItemPush, Pushes
  <2> QED BY <1>5, <2>4
<1> QED BY <1>3, <1>6, <1>7, WritesElementIs

(* The parent, when the end of a child is read that has been written.      *)
AtEnd(n, k, tag, kid, m, c, d, of, o, l) ==
  /\ n \in Nat /\ k \in Nat /\ n = k + 1 /\ Len(stack') = k /\ k \in Depth
  /\ Base' = Base /\ copyOf' = copyOf
  /\ stack[n].tag = tag /\ stack[n].obj = kid
  /\ c \in Objs /\ l \in Objs /\ l.cls = c.cls /\ tag \in DOMAIN Row[c.cls].kids
  /\ kid \in Nat /\ d = Keeps(c, tag, kid)
  /\ stack[k].obj = m /\ heap[m] = c
  /\ writing[k].of = of /\ writing[k].left = l /\ heap[of] = o
  /\ stack'[k].obj = m /\ heap'[m] = d /\ writing'[k].of = of /\ writing'[k].left = l
  /\ heap'[kid] = heap[kid]
  /\ ~FromOne(copyOf[kid]) => heap[kid] = TitleRead(copyOf[kid])
  /\ SourceIs(of, o, c) /\ WritingOf(k)
  /\ \A t \in DOMAIN c.fields : \A j \in DOMAIN c.fields[t] :
       heap'[c.fields[t][j]] = heap[c.fields[t][j]]

LEMMA AtEndIs ==
  ASSUME Inv, [Next]_vars, phase = "rereading", EndElement,
         NEW n, n = Len(stack), NEW k, k = n - 1,
         NEW tag, tag = stack[n].tag, NEW kid, kid = stack[n].obj,
         NEW m, m = stack[k].obj, NEW c, c = heap[m], NEW d, d = heap'[m],
         NEW of, of = writing[k].of, NEW o, o = heap[of],
         NEW l, l = writing[k].left
  PROVE  AtEnd(n, k, tag, kid, m, c, d, of, o, l)
<1>1. Types /\ Stacked /\ Again
  BY DEF Inv, Again
<1>2. /\ n \in Nat /\ n > 1 /\ k \in Depth /\ m \in Ids /\ kid \in Ids /\ m < kid
      /\ c \in Objs
      /\ tag \in DOMAIN Row[c.cls].kids /\ Alone(m) /\ d = Keeps(c, tag, kid)
      /\ Len(stack') = k /\ \A i \in 1 .. k : stack'[i] = stack[i]
      /\ AllWritten /\ \A i \in 1 .. k : writing'[i] = writing[i]
      /\ phase' = phase /\ copyOf' = copyOf
  BY EndElementIs
<1>3. k \in Nat /\ k \in 1 .. k /\ n = k + 1 /\ 1 \in 1 .. k
  BY ONLY <1>2, k = n - 1
<1>4. kid \in Nat /\ heap'[kid] = heap[kid]
  BY ONLY <1>2 DEF Ids, Alone
<1>5. Base' = Base
  BY ONLY <1>1, <1>2, <1>3 DEF Base, Again
<1>6. SourceIs(of, o, c) /\ WritingOf(k)
  <2>1. WritingOf(k)
    BY <1>1, <1>2 DEF Inv, Lockstep
  <2>2. SourceIs(of, o, c)
    BY <1>1, <1>2, Sources
  <2> QED BY <2>1, <2>2
<1>7. l \in Objs /\ l.cls = c.cls
  <2>1. writing \in Seq(Writes) /\ Len(writing) = n
    BY Lefts
  <2>2. k \in 1 .. Len(writing)
    BY ONLY <1>2, <1>3, <2>1
  <2>3. writing[k] \in Writes
    BY ONLY <2>1, <2>2
  <2>4. l.cls = c.cls
    BY <1>6 DEF WritingOf
  <2> QED BY <2>3, <2>4 DEF Writes
<1>8. ~FromOne(copyOf[kid]) => heap[kid] = TitleRead(copyOf[kid])
  <2>1. PICK id, s, t : id = Cur /\ s = heap[id] /\ t = copyOf[id]
    OBVIOUS
  <2>2. kid = id /\ s \in Objs
    BY <1>1, <2>1, Tops
  <2>3. IF ~FromOne(t) THEN s = TitleRead(t) ELSE t \in Ids /\ IsCopy(heap[t], s)
    BY <1>2, <2>1, <2>2, Closes
  <2> QED BY ONLY <2>1, <2>2, <2>3
<1>9. \A t \in DOMAIN c.fields : \A j \in DOMAIN c.fields[t] :
        heap'[c.fields[t][j]] = heap[c.fields[t][j]]
  BY ZenonT(60), <1>2, KidsStay
<1>10. /\ stack'[k].obj = m /\ writing'[k].of = of /\ writing'[k].left = l
  BY <1>2, <1>3
<1> QED BY ONLY <1>2, <1>3, <1>4, <1>5, <1>6, <1>7, <1>8, <1>9, <1>10,
      tag = stack[n].tag, kid = stack[n].obj, m = stack[k].obj, c = heap[m], d = heap'[m],
      of = writing[k].of, o = heap[of], l = writing[k].left
    DEF AtEnd

LEMMA EndLock ==
  ASSUME Inv, [Next]_vars, phase = "rereading", EndElement,
         NEW k, k = Len(stack) - 1
  PROVE  WritingOf(k)'
<1>2. PICK n, tag, kid, m, c, d, of, o, l :
        /\ n = Len(stack) /\ tag = stack[n].tag /\ kid = stack[n].obj
        /\ m = stack[k].obj /\ c = heap[m] /\ d = heap'[m]
        /\ of = writing[k].of /\ o = heap[of] /\ l = writing[k].left
  OBVIOUS
<1>1. AtEnd(n, k, tag, kid, m, c, d, of, o, l)
  BY <1>2, AtEndIs
<1>3. /\ c \in Objs /\ l \in Objs /\ tag \in DOMAIN Row[c.cls].kids /\ kid \in Nat
      /\ d = Keeps(c, tag, kid) /\ l.cls = c.cls
      /\ k \in Nat /\ n = k + 1 /\ Len(stack') = k /\ Base' = Base /\ copyOf' = copyOf
  BY ONLY <1>1 DEF AtEnd
<1>4. /\ heap[stack[k].obj] = c /\ writing[k].of = of /\ writing[k].left = l
      /\ heap[writing[k].of] = o /\ copyOf[m] = of /\ stack[k].obj = m
      /\ stack'[k].obj = m
      /\ heap'[stack'[k].obj] = d /\ writing'[k].of = of /\ writing'[k].left = l
  BY ONLY <1>1 DEF AtEnd, WritingOf
<1>5. /\ of \in Int /\ of < Base'
      /\ FromOne(of) => heap'[of] = o /\ o.cls = c.cls /\ o \in Objs
                      /\ BuiltFields(of) /\ BuiltContent(of)
      /\ Row[c.cls].text \in {"none", "content"} => FromOne(of)
  BY ONLY <1>1 DEF AtEnd, SourceIs
<1>6. /\ OfSource(k)
      /\ Row[c.cls].text \in {"value", "both"} => OfValue(k)
      /\ Row[c.cls].text = "none" => OfFields(k) /\ l.content = <<>>
      /\ Row[c.cls].text = "content" => OfContent(k) /\ NoFields(l)
  BY ONLY <1>1, <1>4 DEF AtEnd, WritingOf
<1>7. Row[c.cls].text \notin {"value", "both"}
  <2>1. k # Len(stack)
    BY ONLY <1>2, <1>3
  <2> QED BY ONLY <1>6, <2>1 DEF OfValue
<1>8. /\ c.cls \in DOMAIN Row /\ c.content \in Seq(Items) /\ l.content \in Seq(Items)
      /\ c.fields \in [DOMAIN Row[c.cls].kids -> Seq(Nat)]
      /\ l.fields \in [DOMAIN Row[c.cls].kids -> Seq(Nat)]
      /\ c.value \in Seq(Pieces)
  BY <1>3, Parts
<1>9. PICK how : how = Row[c.cls].kids[tag].how
  OBVIOUS
<1>10. /\ how \in {"one", "many", "mixed"} /\ tag # NoTag
       /\ Row[c.cls].text \in {"none", "content"}
       /\ Row[c.cls].text = "none" => how # "mixed"
       /\ Row[c.cls].text = "content" => how = "mixed"
  BY <1>3, <1>7, <1>8, <1>9, TextKinds
<1>11. FromOne(of)
  BY <1>5, <1>10
<1>12. /\ d.cls = c.cls /\ d.attrs = c.attrs /\ d.value = c.value
       /\ how = "mixed" => d.fields = c.fields /\ d.content = Append(c.content, Held(tag, kid))
       /\ how # "mixed" =>
            /\ d.content = c.content
            /\ d.fields = [c.fields EXCEPT ![tag] = IF how = "one" THEN <<kid>>
                                                    ELSE Append(c.fields[tag], kid)]
  <2>1. /\ Keeps(c, tag, kid).cls = c.cls /\ Keeps(c, tag, kid).attrs = c.attrs
        /\ Keeps(c, tag, kid).value = c.value
        /\ IF Row[c.cls].kids[tag].how = "mixed"
           THEN /\ Keeps(c, tag, kid).fields = c.fields
                /\ Keeps(c, tag, kid).content = Append(c.content, Held(tag, kid))
           ELSE /\ Keeps(c, tag, kid).content = c.content
                /\ Keeps(c, tag, kid).fields =
                     [c.fields EXCEPT ![tag] =
                        IF Row[c.cls].kids[tag].how = "one" THEN <<kid>>
                        ELSE Append(c.fields[tag], kid)]
    BY <1>3, KeepsIs, ZenonT(60)
  <2> QED BY ONLY <1>3, <1>9, <2>1
<1>13. OfSource(k)'
  <2>1. /\ c.cls = o.cls /\ c.attrs \cup l.attrs = o.attrs \cup Always(o.cls)
        /\ c.value \o l.value = o.value
    BY ONLY <1>4, <1>6, <1>11 DEF OfSource
  <2> QED BY ONLY <1>4, <1>5, <1>11, <1>12, <2>1 DEF OfSource
<1>14. k < Len(stack) /\ stack[k + 1].tag = tag /\ stack[k + 1].obj = kid
       /\ ~(k < Len(stack'))
  <2>1. stack[n].tag = tag /\ stack[n].obj = kid
    BY ONLY <1>1 DEF AtEnd
  <2>2. k < n /\ ~(k < k)
    BY ONLY <1>3
  <2> QED BY ONLY <1>2, <1>3, <2>1, <2>2
<1>15. ASSUME Row[c.cls].text = "none" PROVE OfFields(k)'
  <2>1. ASSUME NEW t \in DOMAIN Row[o.cls].kids
        PROVE  LET w == IF t = tag THEN 1 ELSE 0
               IN /\ Len(KidsOf(o, t)) = Len(c.fields[t]) + w + Len(l.fields[t])
                  /\ \A j \in DOMAIN c.fields[t] :
                       KidIsCopy(o.cls, t, KidsOf(o, t)[j], c.fields[t][j])
                  /\ \A j \in DOMAIN l.fields[t] :
                       l.fields[t][j] = KidsOf(o, t)[Len(c.fields[t]) + w + j]
                  /\ t = tag => copyOf[kid] = IF TitleOf(o.cls, t) THEN TitleFrom(KidsOf(o, t)[Len(c.fields[t]) + 1])
                                              ELSE KidsOf(o, t)[Len(c.fields[t]) + 1]
    <3>1. OfFields(k)
      BY <1>6, <1>15
    <3>2. Waits(k, t) = IF t = tag THEN 1 ELSE 0
      BY ONLY <1>14 DEF Waits
    <3> QED BY ONLY <1>4, <1>14, <2>1, <3>1, <3>2 DEF OfFields
  <2>2. tag \in DOMAIN Row[o.cls].kids
    BY <1>3, <1>5, <1>11
  <2>3. d.fields = [c.fields EXCEPT ![tag] = Append(c.fields[tag], kid)]
    <3>1. CASE how = "one"
      <4>1. Len(KidsOf(o, tag)) <= 1
        <5>1. Len(o.fields[tag]) <= 1
          BY <1>4, <1>5, <1>9, <1>11, <2>2, <3>1 DEF BuiltFields
        <5>2. KidsOf(o, tag) = o.fields[tag] \/ KidsOf(o, tag) = <<None>>
          BY DEF KidsOf
        <5>3. CASE KidsOf(o, tag) = o.fields[tag]
          BY ONLY <5>1, <5>3
        <5>4. CASE KidsOf(o, tag) = <<None>>
          <6>1. Len(KidsOf(o, tag)) = 1
            BY ONLY <5>4
          <6> QED BY ONLY <6>1
        <5> QED BY ONLY <5>2, <5>3, <5>4
      <4>2. Len(KidsOf(o, tag)) = Len(c.fields[tag]) + 1 + Len(l.fields[tag])
        BY <2>1, <2>2
      <4>3. c.fields[tag] \in Seq(Nat) /\ l.fields[tag] \in Seq(Nat)
        BY ONLY <1>3, <1>8
      <4>4. PICK a, b, x : a = Len(c.fields[tag]) /\ b = Len(l.fields[tag])
                           /\ x = Len(KidsOf(o, tag))
        OBVIOUS
      <4>5. a \in Nat /\ b \in Nat /\ x = a + 1 + b /\ x <= 1
        <5>1. a \in Nat /\ b \in Nat
          BY ONLY <4>3, <4>4
        <5>2. x = a + 1 + b
          BY ONLY <4>2, <4>4
        <5> QED BY ONLY <4>1, <4>4, <5>1, <5>2
      <4>6. a = 0
        BY ONLY <4>5
      <4>7. c.fields[tag] = <<>>
        <5>1. PICK s : s = c.fields[tag]
          OBVIOUS
        <5>2. s \in Seq(Nat) /\ Len(s) = 0
          BY ONLY <4>3, <4>4, <4>6, <5>1
        <5>3. s = <<>>
          BY ONLY <5>2
        <5> QED BY ONLY <5>1, <5>3
      <4>8. Append(c.fields[tag], kid) = <<kid>>
        BY ONLY <4>7
      <4> QED BY ONLY <1>12, <3>1, <4>8
    <3>2. CASE how # "one"
      BY <1>10, <1>12, <1>15, <3>2
    <3> QED BY <3>1, <3>2
  <2>4. ASSUME NEW t, NEW kd, NEW x, KidIsCopy(o.cls, t, x, kd),
               heap'[kd] = heap[kd]
        PROVE  KidIsCopy(o.cls, t, x, kd)'
    BY ONLY <1>3, <2>4 DEF KidIsCopy
  <2>5. ASSUME NEW t \in DOMAIN Row[o.cls].kids, NEW w, w = Waits(k, t)'
        PROVE  /\ Len(KidsOf(o, t)) = Len(d.fields[t]) + w + Len(l.fields[t])
               /\ \A j \in DOMAIN d.fields[t] :
                    KidIsCopy(o.cls, t, KidsOf(o, t)[j], d.fields[t][j])'
               /\ \A j \in DOMAIN l.fields[t] :
                    l.fields[t][j] = KidsOf(o, t)[Len(d.fields[t]) + w + j]
               /\ w # 1
    <3>1. w = 0
      BY ONLY <1>14, <2>5 DEF Waits
    <3>2. /\ t \in DOMAIN c.fields /\ c.fields[t] \in Seq(Nat) /\ l.fields[t] \in Seq(Nat)
      BY <1>5, <1>8, <1>11
    <3>3. \A j \in DOMAIN c.fields[t] : heap'[c.fields[t][j]] = heap[c.fields[t][j]]
      BY ONLY <1>1, <3>2 DEF AtEnd
    <3>4. \A j \in DOMAIN c.fields[t] :
            KidIsCopy(o.cls, t, KidsOf(o, t)[j], c.fields[t][j])'
      BY <2>1, <2>4, <3>3
    <3>5. CASE t # tag
      <4>1. d.fields[t] = c.fields[t]
        BY ONLY <1>8, <2>3, <3>2, <3>5
      <4>2. /\ Len(KidsOf(o, t)) = Len(c.fields[t]) + 0 + Len(l.fields[t])
            /\ \A j \in DOMAIN l.fields[t] :
                 l.fields[t][j] = KidsOf(o, t)[Len(c.fields[t]) + 0 + j]
        BY <2>1, <3>5
      <4>3. Len(KidsOf(o, t)) = Len(d.fields[t]) + w + Len(l.fields[t])
        BY ONLY <3>1, <4>1, <4>2
      <4>4. \A j \in DOMAIN l.fields[t] :
              l.fields[t][j] = KidsOf(o, t)[Len(d.fields[t]) + w + j]
        BY ONLY <3>1, <4>1, <4>2
      <4>5. \A j \in DOMAIN d.fields[t] :
              KidIsCopy(o.cls, t, KidsOf(o, t)[j], d.fields[t][j])'
        BY ONLY <3>4, <4>1
      <4>6. w # 1
        BY ONLY <3>1
      <4> QED BY ONLY <4>3, <4>4, <4>5, <4>6
    <3>6. CASE t = tag
      <4>1. d.fields[t] = Append(c.fields[t], kid)
        BY ONLY <1>8, <2>3, <3>2, <3>6
      <4>2. /\ d.fields[t] \in Seq(Nat) /\ Len(d.fields[t]) = Len(c.fields[t]) + 1
            /\ \A i \in 1 .. Len(c.fields[t]) : d.fields[t][i] = c.fields[t][i]
            /\ d.fields[t][Len(c.fields[t]) + 1] = kid
        BY ONLY <1>3, <3>2, <4>1, Appended
      <4>3. /\ Len(KidsOf(o, t)) = Len(c.fields[t]) + 1 + Len(l.fields[t])
            /\ \A j \in DOMAIN l.fields[t] :
                 l.fields[t][j] = KidsOf(o, t)[Len(c.fields[t]) + 1 + j]
            /\ copyOf[kid] = IF TitleOf(o.cls, t) THEN TitleFrom(KidsOf(o, t)[Len(c.fields[t]) + 1])
                             ELSE KidsOf(o, t)[Len(c.fields[t]) + 1]
        BY <2>1, <3>6
      <4>4. PICK a, b, x, y : a = Len(c.fields[t]) /\ b = Len(l.fields[t])
                              /\ x = Len(KidsOf(o, t)) /\ y = Len(d.fields[t])
        OBVIOUS
      <4>5. a \in Nat /\ b \in Nat /\ y = a + 1 /\ x = a + 1 + b
        BY ONLY <3>2, <4>2, <4>3, <4>4
      <4>6. x = y + 0 + b
        BY ONLY <4>5
      <4>7. ASSUME NEW j \in DOMAIN l.fields[t]
            PROVE  l.fields[t][j] = KidsOf(o, t)[y + w + j]
        <5>1. j \in Nat
          BY ONLY <3>2, <4>7
        <5>2. a + 1 + j = y + w + j
          BY ONLY <3>1, <4>5, <5>1
        <5>3. l.fields[t][j] = KidsOf(o, t)[a + 1 + j]
          BY ONLY <4>3, <4>4, <4>7
        <5> QED BY ONLY <5>2, <5>3
      <4>8. ASSUME NEW j \in DOMAIN d.fields[t]
            PROVE  KidIsCopy(o.cls, t, KidsOf(o, t)[j], d.fields[t][j])'
        <5>1. j \in 1 .. y
          BY ONLY SMTT(60), <4>2, <4>4, <4>8
        <5>2. j \in 1 .. a \/ j = a + 1
          BY ONLY <4>5, <5>1
        <5>3. CASE j \in 1 .. a
          <6>1. j \in DOMAIN c.fields[t] /\ d.fields[t][j] = c.fields[t][j]
            BY ONLY <3>2, <4>2, <4>4, <5>3
          <6> QED BY <3>4, <6>1
        <5>4. CASE j = a + 1
          <6>1. d.fields[t][j] = kid
            BY ONLY <4>2, <4>4, <5>4
          <6>2. KidIsCopy(o.cls, t, KidsOf(o, t)[j], kid)
            <7>1. CASE TitleOf(o.cls, t)
              <8>1. copyOf[kid] = TitleFrom(KidsOf(o, t)[j])
                BY ONLY <4>3, <4>4, <5>4, <7>1
              <8>2. ~FromOne(copyOf[kid])
                BY ONLY <8>1 DEF TitleFrom, None, FromOne, AsText
              <8>3. heap[kid] = TitleRead(copyOf[kid])
                BY ONLY <1>1, <8>2 DEF AtEnd
              <8>4. heap[kid] = TitleRead(KidsOf(o, t)[j])
                BY ONLY <8>1, <8>3 DEF TitleFrom, TitleRead, None, AsText
              <8> QED BY ONLY <7>1, <8>4 DEF KidIsCopy
            <7>2. CASE ~TitleOf(o.cls, t)
              BY ONLY <4>3, <4>4, <5>4, <7>2 DEF KidIsCopy
            <7> QED BY <7>1, <7>2
          <6>3. heap'[kid] = heap[kid]
            BY ONLY <1>1 DEF AtEnd
          <6>4. KidIsCopy(o.cls, t, KidsOf(o, t)[j], kid)'
            BY <2>4, <6>2, <6>3
          <6> QED BY ONLY <6>1, <6>4
        <5> QED BY <5>2, <5>3, <5>4
      <4>9. w # 1
        BY ONLY <3>1
      <4> QED BY ONLY <3>1, <4>4, <4>6, <4>7, <4>8, <4>9
    <3> QED BY <3>5, <3>6
  <2>6. heap'[writing'[k].of] = o
    BY <1>4, <1>5, <1>11
  <2> QED BY ONLY <1>4, <2>5, <2>6 DEF OfFields
<1>16. ASSUME Row[c.cls].text = "content" PROVE OfContent(k)'
  <2>1. how = "mixed"
    BY <1>10, <1>16
  <2>2. PICK cc, dc, lt, oc : /\ cc = c.content /\ dc = d.content /\ lt = l.content
                              /\ oc = o.content
    OBVIOUS
  <2>3. /\ Len(oc) = Len(cc) + 1 + Len(lt)
        /\ \A j \in DOMAIN cc : ItemIsCopy(oc[j], cc[j])
        /\ \A j \in DOMAIN lt : lt[j] = oc[Len(cc) + 1 + j]
        /\ oc[Len(cc) + 1].tag = tag /\ copyOf[kid] = oc[Len(cc) + 1].obj
    <3>1. OfContent(k)
      BY <1>6, <1>16
    <3>2. Below(k) = 1
      BY ONLY <1>14 DEF Below
    <3> QED BY ONLY <1>4, <1>14, <2>2, <3>1, <3>2 DEF OfContent
  <2>4. Held(tag, kid) \in Items
    <3>1. tag \in Tags
      BY <1>3, <1>8, Zenon DEF Tags
    <3>2. NoPiece \in Pieces
      BY DEF NoPiece, Pieces
    <3> QED BY <1>3, <3>1, <3>2 DEF Held, Items
  <2>5. cc \in Seq(Items) /\ lt \in Seq(Items) /\ oc \in Seq(Items)
    BY <1>5, <1>8, <1>11, <2>2, Parts
  <2>6. /\ dc \in Seq(Items) /\ Len(dc) = Len(cc) + 1
        /\ \A i \in 1 .. Len(cc) : dc[i] = cc[i]
        /\ dc[Len(cc) + 1] = Held(tag, kid)
    <3>1. dc = Append(cc, Held(tag, kid))
      BY ONLY <1>12, <2>1, <2>2
    <3> QED BY ONLY <2>4, <2>5, <3>1, Appended
  <2>7. PICK a, b, x, y : a = Len(cc) /\ b = Len(lt) /\ x = Len(oc) /\ y = Len(dc)
    OBVIOUS
  <2>8. a \in Nat /\ b \in Nat /\ y = a + 1 /\ x = a + 1 + b
    BY ONLY <2>3, <2>5, <2>6, <2>7
  <2>9. x = y + 0 + b /\ a + 1 \in 1 .. x
    BY ONLY <2>8
  <2>10. ASSUME NEW j \in DOMAIN lt PROVE lt[j] = oc[y + 0 + j]
    <3>1. j \in Nat
      BY ONLY <2>5, <2>10
    <3>2. a + 1 + j = y + 0 + j
      BY ONLY <2>8, <3>1
    <3>3. lt[j] = oc[a + 1 + j]
      BY ONLY <2>3, <2>7, <2>10
    <3> QED BY ONLY <3>2, <3>3
  <2>11. oc[a + 1].text = NoPiece
    <3>1. a + 1 \in DOMAIN oc
      <4>1. DOMAIN oc = 1 .. x
        BY ONLY <2>5, <2>7
      <4> QED BY ONLY <2>9, <4>1
    <3>2. oc[a + 1] = Held(oc[a + 1].tag, oc[a + 1].obj)
      <4>1. BuiltContent(of) /\ heap[of] = o
        BY <1>4, <1>5, <1>11
      <4>2. oc[a + 1].tag # NoTag
        BY ONLY <1>10, <2>3, <2>7
      <4> QED BY ONLY <2>2, <3>1, <4>1, <4>2 DEF BuiltContent
    <3> QED BY ONLY <3>2 DEF Held
  <2>12. ASSUME NEW j \in DOMAIN dc PROVE ItemIsCopy(oc[j], dc[j])'
    <3>1. j \in 1 .. y
      BY ONLY <2>6, <2>7, <2>12
    <3>2. j \in 1 .. a \/ j = a + 1
      BY ONLY <2>8, <3>1
    <3>3. CASE j \in 1 .. a
      <4>1. j \in DOMAIN cc /\ dc[j] = cc[j]
        BY ONLY <2>5, <2>6, <2>7, <3>3
      <4>2. ItemIsCopy(oc[j], dc[j])
        BY ONLY <2>3, <4>1
      <4> QED BY ONLY <1>3, <4>2 DEF ItemIsCopy
    <3>4. CASE j = a + 1
      <4>1. dc[j] = Held(tag, kid) /\ oc[j].tag = tag /\ copyOf[kid] = oc[j].obj
            /\ oc[j].text = NoPiece
        BY ONLY <2>3, <2>6, <2>7, <2>11, <3>4
      <4>2. dc[j].tag = tag /\ dc[j].text = NoPiece /\ dc[j].obj = kid
        BY ONLY <4>1 DEF Held
      <4> QED BY ONLY <1>3, <4>1, <4>2 DEF ItemIsCopy
    <3> QED BY <3>2, <3>3, <3>4
  <2>13. Below(k)' = 0 /\ heap'[writing'[k].of] = o
    <3>1. Below(k)' = 0
      BY ONLY <1>14 DEF Below
    <3> QED BY <1>4, <1>5, <1>11, <3>1
  <2> QED BY ONLY <1>4, <1>14, <2>2, <2>7, <2>9, <2>10, <2>12, <2>13 DEF OfContent
<1>17. copyOf'[stack'[k].obj] = writing'[k].of /\ writing'[k].of < Base'
  BY <1>3, <1>4, <1>5
<1> QED BY ONLY <1>3, <1>4, <1>6, <1>7, <1>12, <1>13, <1>15, <1>16, <1>17 DEF WritingOf

(* The objects above stay as they are.                                     *)
LEMMA AboveStay ==
  ASSUME Inv, [Next]_vars, phase = "rereading", NEW o, NEW L, Becomes(o, L),
         NEW k \in Depth, k # Len(stack)
  PROVE  WritingOf(k)'
<1>1. Types /\ Stacked /\ Again
  BY DEF Inv, Again
<1>2. PICK n : n = Len(stack)
  OBVIOUS
<1>3. /\ n \in Nat /\ n \in Depth /\ k \in Nat /\ k < n /\ Cur = stack[n].obj
      /\ Len(writing) = n /\ k \in 1 .. Len(writing)
  <2>1. n \in Nat /\ n \in Depth /\ Cur = stack[n].obj /\ Len(writing) = n
    BY <1>1, <1>2, Tops, Lefts
  <2> QED BY ONLY <1>2, <2>1, k \in Depth, k # Len(stack) DEF Depth
<1>4. stack[k].obj < stack[n].obj /\ stack[k].obj \in Ids /\ stack[n].obj \in Ids
  BY <1>1, <1>3 DEF Stacked
<1>5. stack[k].obj # Cur
  BY <1>3, <1>4 DEF Ids
<1>6. /\ stack' = stack /\ writing'[k] = writing[k] /\ Base' = Base
      /\ heap'[stack[k].obj] = heap[stack[k].obj]
  <2>1. phase' = phase /\ stack' = stack /\ Alone(Cur) /\ Leaving(L)
    BY DEF Becomes
  <2>2. writing'[k] = writing[k]
    BY ONLY <1>2, <1>3, <2>1, k # Len(stack) DEF Leaving
  <2>3. heap'[stack[k].obj] = heap[stack[k].obj]
    BY ONLY <1>4, <1>5, <2>1 DEF Alone
  <2>4. Base' = Base
    BY ONLY <2>1 DEF Base, Again, Alone
  <2> QED BY <2>1, <2>2, <2>3, <2>4
<1> QED BY <1>1, <1>6, WritingStays

LEMMA AboveElement ==
  ASSUME Inv, [Next]_vars, phase = "rereading", NEW tag, Element(tag),
         NEW k \in Depth, k # Len(stack)
  PROVE  WritingOf(k)'
<1>1. Types /\ Stacked /\ Again
  BY DEF Inv, Again
<1>2. PICK n, m, c, of, o, l, new, f, i :
        /\ n = Len(stack) /\ m = Cur /\ c = heap[m] /\ of = writing[n].of
        /\ o = heap[of] /\ l = Left /\ new = Len(heap) + 1
        /\ f = KidsOf(heap[writing[n].of], tag)[Len(Top.fields[tag]) + 1]
        /\ i = heap[writing[n].of].content[Len(Top.content) + 1].obj
  OBVIOUS
<1>3. AtElement(tag, n, m, c, of, o, l, new)
  BY <1>2, AtElementIs
<1>4. /\ n \in Nat /\ Len(writing) = n /\ k < n /\ k \in 1 .. n /\ Len(stack') = n + 1
      /\ Base' = Base /\ \A id \in Ids : heap'[id] = heap[id]
  <2>1. /\ n \in Nat /\ Len(writing) = n /\ Len(stack') = n + 1
        /\ Base' = Base /\ \A id \in Ids : heap'[id] = heap[id]
    BY ONLY <1>3 DEF AtElement
  <2> QED BY ONLY <1>2, <2>1, k \in Depth, k # Len(stack) DEF Depth
<1>5. \E L, e : Pushes(L, e)
  <2>1. tag \in DOMAIN Row[Top.cls].kids /\ WritesElement(tag)
    BY ElementIs
  <2>2. CASE WritesField(tag)
    BY <1>2, <2>1, <2>2, FieldPushed DEF FieldPush
  <2>3. CASE WritesItem(tag)
    BY <1>2, <2>1, <2>3, ItemPushed DEF ItemPush
  <2> QED BY <2>1, <2>2, <2>3, WritesElementIs
<1>6. PICK L, e : Pushes(L, e)
  BY <1>5
<1>7. writing'[k] = writing[k]
  BY ONLY <1>2, <1>4, <1>6, k # Len(stack) DEF Pushes
<1>8. \A j \in Depth : stack'[j] = stack[j]
  BY ElementIs
<1>9. k + 1 \in Depth
  BY ONLY <1>2, <1>4 DEF Depth
<1>10. stack[k].obj \in Ids
  BY <1>1 DEF Stacked
<1>11. /\ stack'[k] = stack[k] /\ stack'[k + 1] = stack[k + 1]
       /\ heap'[stack[k].obj] = heap[stack[k].obj]
       /\ k < Len(stack') /\ k < Len(stack) /\ k # Len(stack')
  <2>1. k < n + 1 /\ k # n + 1
    BY ONLY <1>4
  <2> QED BY <1>2, <1>4, <1>8, <1>9, <1>10, <2>1
<1> QED BY <1>1, <1>4, <1>7, <1>11, WritingStays

LEMMA AboveEnd ==
  ASSUME Inv, [Next]_vars, phase = "rereading", EndElement,
         NEW k \in Depth, k < Len(stack) - 1
  PROVE  WritingOf(k)'
<1>1. Types /\ Stacked /\ Again
  BY DEF Inv, Again
<1>2. PICK n, into : n = Len(stack) /\ into = stack[n - 1].obj
  OBVIOUS
<1>3. /\ n \in Nat /\ n > 1 /\ n - 1 \in Depth /\ into \in Ids /\ Alone(into)
      /\ Len(stack') = n - 1 /\ \A i \in 1 .. n - 1 : stack'[i] = stack[i]
      /\ \A i \in 1 .. n - 1 : writing'[i] = writing[i]
      /\ phase' = phase
  BY <1>2, EndElementIs
<1>4. /\ k \in 1 .. n - 1 /\ k + 1 \in 1 .. n - 1 /\ 1 \in 1 .. n - 1
      /\ k < n - 1 /\ k < n /\ k # n - 1 /\ k # n
  BY ONLY <1>2, <1>3, k \in Depth, k < Len(stack) - 1 DEF Depth
<1>5. stack[k].obj < into /\ stack[k].obj \in Ids
  BY <1>1, <1>2, <1>3, <1>4 DEF Stacked
<1>6. stack[k].obj # into
  BY ONLY <1>3, <1>5 DEF Ids
<1>7. heap'[stack[k].obj] = heap[stack[k].obj]
  BY ONLY <1>3, <1>5, <1>6 DEF Alone
<1>8. Base' = Base
  BY ONLY <1>1, <1>3, <1>4 DEF Base, Again
<1>9. /\ stack'[k] = stack[k] /\ stack'[k + 1] = stack[k + 1] /\ writing'[k] = writing[k]
      /\ k < Len(stack') /\ k < Len(stack) /\ k # Len(stack') /\ k # Len(stack)
  BY ONLY <1>2, <1>3, <1>4
<1> QED BY <1>1, <1>7, <1>8, <1>9, WritingStays

(* What Lockstep says of the phases and of the root.                       *)
LEMMA WhileReading ==
  ASSUME Inv, phase = "reading", phase' \in {"reading", "read"}, writing' = writing,
         phase' = "read" => Len(stack') = 1
  PROVE  Lockstep'
<1>1. writing = <<>>
  BY DEF Inv, Lockstep, Again
<1>2. ~Again' /\ phase' # "reread"
  BY DEF Again
<1> QED BY <1>1, <1>2 DEF Lockstep

LEMMA RootStays ==
  ASSUME Inv, [Next]_vars, Again, Again', Len(stack') \in Nat, Len(stack') > 0,
         stack'[1] = stack[1]
  PROVE  /\ copyOf'[stack'[1].obj] = 1 /\ Base' = Base /\ 1 < Base'
         /\ 1 \in Depth'
<1>1. Types /\ Stacked /\ copyOf[stack[1].obj] = 1 /\ 1 < Base
  BY DEF Inv, Lockstep
<1>2. stack[1].obj \in Ids
  BY <1>1, Tops DEF Stacked
<1>3. copyOf'[stack[1].obj] = copyOf[stack[1].obj]
  BY <1>2, Later
<1>4. Base' = Base
  BY DEF Base
<1>5. 1 \in Depth'
  BY DEF Depth
<1> QED BY <1>1, <1>3, <1>4, <1>5

LEMMA LockstepStep ==
  ASSUME Inv, [Next]_vars
  PROVE  Lockstep'
<1>1. /\ Types /\ Stacked /\ Lockstep
      /\ phase \in {"reading", "read"} \/ Again
  BY DEF Inv, Types
<1>2. PICK n : n = Len(stack)
  OBVIOUS
<1>3. n \in Nat /\ n \in Depth /\ 1 \in Depth /\ Depth = 1 .. n /\ n > 0
  <2>1. n \in Nat /\ n \in Depth /\ 1 \in Depth
    BY <1>1, <1>2, Tops
  <2> QED BY ONLY <1>2, <2>1 DEF Depth
<1>4. ASSUME phase' = phase, phase = "rereading", Len(stack') \in Nat, Len(stack') > 0,
             stack'[1] = stack[1], Len(writing') = Len(stack'),
             \A k \in 1 .. Len(stack') : WritingOf(k)'
      PROVE  Lockstep'
  <2>1. Again /\ Again'
    BY <1>4 DEF Again
  <2>2. copyOf'[stack'[1].obj] = 1 /\ 1 < Base'
    BY <1>4, <2>1, RootStays
  <2>3. phase' # "read" /\ phase' # "reread"
    BY <1>4
  <2> QED BY ONLY <1>4, <2>1, <2>2, <2>3 DEF Lockstep, Depth
<1>5. ASSUME phase = "rereading", NEW o, NEW L, Becomes(o, L), WritingOf(n)'
      PROVE  Lockstep'
  <2>1. phase' = phase /\ stack' = stack /\ Len(writing') = Len(writing)
    BY <1>5 DEF Becomes, Leaving
  <2>2. Len(writing) = n
    BY <1>2, <1>5, Lefts
  <2>3. \A k \in 1 .. n : WritingOf(k)'
    BY <1>2, <1>3, <1>5, AboveStay
  <2>4. Len(stack') = n
    BY <1>2, <2>1
  <2> QED BY <1>3, <1>4, <1>5, <2>1, <2>2, <2>3, <2>4
<1>6. ASSUME NEW a \in Class.attrs, Attribute(a) PROVE Lockstep'
  <2>1. PICK o, L : /\ o = [Top EXCEPT !.attrs = Top.attrs \cup {a}]
                    /\ L = [Left EXCEPT !.attrs = Left.attrs \ {a}]
    OBVIOUS
  <2>2. phase \in {"reading", "rereading"} /\ Becomes(o, L)
    BY <1>6, <2>1, AttributeIs, Zenon
  <2>3. CASE phase = "reading"
    BY <2>2, <2>3, WhileReading DEF Becomes
  <2>4. CASE phase = "rereading"
    BY <1>2, <1>5, <1>6, <2>2, <2>4, AttributeLock
  <2> QED BY <2>2, <2>3, <2>4
<1>7. ASSUME NEW p \in Piece, Text(p) PROVE Lockstep'
  <2>1. PICK o, L :
          /\ o = Takes(Top, p)
          /\ L = [Left EXCEPT
                    !.value = IF Left.value = <<>> THEN Left.value ELSE Tail(Left.value),
                    !.content = IF Left.content = <<>> THEN Left.content
                                ELSE Tail(Left.content)]
    OBVIOUS
  <2>2. phase \in {"reading", "rereading"} /\ Becomes(o, L)
    BY <1>7, <2>1, TextIs, Zenon
  <2>3. CASE phase = "reading"
    BY <2>2, <2>3, WhileReading DEF Becomes
  <2>4. CASE phase = "rereading"
    BY <1>2, <1>5, <1>7, <2>2, <2>4, TextLock
  <2> QED BY <2>2, <2>3, <2>4
<1>8. ASSUME NEW tag \in DOMAIN Class.kids, Element(tag) PROVE Lockstep'
  <2>1. /\ phase \in {"reading", "rereading"} /\ phase' = phase
        /\ Len(stack') = n + 1 /\ \A k \in Depth : stack'[k] = stack[k]
        /\ phase = "reading" => writing' = writing
        /\ phase = "rereading" => Len(writing') = n + 1
    BY <1>2, <1>8, ElementIs
  <2>2. CASE phase = "reading"
    BY <2>1, <2>2, WhileReading
  <2>3. CASE phase = "rereading"
    <3>1. WritingOf(n)'
      <4>1. tag \in DOMAIN Row[Top.cls].kids /\ WritesElement(tag)
        BY <1>8, <2>3, ElementIs
      <4> QED BY <1>2, <1>8, <2>3, <4>1, WritesElementIs, FieldLock, ItemLock
    <3>2. WritingOf(n + 1)'
      BY <1>2, <1>8, <2>3, KidLock
    <3>3. \A k \in Depth : k # n => WritingOf(k)'
      BY <1>2, <1>8, <2>3, AboveElement
    <3>4. \A k \in 1 .. n + 1 : k = n + 1 \/ k \in Depth
      BY ONLY <1>3
    <3>5. \A k \in 1 .. n + 1 : WritingOf(k)'
      BY <3>1, <3>2, <3>3, <3>4
    <3>6. n + 1 \in Nat /\ n + 1 > 0 /\ stack'[1] = stack[1]
      BY ONLY <1>3, <2>1
    <3> QED BY <1>4, <2>1, <2>3, <3>5, <3>6
  <2> QED BY <2>1, <2>2, <2>3
<1>9. CASE EndElement
  <2>1. /\ phase \in {"reading", "rereading"} /\ phase' = phase /\ n > 1
        /\ Len(stack') = n - 1 /\ \A k \in 1 .. n - 1 : stack'[k] = stack[k]
        /\ phase = "reading" => writing' = writing
        /\ phase = "rereading" => Len(writing') = n - 1
    BY <1>2, <1>9, EndElementIs
  <2>2. CASE phase = "reading"
    BY <2>1, <2>2, WhileReading
  <2>3. CASE phase = "rereading"
    <3>1. PICK k1 : k1 = Len(stack) - 1
      OBVIOUS
    <3>2. WritingOf(k1)'
      BY <1>9, <2>3, <3>1, EndLock
    <3>3. \A k \in Depth : k < Len(stack) - 1 => WritingOf(k)'
      BY <1>9, <2>3, AboveEnd
    <3>4. \A k \in 1 .. n - 1 : k = k1 \/ (k \in Depth /\ k < Len(stack) - 1)
      BY ONLY <1>2, <1>3, <3>1
    <3>5. \A k \in 1 .. n - 1 : WritingOf(k)'
      BY <3>2, <3>3, <3>4
    <3>6. n - 1 \in Nat /\ n - 1 > 0 /\ stack'[1] = stack[1]
      BY ONLY <1>3, <2>1
    <3> QED BY <1>4, <2>1, <2>3, <3>5, <3>6
  <2> QED BY <2>1, <2>2, <2>3
<1>10. ASSUME UNCHANGED <<heap, stack, writing, copyOf>>, Again, Again',
              phase' = "reread" => Len(stack) = 1 /\ AllWritten
       PROVE  Lockstep'
  <2>1. /\ copyOf'[stack'[1].obj] = 1 /\ Base' = Base /\ 1 < Base'
    BY <1>2, <1>3, <1>10, RootStays
  <2>2. \A k \in Depth : WritingOf(k)'
    BY <1>10, <2>1, WritingStays
  <2>3. AllWritten' = AllWritten
    BY <1>10 DEF AllWritten, Left
  <2>4. Len(writing') = Len(stack') /\ Depth' = Depth /\ phase' # "read"
    BY <1>1, <1>10 DEF Lockstep, Depth, Again
  <2> QED BY ONLY <1>10, <2>1, <2>2, <2>3, <2>4 DEF Lockstep
<1>11. CASE Unknown
  <2>1. /\ UNCHANGED <<phase, heap, stack, copyOf>> /\ phase = "reading"
        /\ writing' = writing
    BY <1>11 DEF Unknown, Node
  <2> QED BY <2>1, WhileReading
<1>12. CASE EndDocument
  <2>1. CASE phase = "reading"
    <3>1. phase' = "read" /\ Len(stack) = 1 /\ UNCHANGED <<stack, writing>>
      BY <1>12, <2>1 DEF EndDocument
    <3> QED BY <2>1, <3>1, WhileReading
  <2>2. CASE phase # "reading"
    <3>1. /\ phase = "rereading" /\ phase' = "reread" /\ Len(stack) = 1 /\ AllWritten
          /\ UNCHANGED <<heap, stack, writing, copyOf>>
      BY <1>12, <2>2 DEF EndDocument
    <3>2. Again /\ Again'
      BY <3>1 DEF Again
    <3> QED BY <1>10, <3>1, <3>2
  <2> QED BY <2>1, <2>2
<1>13. CASE Malformed
  <2>1. /\ phase = "rereading" /\ phase' = "malformed"
        /\ UNCHANGED <<heap, stack, writing, copyOf>>
    BY <1>13 DEF Malformed
  <2>2. Again /\ Again'
    BY <2>1 DEF Again
  <2> QED BY <1>10, <2>1, <2>2
<1>14. CASE UNCHANGED vars
  <2>1. UNCHANGED <<phase, heap, stack, writing, copyOf>>
    BY <1>14 DEF vars
  <2>2. CASE Again
    <3>1. Again' /\ (phase' = "reread" => Len(stack) = 1 /\ AllWritten)
      BY <1>1, <2>1, <2>2 DEF Again, Lockstep
    <3> QED BY <1>10, <2>1, <2>2, <3>1
  <2>3. CASE ~Again
    <3>1. writing = <<>> /\ (phase = "read" => Len(stack) = 1) /\ ~Again'
          /\ phase' # "reread"
      BY <1>1, <2>1, <2>3 DEF Again, Lockstep
    <3> QED BY ONLY <2>1, <3>1 DEF Lockstep
  <2> QED BY <2>2, <2>3
<1>15. CASE Export
  <2>1. /\ phase' = "rereading" /\ Again'
        /\ Len(stack') = 1 /\ Len(writing') = 1
        /\ 1 \in Ids /\ heap'[Len(heap) + 1] = New(heap[1].cls)
        /\ \A i \in Ids : heap'[i] = heap[i]
        /\ stack'[1].obj = Len(heap) + 1
        /\ writing'[1] = Exported(1, FALSE)
        /\ copyOf'[Len(heap) + 1] = 1
    BY <1>15, ExportIs
  <2>2. Base' = Len(heap) + 1
    BY ONLY <2>1 DEF Base
  <2>3. 1 < Base'
    <3>1. Len(heap) \in Nat
      BY <1>1, Tops
    <3> QED BY ONLY <2>1, <2>2, <3>1 DEF Ids
  <2>4. PICK k, m, o, raw : k = 1 /\ m = Len(heap) + 1 /\ o = heap[k] /\ raw = FALSE
    OBVIOUS
  <2>5. /\ k \in Nat /\ k = Len(stack') /\ stack'[k].obj = m /\ k \in Ids /\ k < Base'
        /\ copyOf'[m] = k /\ writing'[k] = Exported(k, raw) /\ o \in Objs
        /\ heap'[k] = o /\ heap'[m] = New(o.cls)
    <3>1. heap[1] \in Objs
      BY <1>1, <2>1, Tops
    <3> QED BY ONLY <2>1, <2>3, <2>4, <3>1
  <2>6. WritingOf(k)'
    BY <2>4, <2>5, Started
  <2>7. Depth' = {1}
    BY ONLY <2>1 DEF Depth
  <2>8. \A i \in Depth' : WritingOf(i)'
    BY <2>4, <2>6, <2>7
  <2>9. phase' # "read" /\ phase' # "reread"
    BY <2>1
  <2> QED BY ONLY <2>1, <2>3, <2>8, <2>9 DEF Lockstep
<1> QED BY <1>6, <1>7, <1>8, <1>9, <1>11, <1>12, <1>13, <1>14, <1>15 DEF Next

-----------------------------------------------------------------------------
(* The theorems.                                                           *)

LEMMA InvStep == Inv /\ [Next]_vars => Inv'
<1> SUFFICES ASSUME Inv, [Next]_vars PROVE Inv'
  OBVIOUS
<1> QED BY TypesStep, StackedStep, BuiltStep, CopiesStep, LockstepStep, Zenon DEF Inv

LEMMA Invariant == Spec => []Inv
BY InitInv, InvStep, PTL DEF Spec

LEMMA InvRoundTrip == Inv => RoundTrip
<1> SUFFICES ASSUME Inv, phase = "reread"
             PROVE  /\ copyOf[stack[1].obj] = 1
                    /\ \A id \in DOMAIN heap :
                         copyOf[id] \in DOMAIN heap =>
                           IsCopy(heap[copyOf[id]], heap[id])
  BY DEF RoundTrip
<1>1. /\ Types /\ Stacked /\ Copies /\ Again /\ Len(stack) = 1 /\ AllWritten
      /\ copyOf[stack[1].obj] = 1
  BY DEF Inv, Lockstep, Again
<1>2. /\ DOMAIN heap = Ids /\ Cur = stack[1].obj /\ heap[Cur] \in Objs
      /\ \A k \in Depth : k = 1
  <2>1. DOMAIN heap = Ids /\ Cur = stack[Len(stack)].obj /\ heap[Cur] \in Objs
    BY <1>1, Tops
  <2> QED BY ONLY <1>1, <2>1 DEF Depth
<1>3. Base \in Nat /\ Ids \subseteq Nat
  <2>1. Base \in 1 .. Len(heap) + 1 /\ Len(heap) \in Nat
    BY <1>1, BaseIs, Tops
  <2> QED BY ONLY <2>1 DEF Ids
<1>4. ASSUME NEW id \in Ids, copyOf[id] \in Ids
      PROVE  IsCopy(heap[copyOf[id]], heap[id])
  <2>0. FromOne(copyOf[id])
    BY <1>4 DEF Ids, None, FromOne
  <2>1. id >= Base
    <3>1. ~(id < Base)
      BY <1>1, <1>4, <2>0 DEF Copies, None, FromOne
    <3> QED BY ONLY <1>3, <1>4, <3>1
  <2>2. CASE ~Open(id)
    BY <1>1, <1>4, <2>0, <2>1, <2>2 DEF Copies, None, FromOne
  <2>3. CASE Open(id)
    <3>1. id = Cur
      BY <1>2, <2>3 DEF Open
    <3>2. PICK c, of : c = heap[Cur] /\ of = copyOf[Cur]
      OBVIOUS
    <3>3. c \in Objs
      BY <1>2, <3>2
    <3>4. IF ~FromOne(of) THEN c = TitleRead(of) ELSE of \in Ids /\ IsCopy(heap[of], c)
      BY <1>1, <3>2, <3>3, Closes
    <3> QED BY ONLY <1>4, <2>0, <3>1, <3>2, <3>4 DEF None, FromOne, Ids
  <2> QED BY <2>2, <2>3
<1> QED BY <1>1, <1>2, <1>4

(* A document that is written by export and read again by build gives the  *)
(* objects that were written, but for what is in a paragraph besides its   *)
(* text, and a compound's title, of which only whether there was one is    *)
(* kept, and that in the text of a title that is there in any case:        *)
(* whatever the table of classes, however deep it nests, and in whatever   *)
(* order attributes and the lists of children are written.                 *)
THEOREM RoundTrips == Spec => []RoundTrip
BY Invariant, InvRoundTrip, PTL

-----------------------------------------------------------------------------
(* Special text.                                                           *)

Spoilt ==
  \E at \in special :
    \/ Row[at[1]].text = "content"
    \/ at[1] = "Text" /\ at[2] \in {"name", "sp"}

HasSpecial(value) == \E j \in DOMAIN value : value[j].kind = "special"

(* Special text, or a simple element that has it.                          *)
Sees(item) ==
  IF item.tag = NoTag THEN item.text.kind = "special"
  ELSE heap[item.obj].cls = "Text" /\ HasSpecial(heap[item.obj].value)

(* Where export would not quote it, it has been read.                      *)
Unquoted(id) ==
  Row[heap[id].cls].text = "content" =>
    \A k \in DOMAIN heap[id].content : Sees(heap[id].content[k]) => Spoilt
Simple(k) ==
  heap[stack[k].obj].cls = "Text" /\ HasSpecial(heap[stack[k].obj].value)
    => <<"Text", stack[k].tag>> \in special
Raw(k) == writing[k].raw /\ HasSpecial(writing[k].left.value) => Spoilt

Specials ==
  /\ \A id \in Ids : id < Base => Unquoted(id)
  /\ ~Again => \A k \in Depth : Simple(k)
  /\ \A k \in DOMAIN writing : Raw(k)

LEMMA SpecialGrows ==
  ASSUME [Next]_vars
  PROVE  special \subseteq special' /\ (Spoilt => Spoilt')
<1>1. special \subseteq special'
  <2>1. ASSUME NEW p, Text(p) PROVE special \subseteq special'
    BY <2>1 DEF Text
  <2>2. ASSUME NEW a, Attribute(a) PROVE special' = special
    BY <2>2 DEF Attribute
  <2>3. ASSUME NEW tag, Element(tag) PROVE special' = special
    BY <2>3 DEF Element
  <2>4. Unknown \/ EndElement \/ EndDocument \/ Export \/ Malformed \/ UNCHANGED vars
          => special' = special
    BY DEF Unknown, EndElement, EndDocument, Export, Malformed, vars
  <2> QED BY <2>1, <2>2, <2>3, <2>4 DEF Next
<1> QED BY ONLY <1>1 DEF Spoilt

(* What was read before is not read again.                                 *)
LEMMA BaseFalls ==
  ASSUME Inv, [Next]_vars, NEW id \in Ids, id < Base'
  PROVE  id < Base
<1>1. Types /\ Stacked /\ Len(heap) \in Nat /\ 1 \in Depth /\ Len(stack) \in Nat
  BY Tops DEF Inv
<1>2. CASE ~Again
  BY <1>1, <1>2 DEF Base, Ids
<1>3. CASE Again
  <2>1. CASE Local
    BY <2>1, <1>1, SamePlaces
  <2>2. ASSUME NEW tag, Element(tag) PROVE Base' = Base
    <3>1. phase' = phase /\ \A k \in Depth : stack'[k] = stack[k]
      BY <2>2, ElementIs
    <3> QED BY ONLY <1>1, <1>3, <3>1 DEF Base, Again
  <2>3. CASE EndElement
    <3>1. PICK n : n = Len(stack)
      OBVIOUS
    <3>2. phase' = phase /\ n > 1 /\ \A k \in 1 .. n - 1 : stack'[k] = stack[k]
      BY <2>3, <3>1, EndElementIs
    <3>3. 1 \in 1 .. n - 1
      BY ONLY <1>1, <3>1, <3>2
    <3>4. Base' = Base
      BY ONLY <1>3, <3>2, <3>3 DEF Base, Again
    <3> QED BY <3>4
  <2>4. ~Export
    BY <1>3 DEF Export, Again
  <2> QED BY <2>1, <2>2, <2>3, <2>4, StepKinds
<1> QED BY <1>2, <1>3

(* What the objects read before hold stays.                                *)
LEMMA SeesStays ==
  ASSUME Inv, [Next]_vars, NEW id \in Ids, NEW k \in DOMAIN heap[id].content,
         NEW item, item = heap[id].content[k], Sees(item)'
  PROVE  Sees(item)
<1>1. CASE item.tag = NoTag
  BY <1>1 DEF Sees
<1>2. CASE item.tag # NoTag
  <2>1. BuiltContent(id)
    BY DEF Inv, Built
  <2>2. IsKid(id, item.tag, item.obj)
    BY <1>2, <2>1 DEF BuiltContent
  <2>3. heap'[item.obj] = heap[item.obj]
    BY <2>2, ClosedStay DEF IsKid
  <2> QED BY ONLY <1>2, <2>3, Sees(item)' DEF Sees
<1> QED BY <1>1, <1>2

LEMMA UnquotedStays ==
  ASSUME Inv, Specials, [Next]_vars, NEW id \in Ids, id < Base',
         heap'[id].content = heap[id].content
  PROVE  Unquoted(id)'
<1>1. Unquoted(id)
  BY BaseFalls DEF Specials
<1>2. heap'[id].cls = heap[id].cls
  BY Later
<1>3. ASSUME Row[heap[id].cls].text = "content", NEW k \in DOMAIN heap[id].content,
             Sees(heap[id].content[k])'
      PROVE  Spoilt'
  <2>1. PICK item : item = heap[id].content[k] /\ Sees(item)'
    <3>1. PICK item : item = heap'[id].content[k]
      OBVIOUS
    <3>2. item = heap[id].content[k]
      BY <3>1
    <3> QED BY ONLY <1>3, <3>1, <3>2, heap'[id].content = heap[id].content DEF Sees
  <2>2. Sees(item)
    BY <1>3, <2>1, SeesStays
  <2> QED BY <1>1, <1>3, <2>1, <2>2, SpecialGrows DEF Unquoted
<1> QED BY ONLY <1>2, <1>3, heap'[id].content = heap[id].content DEF Unquoted, Sees

LEMMA UnquotedText ==
  ASSUME Inv, Specials, [Next]_vars, NEW p \in Piece, Text(p), NEW id \in Ids, id < Base',
         id = Cur
  PROVE  Unquoted(id)'
<1>1. Types /\ Stacked /\ phase \in {"reading", "rereading"}
  BY TextIs DEF Inv
<1>2. phase = "reading"
  <2>1. CASE Again
    <3>1. Base <= Cur /\ Cur \in Ids /\ Base \in Nat
      BY <1>1, <2>1, BaseIs, Tops DEF Ids
    <3>2. id < Base
      BY BaseFalls
    <3> QED BY ONLY <3>1, <3>2, id = Cur DEF Ids
  <2>2. CASE ~Again
    BY <1>1, <2>2 DEF Again
  <2> QED BY <2>1, <2>2
<1>3. PICK o, L :
        /\ o = Takes(Top, p)
        /\ L = [Left EXCEPT
                  !.value = IF Left.value = <<>> THEN Left.value ELSE Tail(Left.value),
                  !.content = IF Left.content = <<>> THEN Left.content
                              ELSE Tail(Left.content)]
  OBVIOUS
<1>4. Becomes(o, L) /\ p \in Pieces
  BY <1>3, TextIs, Zenon
<1>5. /\ heap'[id] = o /\ Top = heap[id] /\ Top \in Objs /\ Top.content \in Seq(Items)
      /\ Last(stack).tag = stack[Len(stack)].tag
  BY <1>1, <1>4, Tops, Parts DEF Becomes
<1>6. /\ o.cls = Top.cls /\ Said(p) \in Items
      /\ o.content = IF In(Top, p) THEN Append(Top.content, Said(p)) ELSE Top.content
  BY <1>3, <1>4, <1>5, TakesIs
<1>7. CASE ~In(Top, p)
  <2>1. heap'[id].content = heap[id].content
    BY ONLY <1>5, <1>6, <1>7
  <2> QED BY <2>1, UnquotedStays
<1>8. CASE In(Top, p)
  <2>1. /\ Len(o.content) = Len(Top.content) + 1 /\ o.content \in Seq(Items)
        /\ \A k \in 1 .. Len(Top.content) : o.content[k] = Top.content[k]
        /\ o.content[Len(Top.content) + 1] = Said(p)
    <3>1. o.content = Append(Top.content, Said(p))
      BY ONLY <1>6, <1>8
    <3> QED BY ONLY <1>5, <1>6, <3>1, Appended
  <2>2. \A k \in DOMAIN o.content :
          k \in 1 .. Len(Top.content) \/ k = Len(Top.content) + 1
    BY ONLY <1>5, <2>1
  <2>3. DOMAIN Top.content = 1 .. Len(Top.content)
    BY ONLY <1>5
  <2>4. ASSUME Row[Top.cls].text = "content", NEW k \in DOMAIN o.content,
               NEW item, item = o.content[k], Sees(item)'
        PROVE  Spoilt'
    <3>1. CASE k \in 1 .. Len(Top.content)
      <4>1. k \in DOMAIN heap[id].content /\ item = heap[id].content[k]
        BY ONLY <1>5, <2>1, <2>3, <2>4, <3>1
      <4>2. Sees(item)
        BY <2>4, <4>1, SeesStays
      <4>3. Unquoted(id)
        BY BaseFalls DEF Specials
      <4>4. Spoilt
        BY ONLY <1>5, <2>4, <4>1, <4>2, <4>3 DEF Unquoted
      <4> QED BY <4>4, SpecialGrows
    <3>2. CASE k = Len(Top.content) + 1
      <4>1. item = Said(p)
        BY ONLY <2>1, <2>4, <3>2
      <4>2. p.kind = "special"
        BY ONLY <2>4, <4>1 DEF Sees, Said
      <4>3. <<Top.cls, Last(stack).tag>> \in special'
        BY <1>2, <4>2 DEF Text
      <4> QED BY <2>4, <4>3 DEF Spoilt
    <3> QED BY <2>2, <2>4, <3>1, <3>2
  <2> QED BY ONLY <1>5, <1>6, <2>4 DEF Unquoted, Sees
<1> QED BY <1>7, <1>8

LEMMA UnquotedEnd ==
  ASSUME Inv, Specials, [Next]_vars, EndElement, NEW id \in Ids, id < Base',
         id = stack[Len(stack) - 1].obj
  PROVE  Unquoted(id)'
<1>1. PICK n, tag, kid, o, r :
        /\ n = Len(stack) /\ tag = stack[n].tag /\ kid = stack[n].obj
        /\ o = heap[id] /\ r = Keeps(o, tag, kid)
  OBVIOUS
<1>2. /\ phase \in {"reading", "rereading"} /\ n \in Depth /\ n - 1 \in Depth
      /\ kid \in Ids /\ id < kid /\ o \in Objs
      /\ tag \in DOMAIN Row[o.cls].kids /\ heap[kid].cls = Row[o.cls].kids[tag].cls
      /\ Alone(id) /\ heap'[id] = r
  BY <1>1, EndElementIs
<1>3. phase = "reading" /\ ~Again /\ Types /\ Stacked
  <2>1. Types /\ Stacked
    BY DEF Inv
  <2>2. CASE Again
    <3>1. Base <= id /\ Base \in Nat
      <4>1. Base \in Ids /\ \A k \in Depth : Base <= stack[k].obj
        BY <2>1, <2>2, BaseIs
      <4>2. Ids \subseteq Nat
        BY <2>1, IdsAreNat
      <4>3. Len(stack) - 1 \in Depth
        BY ONLY <1>1, <1>2
      <4> QED BY <4>1, <4>2, <4>3
    <3>2. id < Base
      BY BaseFalls
    <3> QED BY ONLY <3>1, <3>2, id \in Ids DEF Ids
  <2> QED BY <1>2, <2>1, <2>2 DEF Again
<1>4. o.content \in Seq(Items) /\ o.cls \in DOMAIN Row /\ kid \in Nat
  BY <1>2, Parts DEF Ids
<1>5. /\ r.cls = o.cls
      /\ r.content = IF Row[o.cls].kids[tag].how = "mixed"
                     THEN Append(o.content, Held(tag, kid)) ELSE o.content
  <2>1. /\ Keeps(o, tag, kid).cls = o.cls
        /\ IF Row[o.cls].kids[tag].how = "mixed"
           THEN Keeps(o, tag, kid).content = Append(o.content, Held(tag, kid))
           ELSE Keeps(o, tag, kid).content = o.content
    BY <1>2, <1>4, KeepsIs, Zenon
  <2> QED BY ONLY <1>1, <2>1
<1>6. CASE Row[o.cls].kids[tag].how # "mixed"
  <2>1. heap'[id].content = heap[id].content
    BY ONLY <1>1, <1>2, <1>5, <1>6
  <2> QED BY <2>1, UnquotedStays
<1>7. CASE Row[o.cls].kids[tag].how = "mixed"
  <2>1. Held(tag, kid) \in Items
    <3>1. tag \in Tags
      BY <1>2, <1>4, Zenon DEF Tags
    <3>2. NoPiece \in Pieces
      BY DEF NoPiece, Pieces
    <3> QED BY <1>4, <3>1, <3>2 DEF Held, Items
  <2>2. /\ Len(r.content) = Len(o.content) + 1 /\ r.content \in Seq(Items)
        /\ \A k \in 1 .. Len(o.content) : r.content[k] = o.content[k]
        /\ r.content[Len(o.content) + 1] = Held(tag, kid)
    <3>1. r.content = Append(o.content, Held(tag, kid))
      BY ONLY <1>5, <1>7
    <3> QED BY ONLY <1>4, <2>1, <3>1, Appended
  <2>3. \A k \in DOMAIN r.content :
          k \in 1 .. Len(o.content) \/ k = Len(o.content) + 1
    BY ONLY <1>4, <2>2
  <2>4. DOMAIN o.content = 1 .. Len(o.content)
    BY ONLY <1>4
  <2>5. ASSUME Row[o.cls].text = "content", NEW k \in DOMAIN r.content,
               NEW item, item = r.content[k], Sees(item)'
        PROVE  Spoilt'
    <3>1. CASE k \in 1 .. Len(o.content)
      <4>1. k \in DOMAIN heap[id].content /\ item = heap[id].content[k]
        BY ONLY <1>1, <2>2, <2>4, <2>5, <3>1
      <4>2. Sees(item)
        BY <2>5, <4>1, SeesStays
      <4>3. Unquoted(id)
        BY BaseFalls DEF Specials
      <4>4. Spoilt
        BY ONLY <1>1, <2>5, <4>1, <4>2, <4>3 DEF Unquoted
      <4> QED BY <4>4, SpecialGrows
    <3>2. CASE k = Len(o.content) + 1
      <4>1. item.tag = tag /\ item.obj = kid
        BY ONLY <2>2, <2>5, <3>2 DEF Held
      <4>2. tag # NoTag
        BY <1>2, <1>4, TextKinds
      <4>3. heap'[kid].cls = "Text" /\ HasSpecial(heap'[kid].value)
        BY ONLY <2>5, <4>1, <4>2 DEF Sees
      <4>4. heap'[kid] = heap[kid]
        BY ONLY <1>2, <1>4 DEF Alone, Ids
      <4>5. <<"Text", tag>> \in special
        <5>1. Simple(n)
          BY <1>2, <1>3 DEF Specials
        <5> QED BY ONLY <1>1, <4>3, <4>4, <5>1 DEF Simple
      <4>6. tag \in {"name", "sp"}
        BY <1>2, <1>4, <2>5, <4>3, <4>4, SimpleAssumption
      <4>7. Spoilt
        BY ONLY <4>5, <4>6 DEF Spoilt
      <4> QED BY <4>7, SpecialGrows
    <3> QED BY <2>3, <2>5, <3>1, <3>2
  <2> QED BY ONLY <1>1, <1>2, <1>5, <2>5 DEF Unquoted, Sees
<1> QED BY <1>6, <1>7

LEMMA UnquotedStep ==
  ASSUME Inv, Specials, [Next]_vars
  PROVE  \A id \in Ids' : id < Base' => Unquoted(id)'
<1>1. Types /\ Stacked
  BY DEF Inv
<1>2. /\ Len(heap) \in Nat /\ Top = heap[Cur] /\ Cur \in Ids /\ Top \in Objs /\ 1 \in Depth
      /\ Len(stack) \in Nat
  BY <1>1, Tops
<1>3. ASSUME heap' = heap PROVE \A id \in Ids' : id < Base' => Unquoted(id)'
  <2>1. Ids' = Ids
    BY <1>3 DEF Ids
  <2> QED BY <1>3, <2>1, UnquotedStays
<1>5. ASSUME NEW a \in Class.attrs, Attribute(a)
      PROVE  \A id \in Ids' : id < Base' => Unquoted(id)'
  <2>1. PICK o, L : /\ o = [Top EXCEPT !.attrs = Top.attrs \cup {a}]
                    /\ L = [Left EXCEPT !.attrs = Left.attrs \ {a}]
    OBVIOUS
  <2>2. Becomes(o, L) /\ o.content = Top.content
    BY <1>5, <2>1, AttributeIs, Zenon
  <2>3. /\ Ids' = Ids
        /\ \A id \in Ids : heap'[id].content = heap[id].content
    BY ONLY <1>2, <2>2 DEF Becomes, Alone, Ids
  <2> QED BY <2>3, UnquotedStays
<1>6. ASSUME NEW p \in Piece, Text(p)
      PROVE  \A id \in Ids' : id < Base' => Unquoted(id)'
  <2>1. PICK o, L :
          /\ o = Takes(Top, p)
          /\ L = [Left EXCEPT
                    !.value = IF Left.value = <<>> THEN Left.value ELSE Tail(Left.value),
                    !.content = IF Left.content = <<>> THEN Left.content
                                ELSE Tail(Left.content)]
    OBVIOUS
  <2>2. Becomes(o, L)
    BY <1>6, <2>1, TextIs, Zenon
  <2>3. Ids' = Ids /\ \A id \in Ids : id # Cur => heap'[id] = heap[id]
    BY ONLY <2>2 DEF Becomes, Alone, Ids
  <2>4. \A id \in Ids : id # Cur => (id < Base' => Unquoted(id)')
    BY <2>3, UnquotedStays
  <2>5. \A id \in Ids : id = Cur => (id < Base' => Unquoted(id)')
    BY <1>6, UnquotedText
  <2> QED BY ONLY <2>3, <2>4, <2>5
<1>7. ASSUME Len(heap') = Len(heap) + 1, \A id \in Ids : heap'[id] = heap[id],
             NEW cls \in DOMAIN Row, heap'[Len(heap) + 1] = New(cls)
      PROVE  \A id \in Ids' : id < Base' => Unquoted(id)'
  <2>1. \A id \in Ids' : id \in Ids \/ id = Len(heap) + 1
    BY ONLY <1>2, <1>7 DEF Ids
  <2>2. \A id \in Ids : id < Base' => Unquoted(id)'
    BY <1>7, UnquotedStays
  <2>3. ASSUME NEW id, id = Len(heap) + 1 PROVE Unquoted(id)'
    <3>1. heap'[id].content = <<>>
      BY <1>7, <2>3, NewIs
    <3> QED BY ONLY <3>1 DEF Unquoted
  <2> QED BY <2>1, <2>2, <2>3
<1>8. ASSUME NEW tag \in DOMAIN Class.kids, Element(tag)
      PROVE  \A id \in Ids' : id < Base' => Unquoted(id)'
  <2>1. /\ Len(heap') = Len(heap) + 1 /\ heap'[Len(heap) + 1] = New(KidClass(tag))
        /\ \A i \in Ids : heap'[i] = heap[i]
    BY <1>8, ElementIs
  <2>2. KidClass(tag) \in DOMAIN Row
    BY <1>8, ElementIs
  <2> QED BY <1>7, <2>1, <2>2
<1>9. CASE EndElement
  <2>1. PICK into : into = stack[Len(stack) - 1].obj
    OBVIOUS
  <2>2. Alone(into)
    BY <1>9, <2>1, EndElementIs
  <2>3. Ids' = Ids /\ \A id \in Ids : id # into => heap'[id] = heap[id]
    BY ONLY <2>2 DEF Alone, Ids
  <2>4. \A id \in Ids : id # into => (id < Base' => Unquoted(id)')
    BY <2>3, UnquotedStays
  <2>5. \A id \in Ids : id = into => (id < Base' => Unquoted(id)')
    BY <1>9, <2>1, UnquotedEnd
  <2> QED BY ONLY <2>3, <2>4, <2>5
<1>10. CASE Export
  <2>1. /\ Len(heap') = Len(heap) + 1 /\ heap'[Len(heap) + 1] = New(heap[1].cls)
        /\ 1 \in Ids
    BY <1>10, ExportIs
  <2>2. \A i \in Ids : heap'[i] = heap[i]
    BY <1>10, ExportIs
  <2>3. heap[1].cls \in DOMAIN Row
    BY <1>1, <2>1, Tops
  <2> QED BY <1>7, <2>1, <2>2, <2>3
<1>11. CASE Unknown \/ EndDocument \/ Malformed \/ UNCHANGED vars
  <2>1. heap' = heap
    BY <1>11 DEF Unknown, EndDocument, Malformed, vars
  <2> QED BY <1>3, <2>1
<1> QED BY <1>5, <1>6, <1>8, <1>9, <1>10, <1>11 DEF Next


LEMMA AgainStays ==
  ASSUME Inv, [Next]_vars, ~Again'
  PROVE  ~Again
<1>1. CASE Local
  BY <1>1 DEF Local
<1>2. ASSUME NEW tag, Element(tag) PROVE ~Again
  <2>1. phase' = phase
    BY <1>2, ElementIs
  <2> QED BY ONLY <2>1, ~Again' DEF Again
<1>3. CASE EndElement
  <2>1. phase' = phase
    BY <1>3, EndElementIs
  <2> QED BY ONLY <2>1, ~Again' DEF Again
<1>4. CASE Export
  BY <1>4, ExportIs
<1> QED BY <1>1, <1>2, <1>3, <1>4, StepKinds

LEMMA SimpleStep ==
  ASSUME Inv, Specials, [Next]_vars, ~Again', NEW k \in Depth'
  PROVE  Simple(k)'
<1>1. Types /\ Stacked /\ ~Again
  BY AgainStays DEF Inv
<1>2. /\ Len(stack) \in Nat /\ Len(stack) \in Depth /\ Top = heap[Cur] /\ Cur \in Ids
      /\ Cur = stack[Len(stack)].obj /\ Top \in Objs
      /\ Last(stack) = stack[Len(stack)]
  BY <1>1, Tops
<1>3. ASSUME k \in Depth, stack'[k] = stack[k], NEW id, id = stack[k].obj,
             heap'[id].cls = heap[id].cls, heap'[id].value = heap[id].value
      PROVE  Simple(k)'
  <2>1. Simple(k)
    BY <1>1, <1>3 DEF Specials
  <2>2. special \subseteq special'
    BY SpecialGrows
  <2> QED BY ONLY <1>3, <2>1, <2>2 DEF Simple
<1>4. ASSUME heap' = heap, stack' = stack PROVE Simple(k)'
  BY <1>3, <1>4 DEF Depth
<1>5. ASSUME NEW a \in Class.attrs, Attribute(a) PROVE Simple(k)'
  <2>1. PICK o, L : /\ o = [Top EXCEPT !.attrs = Top.attrs \cup {a}]
                    /\ L = [Left EXCEPT !.attrs = Left.attrs \ {a}]
    OBVIOUS
  <2>2. Becomes(o, L) /\ o.value = Top.value /\ o.cls = Top.cls
    BY <1>5, <2>1, AttributeIs, Zenon
  <2>3. k \in Depth /\ stack' = stack
    BY <2>2 DEF Becomes, Depth
  <2>4. PICK id : id = stack[k].obj
    OBVIOUS
  <2>5. id \in Ids
    BY <1>1, <2>3, <2>4 DEF Stacked
  <2>6. heap'[id].cls = heap[id].cls /\ heap'[id].value = heap[id].value
    BY ONLY <1>2, <2>2, <2>5 DEF Becomes, Alone
  <2> QED BY <1>3, <2>3, <2>4, <2>6
<1>6. ASSUME NEW p \in Piece, Text(p) PROVE Simple(k)'
  <2>1. PICK o, L :
          /\ o = Takes(Top, p)
          /\ L = [Left EXCEPT
                    !.value = IF Left.value = <<>> THEN Left.value ELSE Tail(Left.value),
                    !.content = IF Left.content = <<>> THEN Left.content
                                ELSE Tail(Left.content)]
    OBVIOUS
  <2>2. Becomes(o, L) /\ p \in Pieces /\ phase \in {"reading", "rereading"}
    BY <1>6, <2>1, TextIs, Zenon
  <2>3. k \in Depth /\ stack' = stack /\ phase = "reading"
    BY <1>1, <2>2 DEF Becomes, Depth, Again
  <2>4. CASE k # Len(stack)
    <3>1. PICK id : id = stack[k].obj
      OBVIOUS
    <3>2. id \in Ids /\ id # Cur
      <4>1. k < Len(stack)
        BY ONLY <1>2, <2>3, <2>4 DEF Depth
      <4>2. id \in Ids /\ id < Cur
        BY <1>1, <1>2, <2>3, <3>1, <4>1 DEF Stacked
      <4> QED BY ONLY <4>2 DEF Ids
    <3>3. heap'[id] = heap[id]
      BY ONLY <2>2, <3>2 DEF Becomes, Alone
    <3> QED BY <1>3, <2>3, <3>1, <3>3
  <2>5. CASE k = Len(stack)
    <3>1. heap'[Cur] = o
      BY ONLY <2>2 DEF Becomes
    <3>2. /\ o.cls = Top.cls /\ Kept(Top, p) \in Pieces
          /\ o.value = IF Row[Top.cls].text \in {"value", "both"}
                       THEN Append(Top.value, Kept(Top, p)) ELSE Top.value
      BY <1>2, <2>1, <2>2, TakesIs
    <3>3. Top.value \in Seq(Pieces)
      BY <1>2, Parts
    <3>4. Simple(k) /\ special \subseteq special'
      BY <1>1, <2>3, SpecialGrows DEF Specials
    <3>5. ASSUME NEW j \in DOMAIN o.value, o.value[j].kind = "special", o.cls = "Text"
          PROVE  <<"Text", stack[k].tag>> \in special'
      <4>1. CASE j \in DOMAIN Top.value /\ o.value[j] = Top.value[j]
        BY ONLY <1>2, <2>5, <3>2, <3>4, <3>5, <4>1 DEF Simple, HasSpecial
      <4>2. CASE o.value[j] = Kept(Top, p)
        <5>1. p.kind = "special"
          BY ONLY <2>2, <3>5, <4>2 DEF Kept, Pieces
        <5>2. <<Top.cls, Last(stack).tag>> \in special'
          BY <1>6, <2>3, <5>1 DEF Text
        <5> QED BY ONLY <1>2, <2>5, <3>2, <3>5, <5>2
      <4>3. \/ j \in DOMAIN Top.value /\ o.value[j] = Top.value[j]
            \/ o.value[j] = Kept(Top, p)
        BY ONLY <3>2, <3>3, <3>5
      <4> QED BY <4>1, <4>2, <4>3
    <3>6. stack'[k].obj = Cur /\ stack'[k].tag = stack[k].tag
      BY ONLY <1>2, <2>3, <2>5
    <3> QED BY ONLY <3>1, <3>5, <3>6 DEF Simple, HasSpecial
  <2> QED BY <2>4, <2>5
<1>7. ASSUME NEW tag, Element(tag) PROVE Simple(k)'
  <2>1. /\ Len(stack') = Len(stack) + 1 /\ \A i \in Depth : stack'[i] = stack[i]
        /\ stack'[Len(stack) + 1].obj = Len(heap) + 1
        /\ heap'[Len(heap) + 1] = New(KidClass(tag))
        /\ KidClass(tag) \in DOMAIN Row
        /\ \A i \in Ids : heap'[i] = heap[i]
    BY <1>7, ElementIs
  <2>2. CASE k \in Depth
    <3>1. stack[k].obj \in Ids
      BY <1>1, <2>2 DEF Stacked
    <3> QED BY <1>3, <2>1, <2>2, <3>1
  <2>3. CASE k = Len(stack) + 1
    <3>1. heap'[stack'[k].obj].value = <<>>
      BY <2>1, <2>3, NewIs
    <3> QED BY ONLY <3>1 DEF Simple, HasSpecial
  <2>4. k \in Depth \/ k = Len(stack) + 1
    BY ONLY <1>2, <2>1, k \in Depth' DEF Depth
  <2> QED BY <2>2, <2>3, <2>4
<1>8. CASE EndElement
  <2>1. PICK n, into, tag, kid :
          /\ n = Len(stack) /\ into = stack[n - 1].obj
          /\ tag = stack[n].tag /\ kid = stack[n].obj
    OBVIOUS
  <2>2. /\ n \in Nat /\ n > 1 /\ Len(stack') = n - 1 /\ \A i \in 1 .. n - 1 : stack'[i] = stack[i]
        /\ heap[into] \in Objs /\ tag \in DOMAIN Row[heap[into].cls].kids
        /\ Alone(into) /\ heap'[into] = Keeps(heap[into], tag, kid) /\ kid \in Ids
    BY <1>8, <2>1, EndElementIs
  <2>3. heap'[into].cls = heap[into].cls /\ heap'[into].value = heap[into].value
    <3>1. kid \in Nat
      BY ONLY <2>2 DEF Ids
    <3>2. /\ Keeps(heap[into], tag, kid).cls = heap[into].cls
          /\ Keeps(heap[into], tag, kid).value = heap[into].value
      BY <2>2, <3>1, KeepsIs, ZenonT(60)
    <3> QED BY ONLY <2>2, <3>2
  <2>4. k \in Depth /\ stack'[k] = stack[k]
    BY ONLY <2>1, <2>2, k \in Depth' DEF Depth
  <2>5. PICK id : id = stack[k].obj
    OBVIOUS
  <2>6. id \in Ids
    BY <1>1, <2>4, <2>5 DEF Stacked
  <2>7. heap'[id].cls = heap[id].cls /\ heap'[id].value = heap[id].value
    BY ONLY <2>2, <2>3, <2>6 DEF Alone
  <2> QED BY <1>3, <2>4, <2>5, <2>7
<1>9. CASE Export
  BY <1>9, ExportIs
<1>10. CASE Unknown \/ EndDocument \/ Malformed \/ UNCHANGED vars
  <2>1. heap' = heap /\ stack' = stack
    BY <1>10 DEF Unknown, EndDocument, Malformed, vars
  <2> QED BY <1>4, <2>1
<1> QED BY <1>5, <1>6, <1>7, <1>8, <1>9, <1>10 DEF Next

(* What is not quoted, and is left to write.                               *)
LEMMA RawStays ==
  ASSUME Specials, [Next]_vars, NEW k \in DOMAIN writing', NEW j \in DOMAIN writing,
         writing'[k].raw = writing[j].raw,
         HasSpecial(writing'[k].left.value) => HasSpecial(writing[j].left.value)
  PROVE  Raw(k)'
<1>1. Raw(j) /\ (Spoilt => Spoilt')
  BY SpecialGrows DEF Specials
<1>2. Raw(j) => (writing[j].raw /\ HasSpecial(writing[j].left.value) => Spoilt)
  BY DEF Raw
<1>3. (writing'[k].raw /\ HasSpecial(writing'[k].left.value) => Spoilt') => Raw(k)'
  BY DEF Raw
<1> QED BY ONLY <1>1, <1>2, <1>3, writing'[k].raw = writing[j].raw,
             HasSpecial(writing'[k].left.value) => HasSpecial(writing[j].left.value)

LEMMA RawLeaving ==
  ASSUME Inv, Specials, [Next]_vars, phase = "rereading", NEW L, Leaving(L),
         HasSpecial(L.value) => HasSpecial(Left.value), NEW k \in DOMAIN writing'
  PROVE  Raw(k)'
<1>1. PICK n : n = Len(writing)
  OBVIOUS
<1>2. /\ n \in Nat /\ n > 0 /\ Left = writing[n].left
      /\ DOMAIN writing = 1 .. n
  <2>1. n > 0 /\ writing \in Seq(Writes) /\ Last(writing) = writing[n]
    BY <1>1, Lefts
  <2> QED BY ONLY <1>1, <2>1 DEF Left
<1>3. writing' \in Seq(Writes) /\ Len(writing') = n
  BY ONLY <1>1, Leaving(L) DEF Leaving
<1>4. k \in 1 .. n
  BY ONLY <1>3
<1>5. /\ writing'[k].raw = writing[k].raw
      /\ k # n => writing'[k] = writing[k]
      /\ writing'[n].left = L
  BY ONLY <1>1, <1>4, Leaving(L) DEF Leaving
<1>6. HasSpecial(writing'[k].left.value) => HasSpecial(writing[k].left.value)
  BY ONLY <1>2, <1>5, HasSpecial(L.value) => HasSpecial(Left.value)
<1> QED BY <1>2, <1>4, <1>5, <1>6, RawStays

LEMMA RawElement ==
  ASSUME Inv, Specials, [Next]_vars, phase = "rereading", NEW tag, Element(tag),
         NEW k \in DOMAIN writing'
  PROVE  Raw(k)'
<1>1. PICK n : n = Len(stack)
  OBVIOUS
<1>2. /\ tag \in DOMAIN Row[Top.cls].kids /\ WritesElement(tag) /\ Types /\ Stacked
      /\ Len(writing) = n /\ n \in Nat /\ n > 0 /\ Left = writing[n].left
      /\ writing \in Seq(Writes) /\ WritingOf(n)
  BY <1>1, ElementIs, Lefts, Tops DEF Inv
<1>3. ASSUME NEW L, NEW e, Pushes(L, e), L.value = Left.value,
             e.raw /\ HasSpecial(e.left.value) => Spoilt
      PROVE  Raw(k)'
  <2>1. writing' \in Seq(Writes) /\ Len(writing') = n + 1
    BY ONLY <1>2, <1>3 DEF Pushes
  <2>2. k \in 1 .. n \/ k = n + 1
    BY ONLY <1>2, <2>1
  <2>3. CASE k \in 1 .. n
    <3>1. /\ writing'[k].raw = writing[k].raw
          /\ k # n => writing'[k] = writing[k]
          /\ writing'[n].left = L
      BY ONLY <1>2, <1>3, <2>3 DEF Pushes
    <3>2. HasSpecial(writing'[k].left.value) => HasSpecial(writing[k].left.value)
      BY ONLY <1>2, <1>3, <3>1
    <3>3. k \in DOMAIN writing
      BY ONLY <1>2, <2>3
    <3> QED BY <3>1, <3>2, <3>3, RawStays
  <2>4. CASE k = n + 1
    <3>1. writing'[k] = e
      BY ONLY <1>2, <1>3, <2>4 DEF Pushes
    <3>2. Spoilt => Spoilt'
      BY SpecialGrows
    <3> QED BY ONLY <1>3, <3>1, <3>2 DEF Raw
  <2> QED BY <2>2, <2>3, <2>4
<1>4. CASE WritesField(tag)
  <2>1. PICK kid : kid = KidsOf(heap[writing[n].of], tag)[Len(Top.fields[tag]) + 1]
    OBVIOUS
  <2>2. \E L \in Objs, e \in Writes : FieldPush(tag, kid, L, e)
    BY <1>1, <1>2, <1>4, <2>1, FieldPushed
  <2>3. PICK L \in Objs, e \in Writes : FieldPush(tag, kid, L, e)
    BY <2>2
  <2>4. ~e.raw
    BY ONLY <2>3 DEF FieldPush, AsString, Exported
  <2>5. Pushes(L, e) /\ L.value = Left.value
    BY ONLY <2>3 DEF FieldPush
  <2> QED BY <1>3, <2>4, <2>5
<1>5. CASE WritesItem(tag)
  <2>1. PICK of, at, kid : /\ of = writing[n].of /\ at = Len(Top.content) + 1
                           /\ kid = heap[of].content[at].obj
    OBVIOUS
  <2>2. \E L \in Objs, e \in Writes : ItemPush(tag, kid, L, e)
    BY <1>1, <1>2, <1>5, <2>1, ItemPushed
  <2>3. PICK L \in Objs, e \in Writes : ItemPush(tag, kid, L, e)
    BY <2>2
  <2>4. Pushes(L, e) /\ L.value = Left.value /\ e = Exported(kid, heap[kid].cls = "Text")
        /\ kid \in Ids
    BY ONLY <2>3 DEF ItemPush
  <2>5. /\ Row[Top.cls].text = "content" /\ at \in DOMAIN heap[of].content
        /\ heap[of].content[at].tag = tag
    BY ONLY <1>1, <1>5, <2>1 DEF WritesItem
  <2>6. of \in Ids /\ of < Base /\ heap[of].cls = Top.cls
    BY <1>1, <1>2, <2>1, WritesElementIs
  <2>7. ASSUME e.raw, HasSpecial(e.left.value) PROVE Spoilt
    <3>1. heap[kid].cls = "Text" /\ e.left = Written(heap[kid])
      BY ONLY <2>4, <2>7 DEF Exported
    <3>2. e.left.value = heap[kid].value
      BY <1>2, <2>4, <3>1, Tops, WrittenIs
    <3>3. Unquoted(of)
      BY <2>6 DEF Specials
    <3>4. tag # NoTag
      <4>1. Top.cls \in DOMAIN Row
        BY <1>2, Tops
      <4> QED BY <1>2, <4>1, TextKinds
    <3>5. Sees(heap[of].content[at])
      BY ONLY <2>1, <2>5, <2>7, <3>1, <3>2, <3>4 DEF Sees
    <3> QED BY ONLY <2>5, <2>6, <3>3, <3>5 DEF Unquoted
  <2> QED BY <1>3, <2>4, <2>7
<1> QED BY <1>1, <1>2, <1>4, <1>5, WritesElementIs

LEMMA RawStep ==
  ASSUME Inv, Specials, [Next]_vars, NEW k \in DOMAIN writing'
  PROVE  Raw(k)'
<1>1. ASSUME writing' = writing PROVE Raw(k)'
  BY <1>1, RawStays
<1>2. ASSUME NEW a \in Class.attrs, Attribute(a) PROVE Raw(k)'
  <2>1. PICK o, L : /\ o = [Top EXCEPT !.attrs = Top.attrs \cup {a}]
                    /\ L = [Left EXCEPT !.attrs = Left.attrs \ {a}]
    OBVIOUS
  <2>2. /\ phase \in {"reading", "rereading"} /\ Becomes(o, L)
        /\ phase = "rereading" => L.value = Left.value
    BY <1>2, <2>1, AttributeIs, Zenon
  <2>3. CASE phase = "reading"
    BY <1>1, <2>2, <2>3 DEF Becomes
  <2>4. CASE phase = "rereading"
    <3>1. Leaving(L) /\ L.value = Left.value
      BY ONLY <2>2, <2>4 DEF Becomes
    <3> QED BY <2>4, <3>1, RawLeaving
  <2> QED BY <2>2, <2>3, <2>4
<1>3. ASSUME NEW p \in Piece, Text(p) PROVE Raw(k)'
  <2>1. PICK o, L :
          /\ o = Takes(Top, p)
          /\ L = [Left EXCEPT
                    !.value = IF Left.value = <<>> THEN Left.value ELSE Tail(Left.value),
                    !.content = IF Left.content = <<>> THEN Left.content
                                ELSE Tail(Left.content)]
    OBVIOUS
  <2>2. /\ phase \in {"reading", "rereading"} /\ Becomes(o, L)
        /\ phase = "rereading" =>
             L.value = IF Left.value = <<>> THEN Left.value ELSE Tail(Left.value)
    BY <1>3, <2>1, TextIs, Zenon
  <2>3. CASE phase = "reading"
    BY <1>1, <2>2, <2>3 DEF Becomes
  <2>4. CASE phase = "rereading"
    <3>1. /\ Leaving(L)
          /\ L.value = IF Left.value = <<>> THEN Left.value ELSE Tail(Left.value)
      BY ONLY <2>2, <2>4 DEF Becomes
    <3>2. Left.value \in Seq(Pieces)
      BY <2>4, Lefts, Parts
    <3>3. HasSpecial(L.value) => HasSpecial(Left.value)
      <4>1. CASE Left.value = <<>>
        BY ONLY <3>1, <4>1
      <4>2. CASE Left.value # <<>>
        <5>1. PICK v, t : v = Left.value /\ t = Tail(v)
          OBVIOUS
        <5>2. Len(v) = Len(t) + 1 /\ \A i \in 1 .. Len(t) : t[i] = v[i + 1]
          BY ONLY <3>2, <4>2, <5>1, Headed
        <5>3. v \in Seq(Pieces) /\ t \in Seq(Pieces)
          BY ONLY <3>2, <4>2, <5>1, Headed
        <5>4. \A i \in DOMAIN t : i + 1 \in DOMAIN v /\ t[i] = v[i + 1]
          BY ONLY <5>2, <5>3
        <5>5. HasSpecial(t) => HasSpecial(v)
          BY ONLY <5>4 DEF HasSpecial
        <5> QED BY ONLY <3>1, <4>2, <5>1, <5>5
      <4> QED BY <4>1, <4>2
    <3> QED BY <2>4, <3>1, <3>3, RawLeaving
  <2> QED BY <2>2, <2>3, <2>4
<1>4. ASSUME NEW tag, Element(tag) PROVE Raw(k)'
  <2>1. phase \in {"reading", "rereading"} /\ (phase = "reading" => writing' = writing)
    BY <1>4, ElementIs
  <2>2. CASE phase = "reading"
    BY <1>1, <2>1, <2>2
  <2>3. CASE phase = "rereading"
    BY <1>4, <2>3, RawElement
  <2> QED BY <2>1, <2>2, <2>3
<1>5. CASE EndElement
  <2>1. PICK n : n = Len(stack)
    OBVIOUS
  <2>2. /\ phase \in {"reading", "rereading"} /\ (phase = "reading" => writing' = writing)
        /\ n \in Nat
        /\ phase = "rereading" => /\ writing' \in Seq(Writes) /\ Len(writing') = n - 1
                                  /\ \A i \in 1 .. n - 1 : writing'[i] = writing[i]
    BY <1>5, <2>1, EndElementIs
  <2>3. CASE phase = "reading"
    BY <1>1, <2>2, <2>3
  <2>4. CASE phase = "rereading"
    <3>1. Len(writing) = n /\ writing \in Seq(Writes)
      BY <2>1, <2>4, Lefts
    <3>2. k \in DOMAIN writing /\ writing'[k] = writing[k]
      BY ONLY <2>2, <2>4, <3>1, k \in DOMAIN writing'
    <3> QED BY <3>2, RawStays
  <2> QED BY <2>2, <2>3, <2>4
<1>6. CASE Export
  <2>1. /\ writing' \in Seq(Writes) /\ Len(writing') = 1
        /\ writing'[1] = Exported(1, FALSE)
    BY <1>6, ExportIs
  <2>2. k = 1
    BY ONLY <2>1, k \in DOMAIN writing'
  <2>3. ~writing'[k].raw
    BY ONLY <2>1, <2>2 DEF Exported
  <2> QED BY ONLY <2>3 DEF Raw
<1>7. CASE Unknown \/ EndDocument \/ Malformed \/ UNCHANGED vars
  <2>1. writing' = writing
    BY <1>7 DEF Unknown, EndDocument, Malformed, vars, Node
  <2> QED BY <1>1, <2>1
<1> QED BY <1>2, <1>3, <1>4, <1>5, <1>6, <1>7 DEF Next

LEMMA SpecialsStep ==
  ASSUME Inv, Specials, [Next]_vars
  PROVE  Specials'
<1>1. \A id \in Ids' : id < Base' => Unquoted(id)'
  BY UnquotedStep
<1>2. ~Again' => \A k \in Depth' : Simple(k)'
  BY SimpleStep
<1>3. \A k \in DOMAIN writing' : Raw(k)'
  BY RawStep
<1> QED BY ONLY <1>1, <1>2, <1>3 DEF Specials

LEMMA InitSpecials == Init => Specials
<1> SUFFICES ASSUME Init PROVE Specials
  OBVIOUS
<1>1. PICK cls \in DOMAIN Row \ {"Text"} :
        heap = <<New(cls)>> /\ stack = <<Begun(NoTag, 1, PlaceOf(cls))>>
  BY Zenon DEF Init
<1>2. PICK new : new = New(cls) /\ new.content = <<>> /\ new.value = <<>>
  BY <1>1, NewIs
<1>3. heap = <<new>> /\ heap[1] = new /\ Ids = {1}
  BY ONLY <1>1, <1>2 DEF Ids
<1>4. \A id \in Ids : Unquoted(id)
  BY ONLY <1>2, <1>3 DEF Unquoted
<1>5. stack[1].obj = 1 /\ Depth = {1}
  BY ONLY <1>1 DEF Depth, Begun
<1>6. \A k \in Depth : Simple(k)
  BY ONLY <1>2, <1>3, <1>5 DEF Simple, HasSpecial
<1>7. writing = <<>>
  BY DEF Init
<1>8. \A k \in DOMAIN writing : Raw(k)
  BY ONLY <1>7
<1> QED BY ONLY <1>4, <1>6, <1>8 DEF Specials

(* Where writing comes to what it does not quote, special text was read.   *)
LEMMA Spoiling ==
  ASSUME Inv, Specials, phase = "rereading", NEW p \in NextText, Spoils(p)
  PROVE  Spoilt
<1>1. PICK n, of, l, c : /\ n = Len(stack) /\ of = writing[n].of
                         /\ l = Left /\ c = Top
  OBVIOUS
<1>2. /\ Types /\ Stacked /\ Again /\ n \in Nat /\ n \in Depth
      /\ l \in Objs /\ writing \in Seq(Writes) /\ Len(writing) = n
      /\ l = writing[n].left /\ l.cls = c.cls /\ WritingOf(n) /\ c = heap[stack[n].obj]
      /\ Last(writing) = writing[n] /\ c.cls \in DOMAIN Row /\ n > 0
      /\ c \in Objs
  <2>1. Types /\ Stacked /\ Again
    BY DEF Inv, Again
  <2> QED BY <1>1, <2>1, Lefts, Tops
<1>3. /\ p.kind = "special" /\ (l.content # <<>> \/ writing[n].raw)
      /\ \/ l.value # <<>> /\ p = Head(l.value)
         \/ l.content # <<>> /\ Head(l.content).tag = NoTag /\ p = Head(l.content).text
  BY <1>1, <1>2 DEF Spoils, NextText
<1>4. l.content \in Seq(Items) /\ l.value \in Seq(Pieces) /\ c.content \in Seq(Items)
  BY <1>2, Parts
<1>5. CASE l.content # <<>>
  <2>1. Row[c.cls].text = "content"
    <3>1. Row[c.cls].text \in {"value", "both"} => l.content = <<>>
      BY ONLY <1>1, <1>2 DEF WritingOf, OfValue
    <3>2. Row[c.cls].text = "none" => l.content = <<>>
      BY ONLY <1>1, <1>2 DEF WritingOf
    <3> QED BY <1>2, <1>5, <3>1, <3>2, TextKinds
  <2>2. of \in Ids /\ of < Base /\ heap[of].cls = c.cls /\ BuiltTexts(heap[of])
        /\ OfContent(n) /\ FromOne(of)
    <3>1. OfSource(n) /\ of < Base /\ OfContent(n)
      BY ONLY <1>1, <1>2, <2>1 DEF WritingOf
    <3>2. FromOne(of)
      <4>1. ~FromOne(of) => c.cls = "docTitleType"
        BY ONLY <1>1, <1>2, <3>1 DEF OfSource
      <4> QED BY <2>1, <4>1, NamesAssumption
    <3>3. heap[of].cls = c.cls
      BY ONLY <1>1, <1>2, <3>1, <3>2 DEF OfSource
    <3>4. of \in Int
      <4>1. writing[n] \in Writes
        BY ONLY <1>2
      <4> QED BY ONLY <1>1, <4>1 DEF Writes
    <3>5. of \in Ids
      <4>1. Base \in 1 .. Len(heap) + 1 /\ Len(heap) \in Nat
        BY <1>2, BaseIs, Tops
      <4> QED BY ONLY <3>1, <3>2, <3>4, <4>1 DEF Ids, None, FromOne
    <3> QED BY <3>1, <3>2, <3>3, <3>5 DEF Inv, Built
  <2>3. l.value = <<>>
    <3>1. c.value \o l.value = heap[of].value
      BY ONLY <1>1, <1>2, <2>2 DEF OfContent, WritingOf, OfSource
    <3>2. heap[of].value = <<>>
      BY ONLY <2>1, <2>2 DEF BuiltTexts
    <3>3. c.value \in Seq(Pieces)
      BY <1>2, Parts
    <3> QED BY ONLY <1>4, <3>1, <3>2, <3>3
  <2>4. Head(l.content).tag = NoTag /\ p = Head(l.content).text
    BY ONLY <1>3, <2>3
  <2>5. PICK at : at = Len(c.content) + 1
    OBVIOUS
  <2>6. PICK o : o = heap[of].content
    OBVIOUS
  <2>7. Head(l.content) = o[at] /\ at \in DOMAIN o
    <3>1. /\ Len(o) = Len(c.content) + Below(n) + Len(l.content)
          /\ \A j \in DOMAIN l.content : l.content[j] = o[Len(c.content) + Below(n) + j]
      BY ONLY <1>1, <1>2, <2>2, <2>6 DEF OfContent
    <3>2. Below(n) = 0
      BY ONLY <1>1, <1>2 DEF Below
    <3>3. 1 \in DOMAIN l.content /\ Head(l.content) = l.content[1] /\ Len(l.content) > 0
          /\ Len(l.content) \in Nat /\ Len(c.content) \in Nat
      BY ONLY <1>4, <1>5
    <3>4. o \in Seq(Items)
      BY <1>2, <2>2, <2>6, Tops, Parts
    <3>5. PICK a, b : a = Len(c.content) /\ b = Len(l.content)
      OBVIOUS
    <3>6. Len(o) = a + b /\ Len(c.content) + Below(n) + 1 = a + 1 /\ at = a + 1
          /\ a \in Nat /\ b \in Nat /\ b > 0
      BY ONLY <2>5, <3>1, <3>2, <3>3, <3>5
    <3>7. Head(l.content) = o[at]
      BY ONLY <3>1, <3>3, <3>6
    <3>8. at \in 1 .. Len(o)
      BY ONLY <3>6
    <3> QED BY ONLY <3>4, <3>7, <3>8
  <2>8. Unquoted(of)
    BY <2>2 DEF Specials
  <2>9. Sees(heap[of].content[at])
    BY ONLY <1>3, <2>4, <2>6, <2>7 DEF Sees
  <2> QED BY ONLY <2>1, <2>2, <2>6, <2>7, <2>8, <2>9 DEF Unquoted
<1>6. CASE l.content = <<>>
  <2>1. writing[n].raw /\ l.value # <<>> /\ p = Head(l.value)
    BY ONLY <1>3, <1>6
  <2>2. HasSpecial(l.value)
    <3>1. 1 \in DOMAIN l.value /\ Head(l.value) = l.value[1]
      BY ONLY <1>4, <2>1
    <3> QED BY ONLY <1>3, <2>1, <3>1 DEF HasSpecial
  <2>3. n \in DOMAIN writing
    BY ONLY <1>2
  <2>4. Raw(n)
    BY <2>3 DEF Specials
  <2> QED BY ONLY <1>1, <1>2, <2>1, <2>2, <2>4 DEF Raw
<1> QED BY <1>5, <1>6

SpoiltWhenStopped == phase = "malformed" => Spoilt

LEMMA StopsStep ==
  ASSUME Inv, Specials, SpoiltWhenStopped, [Next]_vars
  PROVE  SpoiltWhenStopped'
<1>1. CASE Malformed
  <2>1. phase = "rereading" /\ special' = special /\ \E p \in NextText : Spoils(p)
    BY <1>1 DEF Malformed
  <2>2. Spoilt
    BY <2>1, Spoiling
  <2> QED BY ONLY <2>1, <2>2 DEF SpoiltWhenStopped, Spoilt
<1>2. CASE ~Malformed
  <2>1. phase' = "malformed" => phase = "malformed"
    <3>1. ASSUME NEW a, Attribute(a) PROVE phase' = phase
      BY <3>1 DEF Attribute
    <3>2. ASSUME NEW tag, Element(tag) PROVE phase' = phase
      BY <3>2 DEF Element
    <3>3. ASSUME NEW p, Text(p) PROVE phase' = phase
      BY <3>3 DEF Text
    <3>4. Unknown \/ EndElement \/ UNCHANGED vars => phase' = phase
      BY DEF Unknown, EndElement, vars
    <3>5. EndDocument \/ Export => phase' # "malformed"
      BY DEF EndDocument, Export
    <3> QED BY <1>2, <3>1, <3>2, <3>3, <3>4, <3>5 DEF Next
  <2>2. Spoilt => Spoilt'
    BY SpecialGrows
  <2> QED BY ONLY <2>1, <2>2, SpoiltWhenStopped DEF SpoiltWhenStopped
<1> QED BY <1>1, <1>2

(* What was written cannot be read again only where special text was read  *)
(* in text between elements, or in a simple element that stands in such    *)
(* text: all other text export quotes, and what build makes of a document  *)
(* holds special text nowhere else.                                        *)
THEOREM SpoiltByContent == Spec => []SpoiltOnlyBy
<1>1. Init => Inv /\ Specials /\ SpoiltWhenStopped
  <2>1. Init => SpoiltWhenStopped
    BY DEF Init, SpoiltWhenStopped
  <2> QED BY <2>1, InitInv, InitSpecials
<1>2. Inv /\ Specials /\ SpoiltWhenStopped /\ [Next]_vars
        => Inv' /\ Specials' /\ SpoiltWhenStopped'
  BY InvStep, SpecialsStep, StopsStep
<1>3. SpoiltWhenStopped => SpoiltOnlyBy
  BY Zenon DEF SpoiltWhenStopped, SpoiltOnlyBy, Spoilt
<1> QED BY <1>1, <1>2, <1>3, PTL DEF Spec


-----------------------------------------------------------------------------
(* The text of a description.                                              *)

(* The joined parts of f(1) .. f(n).                                       *)
LEMMA FlatTo ==
  ASSUME NEW S, NEW n \in Nat, NEW f, \A k \in 1 .. n + 1 : f[k] \in Seq(S)
  PROVE  /\ FlattenSeq([k \in 1 .. n |-> f[k]]) \in Seq(S)
         /\ FlattenSeq([k \in 1 .. n + 1 |-> f[k]])
              = FlattenSeq([k \in 1 .. n |-> f[k]]) \o f[n + 1]
<1> DEFINE s == [k \in 1 .. n |-> f[k]]
           t == [k \in 1 .. n + 1 |-> f[k]]
           a == Append(s, f[n + 1])
<1>1. /\ \A k \in 1 .. n : k \in 1 .. n + 1
      /\ n + 1 \in 1 .. n + 1
      /\ \A k \in 1 .. n + 1 : k \in 1 .. n \/ k = n + 1
  OBVIOUS
<1>2. \A k \in 1 .. n : f[k] \in Seq(S)
  BY <1>1
<1>3. s \in Seq(Seq(S)) /\ Len(s) = n /\ \A k \in 1 .. n : s[k] = f[k]
  BY ONLY <1>2, n \in Nat
<1>4. f[n + 1] \in Seq(S)
  BY <1>1
<1>5. t = a
  <2> HIDE DEF s
  <2>1. /\ a \in Seq(Seq(S)) /\ Len(a) = n + 1
        /\ \A k \in 1 .. n : a[k] = s[k]
        /\ a[n + 1] = f[n + 1]
    BY ONLY <1>3, <1>4, Appended DEF a
  <2> HIDE DEF a
  <2>2. a = [k \in 1 .. n + 1 |-> a[k]]
    BY ONLY <2>1, n \in Nat
  <2>3. \A k \in 1 .. n + 1 : a[k] = f[k]
    BY ONLY <1>1, <1>3, <2>1
  <2> QED BY ONLY <2>2, <2>3 DEF t
<1> HIDE DEF s, t
<1>6. FlattenSeq(s) \in Seq(S) /\ FlattenSeq(a) = FlattenSeq(s) \o f[n + 1]
  BY ONLY <1>3, <1>4, FlatMore DEF a
<1> HIDE DEF a
<1> QED BY ONLY <1>5, <1>6 DEF s, t

(* The bits of a content_, of which b gives the objects', and what they    *)
(* are together.                                                           *)
Knows(content, b) ==
  \A k \in DOMAIN content : content[k].tag # NoTag => b[content[k].obj] \in Seq(Pieces)
BitsOf(content, b) == [k \in DOMAIN content |-> Bit(content[k], b)]
FlatOf(content, b) == FlattenSeq(BitsOf(content, b))

LEMMA BitIs ==
  ASSUME NEW item \in Items, NEW b, item.tag # NoTag => b[item.obj] \in Seq(Pieces)
  PROVE  Bit(item, b) \in Seq(Pieces)
<1>1. CASE item.tag = NoTag
  <2>1. item.text \in Pieces
    BY DEF Items
  <2> QED BY <1>1, <2>1 DEF Bit
<1>2. CASE item.tag # NoTag
  <2>1. Break \in Pieces
    BY DEF Break, Pieces, Kinds
  <2>2. (IF item.tag = "para" THEN <<Break>> ELSE <<>>) \in Seq(Pieces)
    BY ONLY <2>1
  <2>3. Bit(item, b) = b[item.obj] \o (IF item.tag = "para" THEN <<Break>> ELSE <<>>)
    BY <1>2 DEF Bit
  <2> QED BY <1>2, <2>2, <2>3
<1> QED BY <1>1, <1>2

LEMMA BitsOfIs ==
  ASSUME NEW content \in Seq(Items), NEW b, Knows(content, b)
  PROVE  BitsOf(content, b) \in Seq(Seq(Pieces)) /\ Len(BitsOf(content, b)) = Len(content)
<1>1. ASSUME NEW k \in DOMAIN content PROVE Bit(content[k], b) \in Seq(Pieces)
  BY BitIs DEF Knows
<1>2. Len(content) \in Nat /\ DOMAIN content = 1 .. Len(content)
  OBVIOUS
<1> QED BY ONLY <1>1, <1>2 DEF BitsOf

LEMMA FlatOfSame ==
  ASSUME NEW content, NEW b, NEW c,
         \A k \in DOMAIN content :
           content[k].tag # NoTag => b[content[k].obj] = c[content[k].obj]
  PROVE  FlatOf(content, b) = FlatOf(content, c)
<1>1. \A k \in DOMAIN content : Bit(content[k], b) = Bit(content[k], c)
  BY DEF Bit
<1>2. BitsOf(content, b) = BitsOf(content, c)
  BY ONLY <1>1 DEF BitsOf
<1> QED BY ONLY <1>2 DEF FlatOf

LEMMA FlatOfMore ==
  ASSUME NEW content \in Seq(Items), NEW b, Knows(content, b), NEW item \in Items,
         Bit(item, b) \in Seq(Pieces)
  PROVE  /\ FlatOf(content, b) \in Seq(Pieces)
         /\ FlatOf(Append(content, item), b) = FlatOf(content, b) \o Bit(item, b)
<1> DEFINE s == BitsOf(content, b)
           v == Append(content, item)
           x == Bit(item, b)
           a == Append(s, x)
<1>1. s \in Seq(Seq(Pieces)) /\ Len(s) = Len(content) /\ x \in Seq(Pieces)
  BY BitsOfIs
<1>2. /\ v \in Seq(Items) /\ Len(v) = Len(content) + 1
      /\ \A k \in 1 .. Len(content) : v[k] = content[k]
      /\ v[Len(content) + 1] = item
  BY Appended
<1>3. Len(content) \in Nat /\ DOMAIN content = 1 .. Len(content)
      /\ DOMAIN v = 1 .. Len(content) + 1
  <2>1. Len(content) \in Nat /\ DOMAIN content = 1 .. Len(content)
    OBVIOUS
  <2> HIDE DEF v
  <2> QED BY ONLY <1>2, <2>1
<1>4. \A k \in 1 .. Len(content) : s[k] = Bit(content[k], b)
  BY ONLY <1>3 DEF BitsOf, s
<1> HIDE DEF s, v, x
<1>5. /\ a \in Seq(Seq(Pieces)) /\ Len(a) = Len(content) + 1
      /\ \A k \in 1 .. Len(content) : a[k] = s[k]
      /\ a[Len(content) + 1] = x
  BY ONLY <1>1, Appended DEF a
<1>6. FlattenSeq(s) \in Seq(Pieces) /\ FlattenSeq(a) = FlattenSeq(s) \o x
  BY ONLY <1>1, FlatMore DEF a
<1> HIDE DEF a
<1>7. a = [k \in 1 .. Len(content) + 1 |-> a[k]]
  BY ONLY <1>3, <1>5
<1>8. \A k \in 1 .. Len(content) + 1 : a[k] = Bit(v[k], b)
  <2>1. ASSUME NEW k \in 1 .. Len(content) + 1 PROVE a[k] = Bit(v[k], b)
    <3>1. k \in 1 .. Len(content) \/ k = Len(content) + 1
      BY ONLY <1>3, <2>1
    <3>2. CASE k \in 1 .. Len(content)
      BY ONLY <1>2, <1>4, <1>5, <3>2
    <3>3. CASE k = Len(content) + 1
      <4>1. a[k] = x /\ v[k] = item
        BY ONLY <1>2, <1>5, <3>3
      <4> QED BY ONLY <4>1 DEF x
    <3> QED BY <3>1, <3>2, <3>3
  <2> QED BY <2>1
<1>9. a = BitsOf(v, b)
  BY ONLY <1>3, <1>7, <1>8 DEF BitsOf
<1> QED BY ONLY <1>6, <1>9 DEF FlatOf, s, v, x

(* What text.py makes of each object, and the text that has been shown:    *)
(* that of the objects that are open and stand where the schema has text.  *)
Bits(b) ==
  /\ DOMAIN b = Ids
  /\ \A id \in Ids : b[id] \in Seq(Pieces) /\ b[id] = FlatOf(heap[id].content, b)
ShownTo(st, b, d) == FlattenSeq([k \in 1 .. d |-> b[st[k].obj]])
Shows(b, d) ==
  /\ d \in 0 .. Len(stack)
  /\ \A k \in Depth : stack[k].place # Outside <=> k <= d
  /\ shown = ShownTo(stack, b, d)
RootPlace == stack[1].place = PlaceOf(heap[stack[1].obj].cls)
Outputs == ~Again => RootPlace /\ \E b, d : Bits(b) /\ Shows(b, d)

LEMMA ShownToMore ==
  ASSUME NEW st, NEW b, NEW d \in Nat, \A k \in 1 .. d + 1 : b[st[k].obj] \in Seq(Pieces)
  PROVE  /\ ShownTo(st, b, d) \in Seq(Pieces)
         /\ ShownTo(st, b, d + 1) = ShownTo(st, b, d) \o b[st[d + 1].obj]
<1>1. PICK f : f = [k \in 1 .. d + 1 |-> b[st[k].obj]]
  OBVIOUS
<1>2. /\ \A k \in 1 .. d + 1 : f[k] = b[st[k].obj]
      /\ d + 1 \in 1 .. d + 1 /\ \A k \in 1 .. d : k \in 1 .. d + 1
  BY ONLY <1>1, d \in Nat
<1>3. \A k \in 1 .. d + 1 : f[k] \in Seq(Pieces)
  BY <1>2
<1>4. /\ FlattenSeq([k \in 1 .. d |-> f[k]]) \in Seq(Pieces)
      /\ FlattenSeq([k \in 1 .. d + 1 |-> f[k]])
           = FlattenSeq([k \in 1 .. d |-> f[k]]) \o f[d + 1]
  BY ONLY <1>3, d \in Nat, FlatTo
<1>5. /\ [k \in 1 .. d |-> f[k]] = [k \in 1 .. d |-> b[st[k].obj]]
      /\ [k \in 1 .. d + 1 |-> f[k]] = [k \in 1 .. d + 1 |-> b[st[k].obj]]
  BY ONLY <1>2
<1> QED BY ONLY <1>2, <1>4, <1>5 DEF ShownTo

LEMMA ShownToSame ==
  ASSUME NEW st, NEW s2, NEW b, NEW c, NEW d,
         \A k \in 1 .. d : b[st[k].obj] = c[s2[k].obj]
  PROVE  ShownTo(st, b, d) = ShownTo(s2, c, d)
<1>1. [k \in 1 .. d |-> b[st[k].obj]] = [k \in 1 .. d |-> c[s2[k].obj]]
  OBVIOUS
<1> QED BY <1>1 DEF ShownTo


(* An object's content_ has closed objects made after it.                  *)
LEMMA Held1 ==
  ASSUME Inv, NEW id \in Ids, NEW k \in DOMAIN heap[id].content,
         heap[id].content[k].tag # NoTag
  PROVE  LET kid == heap[id].content[k].obj IN kid \in Ids /\ id < kid /\ ~Open(kid)
<1>1. BuiltContent(id)
  BY DEF Inv, Built
<1>2. IsKid(id, heap[id].content[k].tag, heap[id].content[k].obj)
  BY ONLY <1>1, k \in DOMAIN heap[id].content, heap[id].content[k].tag # NoTag
     DEF BuiltContent
<1> QED BY ONLY <1>2 DEF IsKid

LEMMA Known ==
  ASSUME Inv, NEW b, Bits(b), NEW id \in Ids
  PROVE  Knows(heap[id].content, b) /\ heap[id].content \in Seq(Items)
<1>1. heap[id].content \in Seq(Items)
  BY Tops, Parts DEF Inv
<1>2. \A k \in DOMAIN heap[id].content :
        heap[id].content[k].tag # NoTag => heap[id].content[k].obj \in Ids
  BY Held1
<1> QED BY ONLY <1>1, <1>2, Bits(b) DEF Bits, Knows

LEMMA BitsStay ==
  ASSUME NEW b, Bits(b), Ids' = Ids,
         \A id \in Ids : heap'[id].content = heap[id].content
  PROVE  Bits(b)'
BY DEF Bits

(* One item more in an open object's content_.                             *)
MoreBits(b, c, m, item) ==
  Bits(c)' /\ c[m] = b[m] \o Bit(item, b) /\ \A id \in Ids : id # m => c[id] = b[id]

LEMMA BitsPut ==
  ASSUME Inv, NEW b, Bits(b), NEW m \in Ids, Open(m), Alone(m), NEW item \in Items,
         heap'[m].content = Append(heap[m].content, item),
         item.tag # NoTag => item.obj \in Ids /\ m < item.obj
  PROVE  \E c : MoreBits(b, c, m, item)
<1>1. PICK c : c = [id \in Ids |-> IF id = m THEN b[m] \o Bit(item, b) ELSE b[id]]
  OBVIOUS
<1>2. /\ DOMAIN c = Ids /\ c[m] = b[m] \o Bit(item, b)
      /\ \A id \in Ids : id # m => c[id] = b[id]
  BY ONLY <1>1, m \in Ids
<1>3. Ids \subseteq Nat /\ m \in Nat
  BY ONLY m \in Ids DEF Ids
<1>4. Bit(item, b) \in Seq(Pieces) /\ b[m] \in Seq(Pieces)
  <2>1. item.tag # NoTag => b[item.obj] \in Seq(Pieces)
    BY DEF Bits
  <2> QED BY <2>1, BitIs DEF Bits
<1>5. \A id \in Ids : c[id] \in Seq(Pieces)
  <2>1. b[m] \o Bit(item, b) \in Seq(Pieces)
    BY ONLY <1>4
  <2> QED BY ONLY <1>2, <2>1, Bits(b) DEF Bits
<1>6. ASSUME NEW id \in Ids
      PROVE  \A k \in DOMAIN heap[id].content : heap[id].content[k].tag # NoTag =>
               b[heap[id].content[k].obj] = c[heap[id].content[k].obj]
  <2>1. ASSUME NEW k \in DOMAIN heap[id].content, heap[id].content[k].tag # NoTag
        PROVE  b[heap[id].content[k].obj] = c[heap[id].content[k].obj]
    <3>1. heap[id].content[k].obj \in Ids /\ ~Open(heap[id].content[k].obj)
      BY <2>1, Held1
    <3>2. heap[id].content[k].obj # m
      BY ONLY <3>1, Open(m)
    <3> QED BY ONLY <1>2, <3>1, <3>2
  <2> QED BY <2>1
<1>7. ASSUME NEW id \in Ids PROVE FlatOf(heap[id].content, b) = FlatOf(heap[id].content, c)
  BY <1>6, FlatOfSame
<1>8. ASSUME NEW id \in Ids, id # m PROVE c[id] = FlatOf(heap'[id].content, c)
  <2>1. heap'[id] = heap[id]
    BY <1>8 DEF Alone
  <2>2. c[id] = FlatOf(heap[id].content, c)
    BY <1>2, <1>7, <1>8 DEF Bits
  <2> QED BY ONLY <2>1, <2>2
<1>9. c[m] = FlatOf(heap'[m].content, c)
  <2>1. PICK content : content = heap[m].content
    OBVIOUS
  <2>2. content \in Seq(Items) /\ Knows(content, b)
    BY <2>1, Known
  <2>3. Knows(content, c)
    BY ONLY <1>6, <2>1, <2>2, m \in Ids DEF Knows
  <2>4. Bit(item, c) = Bit(item, b)
    <3>1. ASSUME item.tag # NoTag PROVE c[item.obj] = b[item.obj]
      <4>1. PICK x : x = item.obj
        OBVIOUS
      <4>2. x \in Ids /\ m < x
        BY <3>1, <4>1
      <4>3. x \in Nat
        BY ONLY <1>3, <4>2
      <4>4. x # m
        BY ONLY <1>3, <4>2, <4>3
      <4> QED BY ONLY <1>2, <4>1, <4>2, <4>4
    <3> QED BY ONLY <3>1 DEF Bit
  <2>5. FlatOf(Append(content, item), c) = FlatOf(content, c) \o Bit(item, c)
    BY ONLY <1>4, <2>2, <2>3, <2>4, item \in Items, FlatOfMore
  <2>6. FlatOf(content, c) = b[m]
    BY <1>7, <2>1 DEF Bits
  <2>7. heap'[m].content = Append(content, item)
    BY <2>1
  <2> QED BY ONLY <1>2, <2>4, <2>5, <2>6, <2>7
<1>10. Ids' = Ids
  BY DEF Alone, Ids
<1>11. Bits(c)'
  BY ONLY <1>2, <1>5, <1>8, <1>9, <1>10 DEF Bits
<1> QED BY ONLY <1>2, <1>11 DEF MoreBits

LEMMA FlatOfNone ==
  ASSUME NEW b
  PROVE  FlatOf(<<>>, b) = <<>>
<1>1. BitsOf(<<>>, b) = <<>>
  BY DEF BitsOf
<1> QED BY <1>1, FlatNone DEF FlatOf

(* One object more, which is empty.                                        *)
LEMMA BitsAdd ==
  ASSUME Inv, NEW b, Bits(b), Len(heap') = Len(heap) + 1,
         \A id \in Ids : heap'[id] = heap[id],
         heap'[Len(heap) + 1].content = <<>>
  PROVE  \E c : /\ Bits(c)' /\ c[Len(heap) + 1] = <<>>
                /\ \A id \in Ids : c[id] = b[id]
<1>1. PICK new : new = Len(heap) + 1
  OBVIOUS
<1>2. new \in Nat /\ new \notin Ids /\ Ids' = Ids \cup {new}
  <2>1. Len(heap) \in Nat
    BY DEF Inv, Types
  <2> QED BY ONLY <1>1, <2>1, Len(heap') = Len(heap) + 1 DEF Ids
<1>3. PICK c : c = [id \in Ids \cup {new} |-> IF id = new THEN <<>> ELSE b[id]]
  OBVIOUS
<1>4. /\ DOMAIN c = Ids \cup {new} /\ c[new] = <<>>
      /\ \A id \in Ids : c[id] = b[id]
  BY ONLY <1>2, <1>3
<1>5. ASSUME NEW id \in Ids PROVE c[id] = FlatOf(heap'[id].content, c)
  <2>1. \A k \in DOMAIN heap[id].content : heap[id].content[k].tag # NoTag =>
          b[heap[id].content[k].obj] = c[heap[id].content[k].obj]
    BY <1>4, Held1
  <2>2. FlatOf(heap[id].content, b) = FlatOf(heap[id].content, c)
    BY <2>1, FlatOfSame
  <2>3. heap'[id] = heap[id] /\ b[id] = FlatOf(heap[id].content, b) /\ c[id] = b[id]
    BY <1>4 DEF Bits
  <2> QED BY ONLY <2>2, <2>3
<1>6. c[new] = FlatOf(heap'[new].content, c)
  BY <1>1, <1>4, FlatOfNone
<1>7. \A id \in Ids' : c[id] \in Seq(Pieces)
  <2>1. <<>> \in Seq(Pieces)
    OBVIOUS
  <2> QED BY ONLY <1>2, <1>4, <2>1, Bits(b) DEF Bits
<1>8. Bits(c)'
  BY ONLY <1>2, <1>4, <1>5, <1>6, <1>7 DEF Bits
<1> QED BY <1>1, <1>4, <1>8

(* The root's place stays.                                                 *)
LEMMA RootPlaceStays ==
  ASSUME Inv, [Next]_vars, RootPlace, stack'[1] = stack[1]
  PROVE  RootPlace'
<1>1. stack[1].obj \in Ids
  BY Tops DEF Inv, Stacked
<1>2. heap'[stack[1].obj].cls = heap[stack[1].obj].cls
  BY <1>1, Later
<1> QED BY ONLY <1>2, RootPlace, stack'[1] = stack[1] DEF RootPlace

(* Where the objects that are open stand.                                  *)
LEMMA OpenPlaces ==
  ASSUME Inv, NEW b, Bits(b), NEW k \in Depth
  PROVE  /\ stack[k].obj \in Ids /\ b[stack[k].obj] \in Seq(Pieces)
         /\ \A j \in Depth : j < k => stack[j].obj < stack[k].obj
         /\ stack[k].place # Outside =>
              /\ stack[k].place \in Places
              /\ heap[stack[k].obj].cls = ClassAt(stack[k].place)
              /\ Row[heap[stack[k].obj].cls].text \in {"content", "both"}
<1>1. /\ stack[k].obj \in Ids
      /\ \A j \in Depth : j < k => stack[j].obj < stack[k].obj
      /\ stack[k].place # Outside =>
           stack[k].place \in Places /\ heap[stack[k].obj].cls = ClassAt(stack[k].place)
  BY DEF Inv, Stacked
<1>2. \A place \in Places : Row[ClassAt(place)].text \in {"content", "both"}
  BY SchemaAssumption
<1> QED BY <1>1, <1>2 DEF Bits

(* Text that is read becomes part of its object's, and of what is shown.   *)
LEMMA OutputsText ==
  ASSUME Inv, Outputs, [Next]_vars, ~Again, NEW p \in Piece, Text(p)
  PROVE  \E b, d : Bits(b)' /\ Shows(b, d)'
<1>1. PICK b, d : Bits(b) /\ Shows(b, d)
  BY DEF Outputs
<1>2. PICK o, L, n :
        /\ o = Takes(Top, p)
        /\ L = [Left EXCEPT
                  !.value = IF Left.value = <<>> THEN Left.value ELSE Tail(Left.value),
                  !.content = IF Left.content = <<>> THEN Left.content
                              ELSE Tail(Left.content)]
        /\ n = Len(stack)
  OBVIOUS
<1>3. Becomes(o, L) /\ p \in Pieces
  BY <1>2, TextIs, Zenon
<1>4. /\ n \in Nat /\ n \in Depth /\ Top = heap[Cur] /\ Cur \in Ids /\ Open(Cur)
      /\ Cur = stack[n].obj /\ Top \in Objs /\ Last(stack) = stack[n]
  BY <1>2, Tops DEF Inv
<1>5. /\ Alone(Cur) /\ heap'[Cur] = o /\ stack' = stack
  BY ONLY <1>3 DEF Becomes
<1>6. /\ o.content = IF In(Top, p) THEN Append(Top.content, Said(p)) ELSE Top.content
      /\ Said(p) \in Items
  BY <1>2, <1>3, <1>4, TakesIs
<1>7. shown' = IF stack[n].place # Outside /\ p.kind # "cdata" THEN Append(shown, p)
               ELSE shown
  BY <1>4 DEF Text
<1>8. d \in 0 .. n /\ shown = ShownTo(stack, b, d) /\ d \in Nat
      /\ \A k \in Depth : stack[k].place # Outside <=> k <= d
  BY ONLY <1>1, <1>2, <1>4 DEF Shows
<1>9. Ids' = Ids /\ Depth' = Depth /\ Len(stack') = n
  BY ONLY <1>2, <1>5 DEF Alone, Ids, Depth
<1>10. CASE ~In(Top, p)
  <2>1. \A id \in Ids : heap'[id].content = heap[id].content
    BY ONLY <1>4, <1>5, <1>6, <1>10 DEF Alone
  <2>2. Bits(b)'
    BY ONLY <1>1, <1>9, <2>1, BitsStay
  <2>3. shown' = shown
    <3>1. stack[n].place # Outside => Row[Top.cls].text \in {"content", "both"}
      BY <1>1, <1>4, OpenPlaces
    <3> QED BY ONLY <1>7, <1>10, <3>1 DEF In
  <2>4. Shows(b, d)'
    BY ONLY <1>5, <1>8, <1>9, <2>3 DEF Shows
  <2> QED BY <2>2, <2>4
<1>11. CASE In(Top, p)
  <2>1. PICK item : item = Said(p)
    OBVIOUS
  <2>2. item.tag = NoTag /\ item.text = p /\ item \in Items
    BY ONLY <1>6, <2>1 DEF Said
  <2>3. Bit(item, b) = <<p>>
    BY ONLY <2>2 DEF Bit
  <2>4. heap'[Cur].content = Append(heap[Cur].content, item)
    BY ONLY <1>4, <1>5, <1>6, <1>11, <2>1
  <2>5. \E c : MoreBits(b, c, Cur, item)
    BY <1>1, <1>4, <1>5, <2>2, <2>4, BitsPut
  <2>6. PICK c : MoreBits(b, c, Cur, item)
    BY <2>5
  <2>7. /\ Bits(c)' /\ c[Cur] = b[Cur] \o <<p>>
        /\ \A id \in Ids : id # Cur => c[id] = b[id]
    BY ONLY <2>3, <2>6 DEF MoreBits
  <2>8. \A k \in Depth : k < n => c[stack[k].obj] = b[stack[k].obj]
    <3>1. ASSUME NEW k \in Depth, k < n PROVE c[stack[k].obj] = b[stack[k].obj]
      <4>1. stack[k].obj \in Ids /\ stack[k].obj < stack[n].obj
        BY <1>1, <1>4, <3>1, OpenPlaces
      <4> QED BY ONLY <1>4, <2>7, <4>1 DEF Ids
    <3> QED BY <3>1
  <2>9. CASE d = n
    <3>1. shown' = Append(shown, p)
      <4>1. stack[n].place # Outside
        BY ONLY <1>4, <1>8, <2>9
      <4> QED BY ONLY <1>7, <1>11, <4>1 DEF In
    <3>2. PICK j : j = n - 1
      OBVIOUS
    <3>3. j \in Nat /\ j + 1 = n /\ \A k \in 1 .. j : k \in Depth /\ k < n
      BY ONLY <1>2, <1>4, <3>2 DEF Depth
    <3>4. \A k \in 1 .. j + 1 : b[stack[k].obj] \in Seq(Pieces) /\ c[stack[k].obj] \in Seq(Pieces)
      <4>1. \A k \in 1 .. j + 1 : k \in Depth
        BY ONLY <1>2, <3>3 DEF Depth
      <4>2. \A k \in 1 .. j + 1 : stack[k].obj \in Ids /\ b[stack[k].obj] \in Seq(Pieces)
        BY <1>1, <4>1, OpenPlaces
      <4> QED BY ONLY <1>9, <2>7, <4>2 DEF Bits
    <3>5. /\ ShownTo(stack, b, j) \in Seq(Pieces)
          /\ ShownTo(stack, b, j + 1) = ShownTo(stack, b, j) \o b[stack[j + 1].obj]
      BY ONLY <3>3, <3>4, ShownToMore
    <3>6. ShownTo(stack, c, j + 1) = ShownTo(stack, c, j) \o c[stack[j + 1].obj]
      BY ONLY <3>3, <3>4, ShownToMore
    <3>7. ShownTo(stack, c, j) = ShownTo(stack, b, j)
      BY ONLY <2>8, <3>3, ShownToSame
    <3>8. PICK s, t : s = ShownTo(stack, b, j) /\ t = b[Cur]
      OBVIOUS
    <3>9. s \in Seq(Pieces) /\ t \in Seq(Pieces)
      BY ONLY <1>4, <3>3, <3>4, <3>5, <3>8
    <3>10. Append(s \o t, p) = s \o (t \o <<p>>)
      BY ONLY SMTT(60), <1>3, <3>9
    <3>11. shown = s \o t /\ ShownTo(stack, c, n) = s \o (t \o <<p>>)
      BY ONLY <1>4, <1>8, <2>7, <2>9, <3>3, <3>5, <3>6, <3>7, <3>8
    <3>12. shown' = ShownTo(stack', c, n)
      BY ONLY <1>5, <3>1, <3>10, <3>11
    <3>13. Shows(c, n)'
      BY ONLY <1>5, <1>8, <1>9, <2>9, <3>12 DEF Shows
    <3> QED BY <2>7, <3>13
  <2>10. CASE d # n
    <3>1. d < n /\ \A k \in 1 .. d : k \in Depth /\ k < n
      BY ONLY <1>2, <1>4, <1>8, <2>10 DEF Depth
    <3>2. shown' = shown
      BY ONLY <1>4, <1>7, <1>8, <3>1
    <3>3. ShownTo(stack, c, d) = ShownTo(stack, b, d)
      BY ONLY <2>8, <3>1, ShownToSame
    <3>4. Shows(c, d)'
      BY ONLY <1>5, <1>8, <1>9, <3>2, <3>3 DEF Shows
    <3> QED BY <2>7, <3>4
  <2> QED BY <2>9, <2>10
<1> QED BY <1>10, <1>11


(* An object that is begun is empty, and stands where the schema has it.   *)
LEMMA OutputsElement ==
  ASSUME Inv, Outputs, [Next]_vars, ~Again, NEW tag, Element(tag)
  PROVE  \E b, d : Bits(b)' /\ Shows(b, d)'
<1>1. PICK b, d : Bits(b) /\ Shows(b, d)
  BY DEF Outputs
<1>2. PICK n, new : n = Len(stack) /\ new = Len(heap) + 1
  OBVIOUS
<1>3. /\ Len(heap') = Len(heap) + 1 /\ heap'[new] = New(KidClass(tag))
      /\ KidClass(tag) \in DOMAIN Row
      /\ \A i \in Ids : heap'[i] = heap[i]
      /\ Len(stack') = n + 1 /\ \A k \in Depth : stack'[k] = stack[k]
      /\ stack'[n + 1].obj = new
      /\ stack'[n + 1].place = Within(Last(stack).place, tag)
      /\ shown' = shown
  BY <1>2, ElementIs
<1>4. /\ n \in Nat /\ n \in Depth /\ Last(stack) = stack[n]
      /\ stack[n].place \in Places \cup {Outside}
  BY <1>2, Tops DEF Inv
<1>5. d \in 0 .. n /\ shown = ShownTo(stack, b, d) /\ d \in Nat
      /\ \A k \in Depth : stack[k].place # Outside <=> k <= d
  BY ONLY <1>1, <1>2, <1>4 DEF Shows
<1>6. heap'[new].content = <<>>
  BY <1>3, NewIs
<1>7. PICK c : Bits(c)' /\ c[new] = <<>> /\ \A id \in Ids : c[id] = b[id]
  BY <1>1, <1>2, <1>3, <1>6, BitsAdd
<1>8. Depth' = Depth \cup {n + 1} /\ n + 1 \notin Depth
  BY ONLY <1>2, <1>3, <1>4 DEF Depth
<1>9. /\ \A k \in 1 .. d : k \in Depth
      /\ \A k \in Depth : stack[k].obj \in Ids /\ b[stack[k].obj] \in Seq(Pieces)
  <2>1. \A k \in 1 .. d : k \in Depth
    BY ONLY <1>2, <1>4, <1>5 DEF Depth
  <2> QED BY <1>1, <2>1, OpenPlaces
<1>10. ShownTo(stack', c, d) = ShownTo(stack, b, d)
  <2>1. \A k \in 1 .. d : b[stack[k].obj] = c[stack'[k].obj]
    BY ONLY <1>3, <1>7, <1>9
  <2>2. PICK st : st = stack'
    OBVIOUS
  <2>3. ShownTo(stack, b, d) = ShownTo(st, c, d)
    BY ONLY <2>1, <2>2, ShownToSame
  <2> QED BY ONLY <2>2, <2>3
<1>11. CASE stack'[n + 1].place = Outside
  <2>1. \A k \in Depth' : stack'[k].place # Outside <=> k <= d
    BY ONLY <1>3, <1>4, <1>5, <1>8, <1>11
  <2>2. d \in 0 .. Len(stack')
    BY ONLY <1>3, <1>4, <1>5
  <2>3. Shows(c, d)'
    BY ONLY <1>3, <1>5, <1>10, <2>1, <2>2 DEF Shows
  <2> QED BY <1>7, <2>3
<1>12. CASE stack'[n + 1].place # Outside
  <2>1. stack[n].place # Outside
    BY <1>3, <1>4, <1>12, WithinIs
  <2>2. d = n
    BY ONLY <1>4, <1>5, <2>1
  <2>3. PICK st : st = stack'
    OBVIOUS
  <2>4. \A k \in 1 .. n + 1 : c[st[k].obj] \in Seq(Pieces)
    <3>1. \A k \in 1 .. n + 1 : k \in Depth \/ k = n + 1
      BY ONLY <1>2, <1>4 DEF Depth
    <3>2. <<>> \in Seq(Pieces)
      OBVIOUS
    <3> QED BY ONLY <1>3, <1>7, <1>9, <2>3, <3>1, <3>2
  <2>5. /\ ShownTo(st, c, n) \in Seq(Pieces)
        /\ ShownTo(st, c, n + 1) = ShownTo(st, c, n) \o c[st[n + 1].obj]
    BY ONLY <1>4, <2>4, ShownToMore
  <2>6. c[st[n + 1].obj] = <<>>
    BY ONLY <1>3, <1>7, <2>3
  <2>7. ShownTo(st, c, n + 1) = ShownTo(st, c, n)
    BY ONLY <2>5, <2>6
  <2>8. shown' = ShownTo(stack', c, n + 1)
    BY ONLY <1>3, <1>5, <1>10, <2>2, <2>3, <2>7
  <2>9. \A k \in Depth' : stack'[k].place # Outside <=> k <= n + 1
    <3>1. \A k \in Depth : k <= n
      BY ONLY <1>2 DEF Depth
    <3>2. \A k \in Depth : k \in Nat
      BY DEF Depth
    <3>3. ASSUME NEW k \in Depth PROVE stack'[k].place # Outside <=> k <= n + 1
      <4>1. k \in Nat /\ k <= n /\ stack'[k] = stack[k] /\ stack[k].place # Outside
        BY ONLY <1>3, <1>5, <2>2, <3>1, <3>2, <3>3
      <4> QED BY ONLY <1>4, <4>1
    <3>4. stack'[n + 1].place # Outside <=> n + 1 <= n + 1
      BY ONLY <1>4, <1>12
    <3> QED BY ONLY <1>8, <3>3, <3>4
  <2>10. n + 1 \in 0 .. Len(stack')
    BY ONLY <1>3, <1>4
  <2>11. Shows(c, n + 1)'
    BY ONLY <2>8, <2>9, <2>10 DEF Shows
  <2> QED BY <1>7, <2>11
<1> QED BY <1>11, <1>12

FourInOrder(s, t, u, w) == ((s \o t) \o u) \o w = s \o (t \o (u \o w))

LEMMA Associated ==
  ASSUME NEW S, NEW s \in Seq(S), NEW t \in Seq(S), NEW u \in Seq(S), NEW w \in Seq(S)
  PROVE  FourInOrder(s, t, u, w)
<1>1. \A x, y, z \in Seq(S) : (x \o y) \o z = x \o (y \o z)
  OBVIOUS
<1>2. s \o t \in Seq(S) /\ u \o w \in Seq(S)
  OBVIOUS
<1>3. ((s \o t) \o u) \o w = (s \o t) \o (u \o w)
  BY ONLY <1>1, <1>2, u \in Seq(S), w \in Seq(S)
<1>4. (s \o t) \o (u \o w) = s \o (t \o (u \o w))
  BY ONLY SMTT(60), <1>1, <1>2, s \in Seq(S), t \in Seq(S)
<1> QED BY ONLY <1>3, <1>4 DEF FourInOrder

(* At an element's end its text becomes part of its parent's, and an empty *)
(* line follows a paragraph.                                               *)
LEMMA OutputsEnd ==
  ASSUME Inv, Outputs, [Next]_vars, ~Again, EndElement
  PROVE  \E b, d : Bits(b)' /\ Shows(b, d)'
<1>1. PICK b, d : Bits(b) /\ Shows(b, d)
  BY DEF Outputs
<1>2. PICK n, m, into, tag, kid, o :
        /\ n = Len(stack) /\ m = n - 1 /\ into = stack[n - 1].obj
        /\ tag = stack[n].tag /\ kid = stack[n].obj /\ o = heap[into]
  OBVIOUS
<1>3. /\ n \in Nat /\ n > 1 /\ n \in Depth /\ n - 1 \in Depth
      /\ into \in Ids /\ kid \in Ids /\ into < kid /\ o \in Objs
      /\ tag \in DOMAIN Row[o.cls].kids
      /\ heap[kid].cls = Row[o.cls].kids[tag].cls
      /\ Alone(into) /\ heap'[into] = Keeps(o, tag, kid)
      /\ Len(stack') = n - 1 /\ \A k \in 1 .. n - 1 : stack'[k] = stack[k]
      /\ shown' = IF Last(stack).place.in = "para" THEN Append(shown, Break) ELSE shown
  BY <1>2, EndElementIs
<1>4. /\ m \in Nat /\ n = m + 1 /\ m \in Depth /\ m > 0 /\ into = stack[m].obj
      /\ kid = stack[n].obj /\ Open(into) /\ Depth' = 1 .. m /\ Depth = 1 .. n
      /\ Last(stack) = stack[n] /\ Ids' = Ids /\ \A k \in 1 .. m : stack'[k] = stack[k]
      /\ Len(stack') = m
  <2>1. Last(stack) = stack[n]
    BY <1>2, Tops DEF Inv
  <2>2. m \in Nat /\ n = m + 1 /\ m > 0
    <3>1. n \in Nat /\ n > 1 /\ m = n - 1
      BY ONLY <1>2, <1>3
    <3> QED BY ONLY <3>1
  <2>3. Ids' = Ids
    BY ONLY <1>3 DEF Alone, Ids
  <2>4. into = stack[m].obj /\ m \in Depth
    BY ONLY <1>2, <1>3
  <2> QED BY ONLY <1>2, <1>3, <2>1, <2>2, <2>3, <2>4 DEF Depth, Open
<1>5. d \in 0 .. n /\ shown = ShownTo(stack, b, d) /\ d \in Nat
      /\ \A k \in Depth : stack[k].place # Outside <=> k <= d
  <2>1. /\ d \in 0 .. Len(stack) /\ shown = ShownTo(stack, b, d)
        /\ \A k \in Depth : stack[k].place # Outside <=> k <= d
    BY ONLY <1>1 DEF Shows
  <2>2. n = Len(stack) /\ n \in Nat
    BY ONLY <1>2, <1>3
  <2> QED BY ONLY <2>1, <2>2
<1>6. /\ \A k \in Depth : stack[k].obj \in Ids /\ b[stack[k].obj] \in Seq(Pieces)
      /\ \A k \in Depth : k < m => stack[k].obj < into
      /\ stack[m].place # Outside =>
           stack[m].place \in Places /\ o.cls = ClassAt(stack[m].place)
  BY <1>1, <1>2, <1>4, OpenPlaces
<1>7. /\ stack[n].place = Within(stack[m].place, tag)
      /\ stack[m].place \in Places \cup {Outside}
  <2>1. n \in Depth \ {1}
    BY ONLY <1>3
  <2>2. stack[n].place = Within(stack[n - 1].place, stack[n].tag)
    BY <2>1 DEF Inv, Stacked
  <2> QED BY <1>2, <1>4, <2>2, Tops DEF Inv
<1>8. stack[n].place # Outside => (stack[n].place.in = "para" <=> tag = "para")
  BY <1>7, WithinIs
<1>9. o.content \in Seq(Items) /\ kid \in Nat
  BY <1>3, Parts DEF Ids
<1>10. heap'[into].content = IF Row[o.cls].kids[tag].how = "mixed"
                             THEN Append(o.content, Held(tag, kid)) ELSE o.content
  <2>1. IF Row[o.cls].kids[tag].how = "mixed"
        THEN Keeps(o, tag, kid).content = Append(o.content, Held(tag, kid))
        ELSE Keeps(o, tag, kid).content = o.content
    BY <1>3, <1>9, KeepsIs, Zenon
  <2> QED BY ONLY <1>3, <2>1
<1>11. stack[n].place = Outside => shown' = shown
  <2>1. Outside.in # "para"
    BY DEF Outside, Place
  <2> QED BY ONLY <1>3, <1>4, <2>1
<1>12. CASE Row[o.cls].kids[tag].how # "mixed"
  <2>1. \A id \in Ids : heap'[id].content = heap[id].content
    BY ONLY <1>2, <1>3, <1>10, <1>12 DEF Alone
  <2>2. Bits(b)'
    BY ONLY <1>1, <1>4, <2>1, BitsStay
  <2>3. stack[n].place = Outside
    <3>1. CASE stack[m].place = Outside
      BY <1>7, <3>1, WithinIs
    <3>2. CASE stack[m].place # Outside
      BY <1>3, <1>6, <1>7, <1>12, <3>2, KidPlace
    <3> QED BY <3>1, <3>2
  <2>4. d \in 0 .. m /\ \A k \in 1 .. m : stack[k].place # Outside <=> k <= d
    <3>1. ~(n <= d)
      BY ONLY <1>3, <1>5, <2>3
    <3> QED BY ONLY <1>4, <1>5, <3>1
  <2>5. ShownTo(stack', b, d) = ShownTo(stack, b, d)
    <3>1. \A k \in 1 .. d : b[stack[k].obj] = b[stack'[k].obj]
      BY ONLY <1>4, <2>4
    <3>2. PICK st : st = stack'
      OBVIOUS
    <3>3. ShownTo(stack, b, d) = ShownTo(st, b, d)
      BY ONLY <3>1, <3>2, ShownToSame
    <3> QED BY ONLY <3>2, <3>3
  <2>6. Shows(b, d)'
    BY ONLY <1>4, <1>5, <1>11, <2>3, <2>4, <2>5 DEF Shows
  <2> QED BY <2>2, <2>6
<1>13. CASE Row[o.cls].kids[tag].how = "mixed"
  <2>1. PICK item : item = Held(tag, kid)
    OBVIOUS
  <2>2. /\ item.tag = tag /\ item.obj = kid /\ item \in Items /\ tag # NoTag
    <3>1. o.cls \in DOMAIN Row
      BY <1>3, Parts
    <3>2. tag \in Tags
      BY <1>3, <3>1, Zenon DEF Tags
    <3>3. NoPiece \in Pieces
      BY DEF NoPiece, Pieces
    <3>4. tag # NoTag
      BY <1>3, <3>1, TextKinds
    <3> QED BY ONLY <1>9, <2>1, <3>2, <3>3, <3>4 DEF Held, Items
  <2>3. PICK br : br = IF tag = "para" THEN <<Break>> ELSE <<>>
    OBVIOUS
  <2>4. Bit(item, b) = b[kid] \o br
    BY ONLY <2>2, <2>3 DEF Bit
  <2>5. heap'[into].content = Append(heap[into].content, item)
    BY ONLY <1>2, <1>10, <1>13, <2>1
  <2>6. \E c : MoreBits(b, c, into, item)
    BY <1>1, <1>3, <1>4, <2>2, <2>5, BitsPut
  <2>7. PICK c : MoreBits(b, c, into, item)
    BY <2>6
  <2>8. /\ Bits(c)' /\ c[into] = b[into] \o (b[kid] \o br)
        /\ \A id \in Ids : id # into => c[id] = b[id]
    BY ONLY <2>4, <2>7 DEF MoreBits
  <2>9. \A k \in Depth : k < m => c[stack[k].obj] = b[stack[k].obj]
    <3>1. ASSUME NEW k \in Depth, k < m PROVE c[stack[k].obj] = b[stack[k].obj]
      <4>1. PICK x : x = stack[k].obj
        OBVIOUS
      <4>2. x \in Ids /\ x < into
        BY ONLY <1>6, <3>1, <4>1
      <4>3. x # into
        BY ONLY <1>3, <4>2 DEF Ids
      <4> QED BY ONLY <2>8, <4>1, <4>2, <4>3
    <3> QED BY <3>1
  <2>10. CASE stack[n].place # Outside
    <3>1. d = n
      BY ONLY <1>3, <1>5, <2>10
    <3>2. PICK j : j = m - 1
      OBVIOUS
    <3>3. j \in Nat /\ j + 1 = m /\ n = m + 1 /\ m \in Nat
          /\ \A k \in 1 .. j : k \in Depth /\ k < m
      BY ONLY <1>4, <3>2
    <3>4. \A k \in 1 .. m + 1 : b[stack[k].obj] \in Seq(Pieces)
      BY ONLY <1>4, <1>6
    <3>5. \A k \in 1 .. j + 1 : /\ b[stack[k].obj] \in Seq(Pieces)
                                /\ c[stack[k].obj] \in Seq(Pieces)
      <4>1. \A k \in 1 .. j + 1 : k \in Depth /\ k \in 1 .. m + 1
        BY ONLY <1>4, <3>3
      <4> QED BY ONLY <1>4, <1>6, <2>8, <4>1 DEF Bits
    <3>6. /\ ShownTo(stack, b, m) \in Seq(Pieces)
          /\ ShownTo(stack, b, m + 1) = ShownTo(stack, b, m) \o b[stack[m + 1].obj]
      BY ONLY <3>3, <3>4, ShownToMore
    <3>7. /\ ShownTo(stack, b, j) \in Seq(Pieces)
          /\ ShownTo(stack, b, j + 1) = ShownTo(stack, b, j) \o b[stack[j + 1].obj]
      BY ONLY <3>3, <3>5, ShownToMore
    <3>8. ShownTo(stack, c, j + 1) = ShownTo(stack, c, j) \o c[stack[j + 1].obj]
      BY ONLY <3>3, <3>5, ShownToMore
    <3>9. ShownTo(stack, c, j) = ShownTo(stack, b, j)
      BY ONLY <2>9, <3>3, ShownToSame
    <3>10. PICK s, t, u : s = ShownTo(stack, b, j) /\ t = b[into] /\ u = b[kid]
      OBVIOUS
    <3>11. s \in Seq(Pieces) /\ t \in Seq(Pieces) /\ u \in Seq(Pieces)
      <4>1. t \in Seq(Pieces) /\ u \in Seq(Pieces)
        BY ONLY <1>3, <1>4, <1>6, <3>10
      <4> QED BY ONLY <3>7, <3>10, <4>1
    <3>12. shown = (s \o t) \o u
      BY ONLY <1>4, <1>5, <3>1, <3>3, <3>6, <3>7, <3>10
    <3>13. ShownTo(stack, c, m) = s \o (t \o (u \o br))
      BY ONLY <1>4, <2>8, <3>3, <3>8, <3>9, <3>10
    <3>14. shown' = IF tag = "para" THEN Append((s \o t) \o u, Break) ELSE (s \o t) \o u
      BY ONLY <1>3, <1>4, <1>8, <2>10, <3>12
    <3>15. shown' = s \o (t \o (u \o br))
      <4>1. Break \in Pieces
        BY DEF Break, Pieces, Kinds
      <4>2. CASE tag = "para"
        <5>1. br = <<Break>> /\ shown' = Append((s \o t) \o u, Break)
          BY ONLY <2>3, <3>14, <4>2
        <5>2. PICK v, w : v = (s \o t) \o u /\ w = <<Break>>
          OBVIOUS
        <5>3. w \in Seq(Pieces)
          BY ONLY <4>1, <5>2
        <5>4. Append(v, Break) = v \o w
          BY ONLY <3>11, <4>1, <5>2
        <5>5. FourInOrder(s, t, u, w)
          BY ONLY <3>11, <5>3, Associated
        <5> QED BY ONLY <5>1, <5>2, <5>4, <5>5 DEF FourInOrder
      <4>3. CASE tag # "para"
        <5>1. br = <<>> /\ shown' = (s \o t) \o u
          BY ONLY <2>3, <3>14, <4>3
        <5>2. (s \o t) \o u = s \o (t \o (u \o <<>>))
          BY ONLY <3>11
        <5> QED BY ONLY <5>1, <5>2
      <4> QED BY <4>2, <4>3
    <3>16. ShownTo(stack', c, m) = ShownTo(stack, c, m)
      <4>1. \A k \in 1 .. m : c[stack[k].obj] = c[stack'[k].obj]
        BY ONLY <1>4
      <4>2. PICK st : st = stack'
        OBVIOUS
      <4>3. ShownTo(stack, c, m) = ShownTo(st, c, m)
        BY ONLY <4>1, <4>2, ShownToSame
      <4> QED BY ONLY <4>2, <4>3
    <3>17. \A k \in Depth' : stack'[k].place # Outside <=> k <= m
      <4>1. \A k \in 1 .. m : k \in Depth /\ k <= d /\ k <= m
        BY ONLY <1>4, <3>1
      <4> QED BY ONLY <1>4, <1>5, <4>1
    <3>18. m \in 0 .. Len(stack')
      BY ONLY <1>4
    <3>19. shown' = ShownTo(stack', c, m)
      BY ONLY <3>13, <3>15, <3>16
    <3>20. Shows(c, m)'
      BY ONLY <3>17, <3>18, <3>19 DEF Shows
    <3> QED BY <2>8, <3>20
  <2>11. CASE stack[n].place = Outside
    <3>1. stack[m].place = Outside
      <4>1. CASE stack[m].place # Outside
        BY <1>3, <1>6, <1>7, <1>13, <2>11, <4>1, KidPlace
      <4> QED BY <4>1
    <3>2. d < m /\ d \in 0 .. m
      BY ONLY <1>4, <1>5, <3>1
    <3>3. \A k \in 1 .. d : k \in Depth /\ k < m /\ k \in 1 .. m
      BY ONLY <1>4, <1>5, <3>2
    <3>4. ShownTo(stack', c, d) = ShownTo(stack, b, d)
      <4>1. \A k \in 1 .. d : b[stack[k].obj] = c[stack'[k].obj]
        BY ONLY <1>4, <2>9, <3>3
      <4>2. PICK st : st = stack'
        OBVIOUS
      <4>3. ShownTo(stack, b, d) = ShownTo(st, c, d)
        BY ONLY <4>1, <4>2, ShownToSame
      <4> QED BY ONLY <4>2, <4>3
    <3>5. \A k \in Depth' : stack'[k].place # Outside <=> k <= d
      <4>1. \A k \in 1 .. m : k \in Depth
        BY ONLY <1>4
      <4> QED BY ONLY <1>4, <1>5, <4>1
    <3>6. Shows(c, d)'
      BY ONLY <1>4, <1>5, <1>11, <2>11, <3>2, <3>4, <3>5 DEF Shows
    <3> QED BY <2>8, <3>6
  <2> QED BY <2>10, <2>11
<1> QED BY <1>12, <1>13

LEMMA OutputsStep ==
  ASSUME Inv, Outputs, [Next]_vars
  PROVE  Outputs'
<1> SUFFICES ASSUME ~Again' PROVE RootPlace' /\ \E b, d : Bits(b)' /\ Shows(b, d)'
  BY Zenon DEF Outputs
<1>1. ~Again /\ Types /\ Stacked
  BY AgainStays DEF Inv
<1>2. RootPlace /\ \E b, d : Bits(b) /\ Shows(b, d)
  BY <1>1 DEF Outputs
<1>3. Top = heap[Cur] /\ Cur \in Ids /\ 1 \in Depth /\ Len(stack) \in Nat
  BY <1>1, Tops
<1>4. ASSUME stack' = stack, shown' = shown, Len(heap') = Len(heap),
             \A id \in Ids : heap'[id].content = heap[id].content
      PROVE  RootPlace' /\ \E b, d : Bits(b)' /\ Shows(b, d)'
  <2>1. PICK b, d : Bits(b) /\ Shows(b, d)
    BY <1>2
  <2>2. Ids' = Ids
    BY ONLY <1>4 DEF Ids
  <2>3. Bits(b)'
    BY ONLY <1>4, <2>1, <2>2, BitsStay
  <2>4. Shows(b, d)'
    BY ONLY <1>4, <2>1 DEF Shows, Depth
  <2> QED BY <1>2, <1>4, <2>3, <2>4, RootPlaceStays
<1>5. ASSUME NEW a \in Class.attrs, Attribute(a)
      PROVE  RootPlace' /\ \E b, d : Bits(b)' /\ Shows(b, d)'
  <2>1. PICK o, L : /\ o = [Top EXCEPT !.attrs = Top.attrs \cup {a}]
                    /\ L = [Left EXCEPT !.attrs = Left.attrs \ {a}]
    OBVIOUS
  <2>2. Becomes(o, L) /\ o.content = Top.content /\ shown' = shown
    BY <1>5, <2>1, AttributeIs, Zenon
  <2>3. /\ stack' = stack /\ Len(heap') = Len(heap)
        /\ \A id \in Ids : heap'[id].content = heap[id].content
    BY ONLY <1>3, <2>2 DEF Becomes, Alone
  <2> QED BY <1>4, <2>2, <2>3
<1>6. ASSUME NEW p \in Piece, Text(p)
      PROVE  RootPlace' /\ \E b, d : Bits(b)' /\ Shows(b, d)'
  <2>1. stack' = stack
    BY <1>6 DEF Text
  <2> QED BY <1>1, <1>2, <1>6, <2>1, OutputsText, RootPlaceStays
<1>7. ASSUME NEW tag \in DOMAIN Class.kids, Element(tag)
      PROVE  RootPlace' /\ \E b, d : Bits(b)' /\ Shows(b, d)'
  <2>1. stack'[1] = stack[1]
    BY <1>3, <1>7, ElementIs
  <2> QED BY <1>1, <1>2, <1>7, <2>1, OutputsElement, RootPlaceStays
<1>8. CASE EndElement
  <2>1. PICK n : n = Len(stack)
    OBVIOUS
  <2>2. n > 1 /\ \A k \in 1 .. n - 1 : stack'[k] = stack[k]
    BY <1>8, <2>1, EndElementIs
  <2>3. stack'[1] = stack[1]
    BY ONLY <1>3, <2>1, <2>2
  <2> QED BY <1>1, <1>2, <1>8, <2>3, OutputsEnd, RootPlaceStays
<1>9. CASE Unknown \/ EndDocument \/ Malformed \/ UNCHANGED vars
  <2>1. heap' = heap /\ stack' = stack /\ shown' = shown
    BY <1>9 DEF Unknown, EndDocument, Malformed, vars
  <2> QED BY <1>4, <2>1
<1>10. CASE Export
  BY <1>10, ExportIs
<1> QED BY <1>5, <1>6, <1>7, <1>8, <1>9, <1>10 DEF Next

LEMMA InitOutputs == Init => Outputs
<1> SUFFICES ASSUME Init PROVE RootPlace /\ \E b, d : Bits(b) /\ Shows(b, d)
  BY Zenon DEF Outputs
<1>1. PICK cls \in DOMAIN Row \ {"Text"} :
        heap = <<New(cls)>> /\ stack = <<Begun(NoTag, 1, PlaceOf(cls))>>
  BY Zenon DEF Init
<1>2. PICK new, fr : /\ new = New(cls) /\ fr = Begun(NoTag, 1, PlaceOf(cls))
  OBVIOUS
<1>3. new.content = <<>> /\ new.cls = cls
  BY <1>1, <1>2, NewIs
<1>4. heap[1] = new /\ Ids = {1} /\ stack[1] = fr /\ Depth = {1} /\ Len(stack) = 1
  BY ONLY <1>1, <1>2 DEF Ids, Depth
<1>5. fr.obj = 1 /\ fr.place = PlaceOf(cls)
  BY ONLY <1>2 DEF Begun
<1>6. RootPlace
  BY ONLY <1>3, <1>4, <1>5 DEF RootPlace
<1>7. PICK b : b = [id \in {1} |-> <<>>]
  OBVIOUS
<1>8. DOMAIN b = {1} /\ b[1] = <<>>
  BY ONLY <1>7
<1>9. Bits(b)
  <2>1. <<>> \in Seq(Pieces)
    OBVIOUS
  <2>2. FlatOf(<<>>, b) = <<>>
    BY FlatOfNone
  <2> QED BY ONLY <1>3, <1>4, <1>8, <2>1, <2>2 DEF Bits
<1>10. shown = <<>>
  BY DEF Init
<1>11. ShownTo(stack, b, 0) = <<>>
  <2>1. [k \in 1 .. 0 |-> b[stack[k].obj]] = <<>>
    OBVIOUS
  <2> QED BY <2>1, FlatNone DEF ShownTo
<1>12. ShownTo(stack, b, 1) = <<>>
  <2>1. \A k \in 1 .. 0 + 1 : b[stack[k].obj] = <<>>
    BY ONLY <1>4, <1>5, <1>8
  <2>2. \A k \in 1 .. 0 + 1 : b[stack[k].obj] \in Seq(Pieces)
    <3>1. <<>> \in Seq(Pieces)
      OBVIOUS
    <3> QED BY ONLY <2>1, <3>1
  <2>3. ShownTo(stack, b, 0 + 1) = ShownTo(stack, b, 0) \o b[stack[0 + 1].obj]
    BY ONLY <2>2, ShownToMore
  <2>4. b[stack[0 + 1].obj] = <<>> /\ 0 + 1 = 1
    BY ONLY <2>1
  <2> QED BY ONLY <1>11, <2>3, <2>4
<1>13. CASE fr.place = Outside
  <2>1. Shows(b, 0)
    BY ONLY <1>4, <1>10, <1>11, <1>13 DEF Shows
  <2> QED BY <1>6, <1>9, <2>1
<1>14. CASE fr.place # Outside
  <2>1. Shows(b, 1)
    BY ONLY <1>4, <1>10, <1>12, <1>14 DEF Shows
  <2> QED BY <1>6, <1>9, <2>1
<1> QED BY <1>13, <1>14

(* There is one such function: an object's text depends only on that of    *)
(* objects made after it.                                                  *)
LEMMA OneBits ==
  ASSUME Inv, NEW b, Bits(b), NEW c, DOMAIN c = Ids,
         \A id \in Ids : c[id] = FlatOf(heap[id].content, c)
  PROVE  \A id \in Ids : c[id] = b[id]
<1> DEFINE Bad == {id \in Ids : c[id] # b[id]}
           From == {Len(heap) - id : id \in Bad}
<1>1. ASSUME Bad # {} PROVE FALSE
  <2>1. Len(heap) \in Nat
    BY DEF Inv, Types
  <2>2. From \subseteq Nat /\ From # {}
    BY ONLY <1>1, <2>1 DEF Ids
  <2>3. \E k \in From : \A j \in From : k <= j
    <3> HIDE DEF From
    <3> QED BY ONLY <2>2, First
  <2>4. PICK id \in Bad : \A j \in Bad : Len(heap) - id <= Len(heap) - j
    BY ONLY <2>3
  <2>5. id \in Ids /\ c[id] # b[id]
    BY ONLY <2>4
  <2>6. \A k \in DOMAIN heap[id].content : heap[id].content[k].tag # NoTag =>
          c[heap[id].content[k].obj] = b[heap[id].content[k].obj]
    <3>1. ASSUME NEW k \in DOMAIN heap[id].content, heap[id].content[k].tag # NoTag
          PROVE  c[heap[id].content[k].obj] = b[heap[id].content[k].obj]
      <4>1. PICK kid : kid = heap[id].content[k].obj
        OBVIOUS
      <4>2. kid \in Ids /\ id < kid
        BY <2>5, <3>1, <4>1, Held1
      <4>3. ~(Len(heap) - id <= Len(heap) - kid)
        BY ONLY <2>1, <2>5, <4>2 DEF Ids
      <4>4. kid \notin Bad
        BY ONLY <2>4, <4>3
      <4> QED BY ONLY <4>1, <4>2, <4>4
    <3> QED BY <3>1
  <2>7. FlatOf(heap[id].content, c) = FlatOf(heap[id].content, b)
    BY ONLY <2>6, FlatOfSame
  <2>8. c[id] = FlatOf(heap[id].content, c) /\ b[id] = FlatOf(heap[id].content, b)
    BY <2>5 DEF Bits
  <2> QED BY ONLY <2>5, <2>7, <2>8
<1> QED BY <1>1

LEMMA TextOut == Inv /\ Outputs => TextComesOut
<1> SUFFICES ASSUME Inv, Outputs, phase = "read", PlaceOf(Root.cls) # Outside
             PROVE  description_bit[stack[1].obj] = shown
  BY DEF TextComesOut
<1>1. ~Again /\ Len(stack) = 1
  BY DEF Again, Inv, Lockstep
<1>2. PICK b, d : Bits(b) /\ Shows(b, d)
  BY <1>1 DEF Outputs
<1>3. stack[1].place # Outside
  BY <1>1 DEF Outputs, RootPlace, Root
<1>4. DOMAIN heap = Ids /\ stack[1].obj \in Ids /\ b[stack[1].obj] \in Seq(Pieces)
  <2>1. DOMAIN heap = Ids /\ 1 \in Depth
    BY Tops DEF Inv
  <2> QED BY <1>2, <2>1, OpenPlaces
<1>5. d = 1
  BY ONLY <1>1, <1>2, <1>3 DEF Shows, Depth
<1>6. shown = b[stack[1].obj]
  <2>1. /\ ShownTo(stack, b, 0) \in Seq(Pieces)
        /\ ShownTo(stack, b, 0 + 1) = ShownTo(stack, b, 0) \o b[stack[0 + 1].obj]
    <3>1. \A k \in 1 .. 0 + 1 : b[stack[k].obj] \in Seq(Pieces)
      BY ONLY <1>4
    <3> QED BY ONLY <3>1, ShownToMore
  <2>2. ShownTo(stack, b, 0) = <<>>
    <3>1. [k \in 1 .. 0 |-> b[stack[k].obj]] = <<>>
      OBVIOUS
    <3> QED BY <3>1, FlatNone DEF ShownTo
  <2>3. 0 + 1 = 1
    OBVIOUS
  <2>4. shown = ShownTo(stack, b, 1)
    BY ONLY <1>2, <1>5 DEF Shows
  <2>5. ShownTo(stack, b, 1) = <<>> \o b[stack[1].obj]
    BY ONLY <2>1, <2>2, <2>3
  <2> QED BY ONLY <1>4, <2>4, <2>5
<1>7. PICK c : c = description_bit
  OBVIOUS
<1>8. c = [id \in Ids |-> FlatOf(heap[id].content, c)]
  <2> DEFINE Def(f) ==
        f = [id \in DOMAIN heap |->
               FlattenSeq([k \in DOMAIN heap[id].content |-> Bit(heap[id].content[k], f)])]
  <2>1. PICK f : f = [id \in Ids |-> b[id]]
    OBVIOUS
  <2>2. \A id \in Ids : f[id] = b[id] /\ b[id] = FlatOf(heap[id].content, b)
    BY ONLY <1>2, <2>1 DEF Bits
  <2>3. \A id \in Ids : FlatOf(heap[id].content, b) = FlatOf(heap[id].content, f)
    <3>1. ASSUME NEW id \in Ids
          PROVE  FlatOf(heap[id].content, b) = FlatOf(heap[id].content, f)
      <4>1. \A k \in DOMAIN heap[id].content : heap[id].content[k].tag # NoTag =>
              heap[id].content[k].obj \in Ids
        BY Held1
      <4>2. \A k \in DOMAIN heap[id].content : heap[id].content[k].tag # NoTag =>
              b[heap[id].content[k].obj] = f[heap[id].content[k].obj]
        BY ONLY <2>2, <4>1
      <4> QED BY ONLY <4>2, FlatOfSame
    <3> QED BY <3>1
  <2>4. f = [id \in Ids |-> FlatOf(heap[id].content, f)]
    BY ONLY <2>1, <2>2, <2>3
  <2>5. Def(f)
    BY ONLY <1>4, <2>4 DEF FlatOf, BitsOf
  <2>6. c = CHOOSE g : Def(g)
    BY <1>7 DEF description_bit
  <2>7. Def(c)
    <3> HIDE DEF Def
    <3> QED BY ONLY <2>5, <2>6
  <2> QED BY ONLY <1>4, <2>7 DEF FlatOf, BitsOf
<1>9. DOMAIN c = Ids /\ \A id \in Ids : c[id] = FlatOf(heap[id].content, c)
  <2>1. PICK r : r = [id \in Ids |-> FlatOf(heap[id].content, c)]
    OBVIOUS
  <2>2. DOMAIN r = Ids /\ \A id \in Ids : r[id] = FlatOf(heap[id].content, c)
    BY ONLY <2>1
  <2> QED BY ONLY <1>8, <2>1, <2>2
<1>10. \A id \in Ids : c[id] = b[id]
  BY <1>2, <1>9, OneBits
<1> QED BY ONLY <1>4, <1>6, <1>7, <1>10

(* What text.py makes of a description is the text that stands where       *)
(* doxygen's schema has text, in the document's order and once, with an    *)
(* empty line after each paragraph, and no other: whatever the document,   *)
(* and however deep its sections nest.                                     *)
THEOREM DocstringIsText == Spec => []TextComesOut
<1>1. Init => Inv /\ Outputs
  BY InitInv, InitOutputs
<1>2. Inv /\ Outputs /\ [Next]_vars => Inv' /\ Outputs'
  BY InvStep, OutputsStep
<1> QED BY <1>1, <1>2, TextOut, PTL DEF Spec
=============================================================================
