------------------------------ MODULE DoxyDocs ------------------------------
(***************************************************************************)
(* The documentation tool: docs/doxygen/swig_doc.py reads doxygen's XML    *)
(* through docs/doxygen/doxyxml (base.py, doxyindex.py) and writes one     *)
(* docstring for each class and function into a SWIG interface file.       *)
(*                                                                         *)
(* It takes the compounds of the index one after the other, and then goes  *)
(* over the blocks, the functions and the classes it has found.  Each may  *)
(* come from an XML file that is not well formed, or is missing; some of   *)
(* that is passed over, and some of it stops the run before anything is    *)
(* written.  Of the text of a docstring all that is kept is whether there  *)
(* is any.                                                                 *)
(*                                                                         *)
(* A name is that of a class or of an operator, or the one make_name makes *)
(* of it.  A class is a block when its make function is its friend.        *)
(***************************************************************************)
EXTENDS Integers, Sequences, SequencesExt

Plain(c) == [of |-> c, make |-> FALSE]
Make(c) == [of |-> c, make |-> TRUE]        \* make_name
Function(name) == [kind |-> "function", name |-> name]
Friend(name) == [kind |-> "friend", name |-> name]
\* A define, typedef, enum, variable, slot, property: what is documented nowhere.
Other(name) == [kind |-> "other", name |-> name]

CONSTANTS
  Classes,      \* names of classes
  Operators,    \* names with "operator " in them
  Described,    \* <<what, c>>: the class c, its make function or its header has
                \* a brief or a detailed description
  HeaderDefs,   \* memberdefs that a header may have
  ClassDefs,    \* those that a class may have
  MaxCompounds, \* bound: compounds in the index
  MaxMems       \* bound: memberdefs in a compound

Names == {Plain(c) : c \in Classes \cup Operators} \cup {Make(c) : c \in Classes}
Memberdefs == UNION {{Function(n), Friend(n), Other(n)} : n \in Names}

ASSUME BoundsAssumption ==
  /\ MaxCompounds \in Nat /\ MaxMems \in Nat
  /\ Classes \cap Operators = {}
  /\ Described \subseteq {"class", "make", "header"} \X Classes
  /\ HeaderDefs \cup ClassDefs \subseteq Memberdefs

VARIABLES
  index,        \* the compounds of index.xml, each with its own file
  phase, next,  \* the loop at hand, its next compound
  found,        \* _members of the DoxyIndex: the compounds it has taken in
  docs          \* the things a docstring was made for, in order

vars == <<index, phase, next, found, docs>>

Upto(n, S) == UNION {[1 .. m -> S] : m \in 0 .. n}
Files(kind, name, members) ==
  [kind : {kind}, name : {name}, xml : {"good"}, mems : Upto(MaxMems, members)]
  \cup [kind : {kind}, name : {name}, xml : {"bad", "missing"}, mems : {<<>>}]

Headers == UNION {Files("header", c, HeaderDefs) : c \in Classes}
ClassFiles == UNION {Files("class", c, ClassDefs) : c \in Classes}
\* A file that is no header, a namespace and the like, a kind no class parses.
Others == [kind : {"source", "other", "unknown"}, name : {"-"}, xml : {"bad"},
           mems : {<<>>}]
Compounds == Headers \cup ClassFiles \cup Others

(* The names of classes differ; those of headers, of which only the last   *)
(* part is kept, need not.                                                 *)
Init ==
  /\ \E n \in 0 .. MaxCompounds : index \in [1 .. n -> Compounds]
  /\ \A i, j \in DOMAIN index :
       index[i].kind = "class" /\ index[j].kind = "class"
         /\ index[i].name = index[j].name => i = j
  /\ phase = "index" /\ next = 1 /\ found = {} /\ docs = <<>>

-----------------------------------------------------------------------------
(* doxyxml.                                                                *)

(* process_memberdefs: the first of each name, whatever its kind, since    *)
(* mem.__class__ is the same for all of them.  One of a kind that no class *)
(* parses (a slot, a property) has no object, and takes the name all the   *)
(* same.                                                                   *)
Members(i) ==
  {<<i, j>> : j \in {j \in DOMAIN index[i].mems :
     \A k \in 1 .. j - 1 : index[i].mems[k].name # index[i].mems[j].name}}

Def(m) == index[m[1]].mems[m[2]]
InCategory(kind) == {i \in found : index[i].kind = kind}
Functions == {m \in UNION {Members(i) : i \in InCategory("header")} :
               Def(m).kind = "function"}
HasMember(i, def) == \E m \in Members(i) : Def(m) = def
Good(i) == index[i].xml = "good"
Missing(i) == index[i].xml = "missing"

(* get_member on the index: NoSuchMember or Duplicate, unless there is one. *)
Named(name) == {m \in Functions : Def(m).name = name}
HeadersOf(c) == {i \in InCategory("header") : index[i].name = c}

-----------------------------------------------------------------------------
Goes(last) ==
  LET order == <<"index", "blocks", "functions", "classes", "writes">>
      at == CHOOSE p \in 1 .. 4 : order[p] = phase
  IN IF last THEN phase' = order[at + 1] /\ next' = 1
             ELSE phase' = phase /\ next' = next + 1
Continues == Goes(next = Len(index)) /\ UNCHANGED index
Stops == phase' = "stopped" /\ UNCHANGED <<index, next, found, docs>>

(* The first loop of DoxyIndex._parse.  A header is read at once: when it  *)
(* is not well formed, DoxyFile._parse looks into it all the same; when    *)
(* no class can parse a compound, the second get_cls is not caught.        *)
Unreadable(i) ==
  \/ index[i].kind = "unknown"
  \/ index[i].kind = "header" /\ ~Good(i)
ParseCompound ==
  /\ phase = "index" /\ next <= Len(index)
  /\ \/ Unreadable(next) /\ Stops
     \/ /\ ~Unreadable(next)
        /\ found' = IF index[next].kind = "source" THEN found
                    ELSE found \cup {next}
        /\ Continues /\ UNCHANGED docs

(* Mutant: a class with an error is asked for its members.                 *)
IsBlockOrRaises(i) == ~Good(i) \/ HasMember(i, Friend(Make(index[i].name)))

(* Block.includes: error() parses the class, which may have no file.       *)
IsBlock(i) == Good(i) /\ HasMember(i, Friend(Make(index[i].name)))
Blocks == {i \in InCategory("class") : IsBlock(i)}

(* make_block_entry: its make function must be in the index, once, and its *)
(* constructor in the class.  It may have no header of its name.           *)
Complete(i) ==
  LET c == index[i].name
  IN /\ \E m \in Functions : Named(Make(c)) = {m}
     /\ \A h, k \in HeadersOf(c) : h = k
     /\ HasMember(i, Function(Plain(c)))

(* make_entry has nothing for an operator, nor for a class of which        *)
(* nothing is said; a block has what is said of its make function and its  *)
(* header too.  A function's has its parameters at least.                  *)
IsSpokenOf(i) ==
  LET c == index[i].name
  IN \/ <<"class", c>> \in Described
     \/ /\ i \in Blocks
        /\ \/ <<"make", c>> \in Described
           \/ <<"header", c>> \in Described /\ HeadersOf(c) # {}
HasEntry(m) == Def(m).kind = "function" /\ Def(m).name.of \notin Operators

ClassEntry(i) ==
  (IF IsSpokenOf(i) THEN <<<<i, 0>>>> ELSE <<>>)
    \o SetToSeq({m \in Members(i) : HasEntry(m)})

(* The loop over the blocks; in_category has looked at all classes first.  *)
BlockEntry ==
  /\ phase = "blocks" /\ next <= Len(index)
  /\ \/ /\ \/ \E i \in InCategory("class") : Missing(i)
           \/ next \in Blocks /\ ~Complete(next)
        /\ Stops
     \/ /\ \A i \in InCategory("class") : ~Missing(i)
        /\ next \in Blocks => Complete(next)
        /\ docs' = IF next \notin Blocks THEN docs
                   ELSE docs \o ClassEntry(next)
                             \o SetToSeq(Named(Make(index[next].name)))
        /\ Continues /\ UNCHANGED found

(* Mutant: the blocks' make functions are not left out.                    *)
NoMakeFuncs == {}

MakeFuncs == {Make(index[i].name) : i \in Blocks}

FunctionEntries ==
  /\ phase = "functions" /\ next <= Len(index)
  /\ docs' = docs \o SetToSeq({m \in Functions : m[1] = next /\ HasEntry(m)
                                   /\ Def(m).name \notin MakeFuncs})
  /\ Continues /\ UNCHANGED found

(* Mutant: a class that cannot be parsed is the last.                      *)
ClassEntryLast ==
  /\ phase = "classes" /\ next <= Len(index)
  /\ LET left == next \in InCategory("class") \ Blocks
     IN /\ docs' = IF left /\ Good(next) THEN docs \o ClassEntry(next) ELSE docs
        /\ Goes(next = Len(index) \/ (left /\ ~Good(next)))
  /\ UNCHANGED <<index, found>>

(* The loop over the classes, where a ParsingError is caught.              *)
ClassEntries ==
  /\ phase = "classes" /\ next <= Len(index)
  /\ docs' = IF next \in InCategory("class") \ Blocks /\ Good(next)
             THEN docs \o ClassEntry(next) ELSE docs
  /\ Continues /\ UNCHANGED found

(* An index with nothing in it.                                            *)
NoCompounds ==
  /\ phase \in {"index", "blocks", "functions", "classes"} /\ index = <<>>
  /\ Goes(TRUE) /\ UNCHANGED <<index, found, docs>>

Writes ==
  /\ phase = "writes" /\ phase' = "written"
  /\ UNCHANGED <<index, next, found, docs>>

Next ==
  ParseCompound \/ BlockEntry \/ FunctionEntries \/ ClassEntries
    \/ NoCompounds \/ Writes
Spec == Init /\ [][Next]_vars

-----------------------------------------------------------------------------
InDocs == {docs[p] : p \in DOMAIN docs}

(* Nothing has two docstrings: not a make function, which has one with its *)
(* block, nor a memberdef that doxygen lists in several sections.          *)
DocumentedOnce ==
  \A p, q \in DOMAIN docs : p # q =>
    /\ docs[p] # docs[q]
    /\ docs[p][1] = docs[q][1] /\ docs[p][2] > 0 /\ docs[q][2] > 0
         => Def(docs[p]).name # Def(docs[q]).name

(* A memberdef of another kind takes its name before j in compound i.      *)
IsShadowed(i, j) ==
  \E k \in 1 .. j - 1 : /\ index[i].mems[k].name = index[i].mems[j].name
                        /\ index[i].mems[k].kind # "function"

(* What is written has all that could be read, whatever classes could not  *)
(* be parsed: every class of which something is said, and every name of a  *)
(* function in a class or in a header.  The exceptions are the code's: an  *)
(* operator, and a function whose name a memberdef of another kind has     *)
(* taken, which process_memberdefs drops with its description.             *)
NothingLeftOut ==
  phase = "written" =>
    \A i \in DOMAIN index :
      /\ index[i].kind = "class" /\ Good(i) /\ <<"class", index[i].name>> \in Described
           => <<i, 0>> \in InDocs
      /\ index[i].kind \in {"class", "header"} =>
           \A j \in DOMAIN index[i].mems :
             HasEntry(<<i, j>>) /\ ~IsShadowed(i, j)
             => \E m \in InDocs : m[1] = i /\ m[2] > 0
                                  /\ Def(m).name = index[i].mems[j].name

(* A class that is not well formed is passed over: only the others named   *)
(* here keep the file from being written.                                  *)
StopsOnlyFor ==
  phase = "stopped" =>
    \E i \in DOMAIN index :
      \/ Unreadable(i)
      \/ index[i].kind = "class" /\ Missing(i)
      \/ /\ index[i].kind = "class" /\ Good(i) /\ ~Complete(i)
         /\ HasMember(i, Friend(Make(index[i].name)))
=============================================================================
