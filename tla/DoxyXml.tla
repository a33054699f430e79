------------------------------ MODULE DoxyXml ------------------------------
(***************************************************************************)
(* What docs/doxygen/doxyxml makes of doxygen's XML: the classes of        *)
(* generated/compoundsuper.py and indexsuper.py, with docParaTypeSub of    *)
(* compound.py, build objects out of an XML document, node by node, and    *)
(* can write them as XML again; text.py joins the text of a description's  *)
(* objects to one string.                                                  *)
(*                                                                         *)
(* The document is chosen as it is read: the stack is that of the nested   *)
(* calls of build.  What has been read is then written, node by node, and  *)
(* each node is read again as soon as it is there: writing is the stack of *)
(* the nested calls of export, with what each has still to write.          *)
(*                                                                         *)
(* An object is known by a number, its place in heap, as a Python object   *)
(* is by its reference.  A piece of text is a number, for the order, and a *)
(* kind: plain, special (with a character that XML reserves) or a CDATA    *)
(* section.  Indentation, the values of attributes, the order of an        *)
(* object's attributes and of the lists of its children, and               *)
(* exportLiteral, which writes Python, are left out.                       *)
(***************************************************************************)
EXTENDS Integers, Sequences, SequencesExt

CONSTANTS
  Row,          \* of each class: attrs, kids and text, see DoxyClasses
  MaxNodes,     \* bound: nodes of a document, its root not counted
  MaxBelow      \* bound: the same for a root that is no part of a description

(* The tag of what has none: of the root, and of text in a list content_.  *)
NoTag == "-"

ASSUME BoundsAssumption == MaxNodes \in Nat /\ MaxBelow \in Nat

(* A class keeps one object for each element it knows, or a list of them,  *)
(* and has no text; or a list content_ of the elements and the text        *)
(* between them; or only text, with or without a content_ of it.           *)
(* Paragraphs alone have elements and text in both ways.                   *)
ASSUME RowAssumption ==
  \A cls \in DOMAIN Row :
    LET kids == Row[cls].kids
        text == Row[cls].text
    IN /\ text \in {"none", "content", "value", "both"}
       /\ \A tag \in DOMAIN kids : /\ tag # NoTag
                                   /\ kids[tag].cls \in DOMAIN Row
                                   /\ kids[tag].how \in {"one", "many", "mixed"}
       /\ text = "none" => \A tag \in DOMAIN kids : kids[tag].how # "mixed"
       /\ text = "content" => \A tag \in DOMAIN kids : kids[tag].how = "mixed"
       /\ text \in {"value", "both"} => DOMAIN kids = {} \/ cls = "docParaType"

(* The classes this module names.                                          *)
ASSUME NamesAssumption ==
  /\ {"Text", "docParaType", "docTitleType", "compounddefType"} \subseteq DOMAIN Row
  /\ Row["Text"].text = "value"
  /\ Row["docParaType"].text = "both" /\ Row["docTitleType"].text = "both"
  /\ Row["compounddefType"].text = "none"
  /\ \A tag \in DOMAIN Row["compounddefType"].kids :
       tag = "title" =>
         Row["compounddefType"].kids[tag] = [cls |-> "docTitleType", how |-> "one"]

(* The simple elements there are between text.                             *)
ASSUME SimpleAssumption ==
  \A cls \in DOMAIN Row :
    Row[cls].text = "content" =>
      \A tag \in DOMAIN Row[cls].kids :
        Row[cls].kids[tag].cls = "Text" => tag \in {"name", "sp"}

-----------------------------------------------------------------------------
(* Where doxygen's schema has text: in titles, paragraphs and references,  *)
(* and between the elements of sections, which nest to four levels.        *)

Place(in, level) == [in |-> in, level |-> level]
Outside == Place("outside", 0)

Bodies == <<"descriptionType", "docSect1Type", "docSect2Type", "docSect3Type",
            "docSect4Type">>
Internals == <<"docInternalType", "docInternalS1Type", "docInternalS2Type",
               "docInternalS3Type", "docInternalS4Type">>
Sections == <<"sect1", "sect2", "sect3", "sect4">>

Places == [in : {"body", "internal", "title", "para", "ref"}, level : 0 .. 4]

ClassAt(place) ==
  CASE place.in = "body" -> Bodies[place.level + 1]
    [] place.in = "internal" -> Internals[place.level + 1]
    [] place.in = "title" -> "docTitleType"
    [] place.in = "para" -> "docParaType"
    [] place.in = "ref" -> "docRefTextType"

(* A section's element.  In the "internal" of a third level the fourth has *)
(* the tag of the third, which is not the schema's.                        *)
Section(place) ==
  IF place = Place("internal", 3) THEN "sect3" ELSE Sections[place.level + 1]

(* Where an element stands that is in another.                             *)
Within(place, tag) ==
  IF place.in \in {"body", "internal"} /\ tag = "para" THEN Place("para", place.level)
  ELSE IF place.in = "body" /\ tag \in {"title", "internal"} THEN Place(tag, place.level)
  ELSE IF place.in \in {"body", "internal"} /\ place.level < 4 /\ tag = Section(place)
       THEN Place("body", place.level + 1)
  ELSE IF place.in = "para" /\ tag = "ref" THEN Place("ref", place.level)
  ELSE Outside

PlaceOf(cls) ==
  IF \E level \in 0 .. 4 : cls = Bodies[level + 1]
  THEN Place("body", CHOOSE level \in 0 .. 4 : cls = Bodies[level + 1])
  ELSE Outside

(* The classes know as mixed content what the schema has there, of the     *)
(* elements they know.                                                     *)
ASSUME SchemaAssumption ==
  \A place \in Places :
    LET row == Row[ClassAt(place)]
    IN /\ ClassAt(place) \in DOMAIN Row
       /\ row.text \in {"content", "both"}
       /\ \A tag \in DOMAIN row.kids :
            IF Within(place, tag) = Outside THEN row.kids[tag].how # "mixed"
            ELSE row.kids[tag] = [cls |-> ClassAt(Within(place, tag)), how |-> "mixed"]

-----------------------------------------------------------------------------
VARIABLES
  phase,        \* reading, read, rereading, reread or malformed
  heap,         \* the objects, in the order in which they were made
  stack,        \* the elements begun: tag, object, and place in the schema
  nodes,        \* nodes of the document up to here
  writing,      \* the objects begun to be written, each with what is left of it
  copyOf,       \* history: of each object, the one it was written from, or None,
                \* or AsText when that was written as a string
  shown,        \* history: the text that stands where the schema has text
  special       \* history: where special text was read: class and tag

vars == <<phase, heap, stack, nodes, writing, copyOf, shown, special>>

None == 0
AsText == -1
Kinds == {"plain", "special", "cdata"}
NoPiece == [n |-> 0, kind |-> "none"]
Break == [n |-> 0, kind |-> "break"]    \* the empty line after a paragraph
Repr == [n |-> 0, kind |-> "plain"]     \* '%s' of an object

New(cls) ==
  [cls |-> cls, attrs |-> {}, fields |-> [tag \in DOMAIN Row[cls].kids |-> <<>>],
   content |-> <<>>, value |-> <<>>]
Begun(tag, obj, place) == [tag |-> tag, obj |-> obj, place |-> place]

Init ==
  /\ \E cls \in DOMAIN Row \ {"Text"} :
       /\ heap = <<New(cls)>>
       /\ stack = <<Begun(NoTag, 1, PlaceOf(cls))>>
  /\ phase = "reading" /\ nodes = 0 /\ writing = <<>> /\ copyOf = <<None>>
  /\ shown = <<>> /\ special = {}

Root == heap[stack[1].obj]
Top == heap[Last(stack).obj]
Class == Row[Top.cls]
Bound == IF PlaceOf(Root.cls) # Outside THEN MaxNodes ELSE MaxBelow

-----------------------------------------------------------------------------
(* export.                                                                 *)

(* The classes of the index and the root write their attributes also when  *)
(* they have none.                                                         *)
Always(cls) ==
  IF cls \in {"IndexType", "CompoundType", "MemberType", "DoxygenType"}
  THEN Row[cls].attrs ELSE {}

(* A compound's title is '' until there is one, which is then an object,   *)
(* and it is written as if it was a string in both cases.  All else that   *)
(* is '' when none is read is a string when one is, too, and reads as the  *)
(* same '' again: no object stands for it.                                 *)
TitleOf(cls, tag) == cls = "compounddefType" /\ tag = "title"
KidsOf(obj, tag) ==
  IF TitleOf(obj.cls, tag) /\ obj.fields[tag] = <<>> THEN <<None>> ELSE obj.fields[tag]

Valued(cls) == Row[cls].text \in {"value", "both"}

(* Mutant: of a list, only the last is written.                            *)
WrittenLast(obj) ==
  [obj EXCEPT
     !.attrs = @ \cup Always(obj.cls),
     !.fields = [tag \in DOMAIN @ |-> IF Valued(obj.cls) \/ KidsOf(obj, tag) = <<>> THEN <<>>
                                     ELSE <<Last(KidsOf(obj, tag))>>],
     !.content = IF Valued(obj.cls) THEN <<>> ELSE @]

(* What is written of an object: of one with a value, only that.           *)
Written(obj) ==
  [obj EXCEPT
     !.attrs = @ \cup Always(obj.cls),
     !.fields = IF Valued(obj.cls) THEN New(obj.cls).fields
                ELSE [tag \in DOMAIN @ |-> KidsOf(obj, tag)],
     !.content = IF Valued(obj.cls) THEN <<>> ELSE @]

(* raw: the text is not quoted.                                            *)
Exported(id, raw) == [of |-> id, left |-> Written(heap[id]), raw |-> raw]
AsString(kid) ==
  [of |-> IF kid = None THEN None ELSE AsText,
   left |-> [New("docTitleType") EXCEPT !.value = IF kid = None THEN <<>> ELSE <<Repr>>],
   raw |-> FALSE]

Said(p) == [tag |-> NoTag, text |-> p, obj |-> None]
Held(tag, id) == [tag |-> tag, text |-> NoPiece, obj |-> id]

Left == Last(writing).left
Leaves(left) == [writing EXCEPT ![Len(writing)].left = left]
AllWritten ==
  /\ Left.attrs = {} /\ Left.content = <<>> /\ Left.value = <<>>
  /\ \A tag \in DOMAIN Left.fields : Left.fields[tag] = <<>>

(* A class writes its attributes, and its lists of children, in one order. *)
(* Which one makes no difference to what is read.                          *)
NextAttribute == CHOOSE a \in Left.attrs : TRUE
NextTag == CHOOSE tag \in DOMAIN Left.fields : Left.fields[tag] # <<>>

(* The attributes come first.                                              *)
WritesAttribute(a) ==
  /\ a \in Left.attrs /\ a = NextAttribute
  /\ writing' = Leaves([Left EXCEPT !.attrs = @ \ {a}])

(* Then the children of one list after the other, or what content_ has, in *)
(* its order; of that, simple elements are not quoted.                     *)
WritesElement(tag) ==
  /\ Left.attrs = {}
  /\ \/ /\ tag \in DOMAIN Left.fields /\ Left.fields[tag] # <<>> /\ tag = NextTag
        /\ LET kid == Head(Left.fields[tag])
           IN writing' = Append(Leaves([Left EXCEPT !.fields[tag] = Tail(@)]),
                                IF TitleOf(Left.cls, tag) THEN AsString(kid)
                                ELSE Exported(kid, FALSE))
     \/ /\ Left.content # <<>> /\ Head(Left.content).tag = tag
        /\ LET kid == Head(Left.content).obj
           IN writing' = Append(Leaves([Left EXCEPT !.content = Tail(@)]),
                                Exported(kid, heap[kid].cls = "Text"))

(* The text that comes next.                                               *)
NextText ==
  (IF Left.value # <<>> THEN {Head(Left.value)} ELSE {})
    \cup (IF Left.content # <<>> /\ Head(Left.content).tag = NoTag
          THEN {Head(Left.content).text} ELSE {})

(* Mutant: the text of an element is not quoted.                           *)
SpoilsAny(p) == p.kind = "special"

(* MixedContainer.export quotes neither text nor simple elements.          *)
Spoils(p) == p.kind = "special" /\ (Left.content # <<>> \/ Last(writing).raw)

WritesText(p) ==
  /\ Left.attrs = {} /\ p \in NextText /\ ~Spoils(p)
  /\ writing' = Leaves([Left EXCEPT !.value = IF @ = <<>> THEN @ ELSE Tail(@),
                                    !.content = IF @ = <<>> THEN @ ELSE Tail(@)])

-----------------------------------------------------------------------------
(* build.                                                                  *)

(* The next node: whatever doxygen has written, or what export writes.     *)
Node(written) ==
  \/ /\ phase = "reading" /\ nodes < Bound
     /\ nodes' = nodes + 1 /\ UNCHANGED writing
  \/ /\ phase = "rereading" /\ written
     /\ UNCHANGED nodes

NowTop(obj) == heap' = [heap EXCEPT ![Last(stack).obj] = obj]

(* buildAttributes, before any child.                                      *)
Attribute(a) ==
  /\ a \in Class.attrs \ Top.attrs
  /\ Top = [New(Top.cls) EXCEPT !.attrs = Top.attrs]
  /\ Node(WritesAttribute(a))
  /\ NowTop([Top EXCEPT !.attrs = @ \cup {a}])
  /\ UNCHANGED <<phase, stack, copyOf, shown, special>>

(* buildChildren, an element it knows: its object is built first.          *)
Element(tag) ==
  /\ tag \in DOMAIN Class.kids
  /\ Node(WritesElement(tag))
  /\ heap' = Append(heap, New(Class.kids[tag].cls))
  /\ stack' = Append(stack, Begun(tag, Len(heap) + 1, Within(Last(stack).place, tag)))
  /\ copyOf' = Append(copyOf, IF phase = "reading" THEN None ELSE Last(writing').of)
  /\ UNCHANGED <<phase, shown, special>>

(* One it does not know, with all that is in it.  There is none in a text. *)
Unknown ==
  /\ Top.cls # "Text"
  /\ Node(FALSE)
  /\ UNCHANGED <<phase, heap, stack, copyOf, shown, special>>

(* buildChildren, a text node: what the class takes of it.                 *)
Takes(obj, p) ==
  LET takes == Row[obj.cls].text
      in == takes \in {"content", "both"} /\ p.kind # "cdata"
      kept == IF obj.cls = "Text" /\ p.kind = "cdata" THEN [p EXCEPT !.kind = "plain"]
              ELSE p
  IN [obj EXCEPT !.content = IF in THEN Append(@, Said(p)) ELSE @,
                 !.value = IF takes \in {"value", "both"} THEN Append(@, kept) ELSE @]
Text(p) ==
  /\ Node(WritesText(p))
  /\ NowTop(Takes(Top, p))
  /\ shown' = IF Last(stack).place # Outside /\ p.kind # "cdata" THEN Append(shown, p)
              ELSE shown
  /\ special' = IF phase = "reading" /\ p.kind = "special"
                THEN special \cup {<<Top.cls, Last(stack).tag>>} ELSE special
  /\ UNCHANGED <<phase, stack, copyOf>>

(* The end of an element: its object goes where the class keeps it; of one *)
(* attribute, the last stays.                                              *)
Keeps(obj, tag, kid) ==
  LET how == Row[obj.cls].kids[tag].how
  IN IF how = "mixed" THEN [obj EXCEPT !.content = Append(@, Held(tag, kid))]
     ELSE [obj EXCEPT !.fields[tag] = IF how = "one" THEN <<kid>> ELSE Append(@, kid)]

EndElement ==
  /\ Len(stack) > 1
  /\ \/ phase = "reading" /\ UNCHANGED writing
     \/ phase = "rereading" /\ AllWritten /\ writing' = Front(writing)
  /\ LET ended == Last(stack)
         into == Last(Front(stack)).obj
     IN /\ heap' = [heap EXCEPT ![into] = Keeps(@, ended.tag, ended.obj)]
        /\ shown' = IF ended.place.in = "para" THEN Append(shown, Break) ELSE shown
  /\ stack' = Front(stack)
  /\ UNCHANGED <<phase, nodes, copyOf, special>>

EndDocument ==
  /\ Len(stack) = 1
  /\ \/ phase = "reading" /\ phase' = "read"
     \/ phase = "rereading" /\ AllWritten /\ phase' = "reread"
  /\ UNCHANGED <<heap, stack, nodes, writing, copyOf, shown, special>>

(* The object read is written, and what it writes is read by an object     *)
(* of its class.                                                           *)
Export ==
  /\ phase = "read" /\ phase' = "rereading"
  /\ writing' = <<Exported(1, FALSE)>>
  /\ heap' = Append(heap, New(heap[1].cls))
  /\ stack' = <<Begun(NoTag, Len(heap) + 1, Outside)>>
  /\ copyOf' = Append(copyOf, 1)
  /\ UNCHANGED <<nodes, shown, special>>

(* The parser stops at what is no XML.                                     *)
Malformed ==
  /\ phase = "rereading" /\ Left.attrs = {}
  /\ \E p \in NextText : Spoils(p)
  /\ phase' = "malformed"
  /\ UNCHANGED <<heap, stack, nodes, writing, copyOf, shown, special>>

Piece ==
  [n : {nodes + 1}, kind : IF phase = "reading" THEN Kinds ELSE {}]
    \cup (IF phase = "rereading" THEN NextText ELSE {})

Next ==
  \/ \E a \in Class.attrs : Attribute(a)
  \/ \E tag \in DOMAIN Class.kids : Element(tag)
  \/ Unknown
  \/ \E p \in Piece : Text(p)
  \/ EndElement \/ EndDocument \/ Export \/ Malformed
Spec == Init /\ [][Next]_vars

-----------------------------------------------------------------------------
(* text.py.                                                                *)

(* Mutant: the empty line is put before the paragraph.                     *)
BreaksFirst(item, bits) ==
  IF item.tag = NoTag THEN <<item.text>>
  ELSE (IF item.tag = "para" THEN <<Break>> ELSE <<>>) \o bits[item.obj]

Bit(item, bits) ==
  IF item.tag = NoTag THEN <<item.text>>
  ELSE bits[item.obj] \o (IF item.tag = "para" THEN <<Break>> ELSE <<>>)

description_bit[id \in DOMAIN heap] ==
  FlattenSeq([k \in DOMAIN heap[id].content |-> Bit(heap[id].content[k], description_bit)])

(* A docstring has all the text that stands where the schema has text, in  *)
(* the document's order and once, with an empty line after each paragraph, *)
(* and no other: not CDATA, not what is in an element the classes do not   *)
(* know, nor a parameter list.                                             *)
TextComesOut ==
  phase = "read" /\ PlaceOf(Root.cls) # Outside => description_bit[stack[1].obj] = shown

(* What is read of a title: nothing but that there was one, or was none.   *)
TitleRead(of) ==
  IF of = None THEN New("docTitleType")
  ELSE [New("docTitleType") EXCEPT !.content = <<Said(Repr)>>, !.value = <<Repr>>]

(* The object read in the place of a child, from what was written of it.   *)
KidIsCopy(cls, tag, kid, copy) ==
  IF TitleOf(cls, tag) THEN heap[copy] = TitleRead(kid) ELSE copyOf[copy] = kid

(* What reading and writing keeps: of a paragraph its text, of a compound  *)
(* not its title, of which it has one in any case, and of all else         *)
(* everything.                                                             *)
IsCopy(obj, copy) ==
  /\ copy.cls = obj.cls
  /\ copy.attrs = obj.attrs \cup Always(obj.cls)
  /\ copy.value = obj.value
  /\ IF obj.cls = "docParaType"
     THEN /\ copy.fields = New("docParaType").fields
          /\ \A k \in DOMAIN copy.content : copy.content[k].tag = NoTag
     ELSE /\ DOMAIN copy.fields = DOMAIN obj.fields
          /\ \A tag \in DOMAIN obj.fields :
               /\ Len(copy.fields[tag]) = Len(KidsOf(obj, tag))
               /\ \A k \in DOMAIN KidsOf(obj, tag) :
                    KidIsCopy(obj.cls, tag, KidsOf(obj, tag)[k], copy.fields[tag][k])
          /\ Len(copy.content) = Len(obj.content)
          /\ \A k \in DOMAIN obj.content :
               /\ copy.content[k].tag = obj.content[k].tag
               /\ copy.content[k].text = obj.content[k].text
               /\ obj.content[k].tag # NoTag => copyOf[copy.content[k].obj] = obj.content[k].obj

(* A document that is written and read again gives the same objects.       *)
RoundTrip ==
  phase = "reread" =>
    /\ copyOf[stack[1].obj] = 1
    /\ \A id \in DOMAIN heap :
         copyOf[id] \in DOMAIN heap => IsCopy(heap[copyOf[id]], heap[id])

(* What is written cannot be read again only if there is special text      *)
(* between elements, or in a simple element between such text.             *)
SpoiltOnlyBy ==
  phase = "malformed" =>
    \E at \in special :
      \/ Row[at[1]].text = "content"
      \/ at[1] = "Text" /\ at[2] \in {"name", "sp"}
=============================================================================
