---------------------------- MODULE DoxyClasses ----------------------------
(***************************************************************************)
(* The classes of docs/doxygen/doxyxml/generated (compoundsuper.py,        *)
(* indexsuper.py, and docParaTypeSub of compound.py), a row for each: the  *)
(* attributes its buildAttributes keeps, the child elements its            *)
(* buildChildren knows, with their classes and with how they are kept, and *)
(* what it does with text.  They are the Row of DoxyXml.                   *)
(***************************************************************************)
EXTENDS TLC

NoKids == [t \in {} |-> {}]

Kids(classOf, how) == [t \in DOMAIN classOf |-> [cls |-> classOf[t], how |-> how]]

(* One attribute of the object for each element, or a list of them for     *)
(* each; or content_, a list with the elements and the text between them;  *)
(* or valueOf_, the text, with or without a content_ of it.                *)
Fields(attrs, one, many) ==
  [attrs |-> attrs, kids |-> Kids(one, "one") @@ Kids(many, "many"), text |-> "none"]
Mixed(attrs, kids) ==
  [attrs |-> attrs, kids |-> Kids(kids, "mixed"), text |-> "content"]
Value(attrs) == [attrs |-> attrs, kids |-> NoKids, text |-> "both"]
TextOnly(attrs) == [attrs |-> attrs, kids |-> NoKids, text |-> "value"]

-----------------------------------------------------------------------------
(* The classes.                                                            *)

IndexType == Fields({"version"}, NoKids, [compound |-> "CompoundType"])
CompoundType ==
  Fields({"kind", "refid"},
         [name |-> "Text"],
         [member |-> "MemberType"])
MemberType == Fields({"kind", "refid"}, [name |-> "Text"], NoKids)
DoxygenType == Fields({"version"}, [compounddef |-> "compounddefType"], NoKids)
compounddefType ==
  Fields({"kind", "prot", "id"},
         [compoundname |-> "Text", title |-> "docTitleType",
          incdepgraph |-> "graphType", invincdepgraph |-> "graphType",
          templateparamlist |-> "templateparamlistType",
          briefdescription |-> "descriptionType",
          detaileddescription |-> "descriptionType",
          inheritancegraph |-> "graphType", collaborationgraph |-> "graphType",
          programlisting |-> "listingType", location |-> "locationType",
          listofallmembers |-> "listofallmembersType"],
         [basecompoundref |-> "compoundRefType",
          derivedcompoundref |-> "compoundRefType", includes |-> "incType",
          includedby |-> "incType", innerdir |-> "refType",
          innerfile |-> "refType", innerclass |-> "refType",
          innernamespace |-> "refType", innerpage |-> "refType",
          innergroup |-> "refType", sectiondef |-> "sectiondefType"])
listofallmembersType == Fields({}, NoKids, [member |-> "memberRefType"])
memberRefType ==
  Fields({"virt", "prot", "refid", "ambiguityscope"},
         [scope |-> "Text", name |-> "Text"],
         NoKids)
compoundRefType == Value({"virt", "prot", "refid"})
reimplementType == Value({"refid"})
incType == Value({"local", "refid"})
refType == Value({"prot", "refid"})
sectiondefType ==
  Fields({"kind"},
         [header |-> "Text", description |-> "descriptionType"],
         [memberdef |-> "memberdefType"])
memberdefType ==
  Fields({"initonly", "kind", "volatile", "const", "raise", "virt",
          "readable", "prot", "explicit", "new", "final", "writable", "add",
          "static", "remove", "sealed", "mutable", "gettable", "inline",
          "settable", "id"},
         [templateparamlist |-> "templateparamlistType",
          type |-> "linkedTextType", definition |-> "Text",
          argsstring |-> "Text", name |-> "Text", read |-> "Text",
          write |-> "Text", bitfield |-> "Text",
          initializer |-> "linkedTextType", exceptions |-> "linkedTextType",
          briefdescription |-> "descriptionType",
          detaileddescription |-> "descriptionType",
          inbodydescription |-> "descriptionType", location |-> "locationType"],
         [reimplements |-> "reimplementType",
          reimplementedby |-> "reimplementType", param |-> "paramType",
          enumvalue |-> "enumvalueType", references |-> "referenceType",
          referencedby |-> "referenceType"])
descriptionType ==
  Mixed({},
        [title |-> "docTitleType", para |-> "docParaType",
         sect1 |-> "docSect1Type", internal |-> "docInternalType"])
enumvalueType ==
  Mixed({"prot", "id"},
        [name |-> "Text", initializer |-> "linkedTextType",
         briefdescription |-> "descriptionType",
         detaileddescription |-> "descriptionType"])
templateparamlistType == Fields({}, NoKids, [param |-> "paramType"])
paramType ==
  Fields({},
         [type |-> "linkedTextType", declname |-> "Text", defname |-> "Text",
          array |-> "Text", defval |-> "linkedTextType",
          briefdescription |-> "descriptionType"],
         NoKids)
linkedTextType == Mixed({}, [ref |-> "docRefTextType"])
graphType == Fields({}, NoKids, [node |-> "nodeType"])
nodeType ==
  Fields({"id"},
         [label |-> "Text", link |-> "linkType"],
         [childnode |-> "childnodeType"])
childnodeType == Fields({"relation", "refid"}, NoKids, [edgelabel |-> "Text"])
linkType == TextOnly({"refid", "external"})
listingType == Fields({}, NoKids, [codeline |-> "codelineType"])
codelineType ==
  Fields({"external", "lineno", "refkind", "refid"},
         NoKids,
         [highlight |-> "highlightType"])
highlightType == Mixed({"class"}, [sp |-> "Text", ref |-> "docRefTextType"])
referenceType == Value({"endline", "startline", "refid", "compoundref"})
locationType == TextOnly({"bodystart", "line", "bodyend", "bodyfile", "file"})
docSect1Type ==
  Mixed({"id"},
        [title |-> "docTitleType", para |-> "docParaType",
         sect2 |-> "docSect2Type", internal |-> "docInternalS1Type"])
docSect2Type ==
  Mixed({"id"},
        [title |-> "docTitleType", para |-> "docParaType",
         sect3 |-> "docSect3Type", internal |-> "docInternalS2Type"])
docSect3Type ==
  Mixed({"id"},
        [title |-> "docTitleType", para |-> "docParaType",
         sect4 |-> "docSect4Type", internal |-> "docInternalS3Type"])
docSect4Type ==
  Mixed({"id"},
        [title |-> "docTitleType", para |-> "docParaType",
         internal |-> "docInternalS4Type"])
docInternalType ==
  Mixed({},
        [para |-> "docParaType", sect1 |-> "docSect1Type"])
docInternalS1Type ==
  Mixed({},
        [para |-> "docParaType", sect2 |-> "docSect2Type"])
docInternalS2Type ==
  Mixed({},
        [para |-> "docParaType", sect3 |-> "docSect3Type"])
docInternalS3Type ==
  Mixed({},
        [para |-> "docParaType", sect3 |-> "docSect4Type"])
docInternalS4Type == Mixed({}, [para |-> "docParaType"])
docTitleType == Value({})
docParaType == Value({})
docSimpleSectType ==
  Fields({"kind"},
         [title |-> "docTitleType"],
         [para |-> "docParaType"])
docRefTextType == Value({"refid", "kindref", "external"})
docParamListType ==
  Fields({"kind"},
         NoKids,
         [parameteritem |-> "docParamListItem"])
docParamListItem ==
  Fields({},
         [parameterdescription |-> "descriptionType"],
         [parameternamelist |-> "docParamNameList"])
docParamNameList == Fields({}, NoKids, [parametername |-> "docParamName"])
docParamName == Mixed({"direction"}, [ref |-> "docRefTextType"])

(* A paragraph lists its text and its references in content, and the lists *)
(* of parameters and the sections like "Note:" each apart.                 *)
docParaTypeSub ==
  [docParaType EXCEPT !.kids =
     Kids([ref |-> "docRefTextType"], "mixed")
       @@ Kids([parameterlist |-> "docParamListType",
                simplesect |-> "docSimpleSectType"], "many")]

(* The class of each name, as its factory() has it.                        *)
Classes ==
  [Text |-> TextOnly({}), docParaType |-> docParaTypeSub,
   IndexType |-> IndexType, CompoundType |-> CompoundType,
   MemberType |-> MemberType, DoxygenType |-> DoxygenType,
   compounddefType |-> compounddefType,
   listofallmembersType |-> listofallmembersType,
   memberRefType |-> memberRefType, compoundRefType |-> compoundRefType,
   reimplementType |-> reimplementType, incType |-> incType,
   refType |-> refType, sectiondefType |-> sectiondefType,
   memberdefType |-> memberdefType, descriptionType |-> descriptionType,
   enumvalueType |-> enumvalueType,
   templateparamlistType |-> templateparamlistType, paramType |-> paramType,
   linkedTextType |-> linkedTextType, graphType |-> graphType,
   nodeType |-> nodeType, childnodeType |-> childnodeType,
   linkType |-> linkType, listingType |-> listingType,
   codelineType |-> codelineType, highlightType |-> highlightType,
   referenceType |-> referenceType, locationType |-> locationType,
   docSect1Type |-> docSect1Type, docSect2Type |-> docSect2Type,
   docSect3Type |-> docSect3Type, docSect4Type |-> docSect4Type,
   docInternalType |-> docInternalType,
   docInternalS1Type |-> docInternalS1Type,
   docInternalS2Type |-> docInternalS2Type,
   docInternalS3Type |-> docInternalS3Type,
   docInternalS4Type |-> docInternalS4Type, docTitleType |-> docTitleType,
   docSimpleSectType |-> docSimpleSectType, docRefTextType |-> docRefTextType,
   docParamListType |-> docParamListType,
   docParamListItem |-> docParamListItem,
   docParamNameList |-> docParamNameList, docParamName |-> docParamName]
=============================================================================
