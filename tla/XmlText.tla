------------------------------- MODULE XmlText -------------------------------
(***************************************************************************)
(* Reading and writing XML text with TinyXML (tinyxmlparser.cpp and        *)
(* tinyxml.cpp, the same files in server/ and in HMSyncPlatformServer/):   *)
(* TiXmlDocument::Parse, the two printers, and the entities.               *)
(*                                                                         *)
(* A text is a sequence of tokens that stand for pieces of it: the markup, *)
(* words, a piece of white space " ", and the entities.  A pointer p into  *)
(* the text is an index, Len(T) + 1 is the final null character and 0 is   *)
(* NULL.  Names and values are sequences of tokens too, so that words that *)
(* meet make one longer name.  A document is the sequence of its nodes.    *)
(* TIXML_USE_STL is not defined; white space is condensed (the default).   *)
(***************************************************************************)
EXTENDS Integers, Sequences, SequencesExt, FiniteSetsExt

CONSTANT Words      \* letters and digits that stand together

Fields == <<"version", "encoding", "standalone">>
Alpha == Words \cup ToSet(Fields)

Entities == [amp |-> "&", lt |-> "<", gt |-> ">", quot |-> "dq", apos |-> "sq"]
Specials == {Entities[e] : e \in DOMAIN Entities}

Element(name, attrs, kids) == [type |-> "element", value |-> name, attrs |-> attrs, kids |-> kids]
Leaf(type, value) == [type |-> type, value |-> value]
Declaration(fields) == [type |-> "declaration", value |-> <<>>, fields |-> fields]
IsElement(n) == n.type = "element"
IsText(n) == n.type \in {"text", "cdata"}

----------------------------------------------------------------------------
(* Characters. *)

At(T, p) == IF p \in DOMAIN T THEN T[p] ELSE "null"
AtEnd(T, p) == p \notin DOMAIN T                   \* !p || !*p

StringEqual(T, p, s) == p # 0 /\ SubSeq(T, p, Min({p + Len(s) - 1, Len(T)})) = s

(* The first place from p on where P holds, or the end of the text. *)
Seek(T, p, P(_)) == Min({q \in p..Len(T) : P(q)} \cup {Len(T) + 1})

SkipWhiteSpace(T, p) ==
  IF AtEnd(T, p) THEN 0 ELSE LET Ink(q) == T[q] # " " IN Seek(T, p, Ink)

(* EncodeString: a special character becomes its entity. *)
EncodeMarkup(s) ==
  [i \in DOMAIN s |-> IF s[i] \in Specials \ {"&"}
                      THEN CHOOSE e \in DOMAIN Entities : Entities[e] = s[i]
                      ELSE s[i]]
EncodeString(s) ==
  [i \in DOMAIN s |-> IF s[i] \in Specials
                      THEN CHOOSE e \in DOMAIN Entities : Entities[e] = s[i]
                      ELSE s[i]]

(* GetChar, GetEntity: an entity becomes its character, and an "&" that    *)
(* begins none is dropped.                                                 *)
GetChars(s) ==
  LET kept == SelectSeq(s, LAMBDA c : c # "&")
  IN [i \in DOMAIN kept |-> IF kept[i] \in DOMAIN Entities THEN Entities[kept[i]]
                            ELSE kept[i]]

(* What the condensing loop of ReadText makes of T[p..q - 1]: white space  *)
(* at the end goes, the rest of it becomes single blanks.                  *)
Condensed(T, p, q) ==
  LET Keep(i) == T[i] # " " \/ (i + 1 < q /\ T[i + 1] # " ")
      s[i \in p..q] == IF i = q THEN <<>>
                       ELSE IF Keep(i) THEN GetChars(<<T[i]>>) \o s[i + 1]
                       ELSE s[i + 1]
  IN s[p]

(* ReadText: the text up to endTag, and the pointer behind it, NULL when   *)
(* nothing follows.                                                        *)
ReadText(T, p, trim, endTag) ==
  LET Ends(q) == StringEqual(T, q, endTag)
      Upto(b, q) ==
        [text |-> IF trim THEN Condensed(T, b, q) ELSE GetChars(SubSeq(T, b, q - 1)),
         p |-> IF AtEnd(T, q) \/ AtEnd(T, q + Len(endTag)) THEN 0 ELSE q + Len(endTag)]
      From(b) == IF AtEnd(T, b) THEN [text |-> <<>>, p |-> 0] ELSE Upto(b, Seek(T, b, Ends))
  IN From(IF trim THEN SkipWhiteSpace(T, p) ELSE p)

(* ReadName: the words from p on. *)
ReadName(T, p) ==
  LET Other(q) == T[q] \notin Alpha
      Upto(q) == [name |-> SubSeq(T, p, q - 1), p |-> q]
  IN IF At(T, p) \notin Alpha THEN [name |-> <<>>, p |-> 0] ELSE Upto(Seek(T, p, Other))

----------------------------------------------------------------------------
(* The Parse functions.  Each returns the pointer it returns, what it      *)
(* read, and the document's error: the first one that was set.             *)

FirstError(err, id) == IF err = "" THEN id ELSE err

(* TiXmlAttribute::Parse, from a character p that is not white space: the  *)
(* name, the "=" and the value; doc tells whether there is a document to   *)
(* report an error to.                                                     *)
AttributeParse(T, p, err, doc) ==
  LET Reads(q, name, value) == [p |-> q, name |-> name, value |-> value, err |-> err]
      Fails(name, value) == [p |-> 0, name |-> name, value |-> value, err |->
                               IF doc THEN FirstError(err, "READING_ATTRIBUTES") ELSE err]
      Stops(q) == T[q] \in {" ", "/", ">", "sq", "dq"}
      Quoted(name, r) == Reads(r.p, name, r.text)
      Bare(name, v, q) == IF At(T, q) \in {"sq", "dq"} THEN Fails(name, SubSeq(T, v, q - 1))
                          ELSE Reads(q, name, SubSeq(T, v, q - 1))
      Value(name, v) == IF AtEnd(T, v) THEN Fails(name, <<>>)
                        ELSE IF T[v] \in {"sq", "dq"}
                             THEN Quoted(name, ReadText(T, v + 1, FALSE, <<T[v]>>))
                        ELSE Bare(name, v, Seek(T, v, Stops))
      Equals(name, q) == IF At(T, q) # "=" THEN Fails(name, <<>>)
                         ELSE Value(name, SkipWhiteSpace(T, q + 1))
      Named(n) == IF AtEnd(T, n.p) THEN Fails(n.name, <<>>)
                  ELSE Equals(n.name, SkipWhiteSpace(T, n.p))
  IN Named(ReadName(T, p))

Read(p, err, node) == [p |-> p, err |-> err, node |-> node]

(* TiXmlNode::Identify, of what begins at p with "<". *)
Identify(T, p) ==
  CASE At(T, p + 1) = "?xml"     -> "declaration"
    [] At(T, p + 1) = "!--"      -> "comment"
    [] At(T, p + 1) = "![CDATA[" -> "cdata"
    [] At(T, p + 1) \in Alpha    -> "element"
    [] OTHER                     -> "unknown"

UnknownParse(T, p, err) ==
  LET Ends(q) == T[q] = ">"
      Upto(q) == Read(IF AtEnd(T, q) THEN q ELSE q + 1, err,
                      Leaf("unknown", SubSeq(T, p + 1, q - 1)))
  IN Upto(Seek(T, p + 1, Ends))

CommentParse(T, p, err) ==
  LET Ends(q) == StringEqual(T, q, <<"--", ">">>)
      Upto(q) == Read(IF AtEnd(T, q) THEN q ELSE q + 2, err,
                      Leaf("comment", SubSeq(T, p + 2, q - 1)))
  IN Upto(Seek(T, p + 2, Ends))

(* TiXmlText::Parse, of a CDATA section and of plain text. *)
CdataParse(T, p, err) ==
  LET Ends(q) == StringEqual(T, q, <<"]]", ">">>)
      Upto(q) == Read(IF AtEnd(T, q) \/ AtEnd(T, q + 2) THEN 0 ELSE q + 2, err,
                      Leaf("cdata", SubSeq(T, p + 2, q - 1)))
  IN Upto(Seek(T, p + 2, Ends))

TextParse(T, p, err) ==
  LET Upto(r) == Read(IF r.p = 0 THEN 0 ELSE r.p - 1, err, Leaf("text", r.text))
  IN Upto(ReadText(T, p, TRUE, <<"<">>))

(* TiXmlDeclaration::Parse: the three fields, in any order; whatever else  *)
(* stands there is read over.                                              *)
RECURSIVE DeclarationParse(_, _, _, _)
DeclarationParse(T, p0, err, f) ==
  LET Stops(q) == T[q] \in {">", " "}
      Field(p, a) == DeclarationParse(T, a.p, err, [f EXCEPT ![T[p]] = a.value])
      From(p) == IF At(T, p) \in DOMAIN f THEN Field(p, AttributeParse(T, p, err, FALSE))
                 ELSE DeclarationParse(T, IF p = 0 THEN 0 ELSE Seek(T, p, Stops), err, f)
  IN IF AtEnd(T, p0) THEN Read(0, err, Declaration(f))
     ELSE IF T[p0] = ">" THEN Read(p0 + 1, err, Declaration(f))
     ELSE From(SkipWhiteSpace(T, p0))

NoFields == [x \in ToSet(Fields) |-> <<>>]

RECURSIVE ElementParse(_, _, _, _), ReadValue(_, _, _, _), NodeParse(_, _, _)

NodeParse(T, p, err) ==
  LET Named(n) ==
        IF AtEnd(T, n.p)
        THEN Read(0, FirstError(err, "FAILED_TO_READ_ELEMENT_NAME"), Element(n.name, <<>>, <<>>))
        ELSE ElementParse(T, n.p, err, Element(n.name, <<>>, <<>>))
      As(type) == CASE type = "declaration" -> DeclarationParse(T, p + 2, err, NoFields)
                    [] type = "comment"     -> CommentParse(T, p, err)
                    [] type = "cdata"       -> CdataParse(T, p, err)
                    [] type = "unknown"     -> UnknownParse(T, p, err)
                    [] type = "element"     -> Named(ReadName(T, p + 1))
  IN As(Identify(T, p))

(* The end of TiXmlElement::Parse, once ReadValue has stopped at v. *)
EndTagUnreported(T, v, node) ==
  LET endTag == <<"<", "/">> \o node.value
      p == SkipWhiteSpace(T, v.p + Len(endTag))
      e == [node EXCEPT !.kids = v.kids]
  IN IF AtEnd(T, v.p) THEN Read(0, v.err, e)
     ELSE IF StringEqual(T, v.p, endTag) /\ At(T, p) = ">" THEN Read(p + 1, v.err, e)
     ELSE Read(0, FirstError(v.err, "READING_END_TAG"), e)
EndTag(T, v, node) ==
  LET endTag == <<"<", "/">> \o node.value
      p == SkipWhiteSpace(T, v.p + Len(endTag))
      e == [node EXCEPT !.kids = v.kids]
  IN IF StringEqual(T, v.p, endTag) /\ At(T, p) = ">" THEN Read(p + 1, v.err, e)
     ELSE Read(0, FirstError(v.err, "READING_END_TAG"), e)

(* The loop of TiXmlElement::Parse: attributes, then the rest of the tag. *)
ElementParse(T, p0, err, node) ==
  LET Fails(e, id) == Read(0, FirstError(e, id), node)
      With(a) == IF AtEnd(T, a.p) \/ \E i \in DOMAIN node.attrs : node.attrs[i].name = a.name
                 THEN Fails(a.err, "PARSING_ELEMENT")
                 ELSE ElementParse(T, a.p, a.err, [node EXCEPT !.attrs =
                                      Append(@, [name |-> a.name, value |-> a.value])])
      From(p) == CASE At(T, p) = "null" -> Fails(err, "READING_ATTRIBUTES")
                   [] At(T, p) = "/"    -> IF At(T, p + 1) = ">" THEN Read(p + 2, err, node)
                                           ELSE Fails(err, "PARSING_EMPTY")
                   [] At(T, p) = ">"    -> EndTag(T, ReadValue(T, p + 1, err, <<>>), node)
                   [] OTHER             -> With(AttributeParse(T, p, err, TRUE))
  IN From(SkipWhiteSpace(T, p0))

Blank(n) == ToSet(n.value) \subseteq {" "}

(* TiXmlElement::ReadValue: text and nodes up to an end tag. *)
ReadValue(T, p0, err, kids) ==
  LET Stop(p, e) == [p |-> p, err |-> e, kids |-> kids]
      Link(n) == ReadValue(T, n.p, n.err, IF n.node.type = "text" /\ Blank(n.node)
                                          THEN kids ELSE Append(kids, n.node))
      From(p) == IF p = 0 THEN Stop(0, FirstError(err, "READING_ELEMENT_VALUE"))
                 ELSE IF AtEnd(T, p) \/ StringEqual(T, p, <<"<", "/">>) THEN Stop(p, err)
                 ELSE Link(IF T[p] = "<" THEN NodeParse(T, p, err) ELSE TextParse(T, p, err))
  IN From(SkipWhiteSpace(T, p0))

(* TiXmlDocument::Parse.  A text that does not begin with "<" ends it. *)
RECURSIVE DocumentParse(_, _, _, _)
DocumentParse(T, p0, err, nodes) ==
  LET Link(n) == DocumentParse(T, n.p, n.err, Append(nodes, n.node))
      From(p) ==
        IF At(T, p) = "<" THEN Link(NodeParse(T, p, err))
        ELSE [nodes |-> nodes,
              err |-> IF nodes = <<>> THEN FirstError(err, "DOCUMENT_EMPTY") ELSE err]
  IN From(SkipWhiteSpace(T, p0))

Parse(T) == DocumentParse(T, 1, "", <<>>)

----------------------------------------------------------------------------
(* The printers.  Line breaks and indentation are white space. *)

Indent(depth) == IF depth = 0 THEN <<>> ELSE <<" ">>

AttributePrint(a) ==
  LET quote == IF Contains(a.value, "dq") THEN <<"sq">> ELSE <<"dq">>
  IN EncodeString(a.name) \o <<"=">> \o quote \o EncodeString(a.value) \o quote

Tag(n) == <<"<">> \o n.value
            \o FlattenSeq([i \in DOMAIN n.attrs |-> <<" ">> \o AttributePrint(n.attrs[i])])
EndOf(n) == <<"<", "/">> \o n.value \o <<">">>

DeclarationPrint(n) ==
  LET Field(x) == IF n.fields[x] = <<>> THEN <<>>
                  ELSE <<x, "=", "dq">> \o n.fields[x] \o <<"dq", " ">>
  IN <<"<", "?xml", " ">> \o FlattenSeq([i \in DOMAIN Fields |-> Field(Fields[i])])
       \o <<"?", ">">>

LeafPrint(n) ==
  CASE n.type = "text"        -> EncodeString(n.value)
    [] n.type = "cdata"       -> <<"<", "![CDATA[">> \o n.value \o <<"]]", ">">>
    [] n.type = "comment"     -> <<"<", "!--">> \o n.value \o <<"--", ">">>
    [] n.type = "unknown"     -> <<"<">> \o n.value \o <<">">>
    [] n.type = "declaration" -> DeclarationPrint(n)

(* Print: an element without children in one tag, one that holds nothing   *)
(* but a text in one line, and otherwise a line for every child but texts. *)
RECURSIVE PrintNode(_, _)
PrintNode(n, depth) ==
  LET Child(k) == (IF IsText(k) THEN <<>> ELSE <<" ">>) \o PrintNode(k, depth + 1)
  IN IF n.type = "cdata" THEN <<" ">> \o Indent(depth) \o LeafPrint(n) \o <<" ">>
     ELSE IF n.type \in {"text", "declaration"} THEN LeafPrint(n)
     ELSE IF ~IsElement(n) THEN Indent(depth) \o LeafPrint(n)
     ELSE Indent(depth) \o Tag(n)
            \o IF n.kids = <<>> THEN <<" ", "/", ">">>
               ELSE IF Len(n.kids) = 1 /\ IsText(n.kids[1])
                    THEN <<">">> \o PrintNode(n.kids[1], depth + 1) \o EndOf(n)
               ELSE <<">">> \o FlattenSeq([i \in DOMAIN n.kids |-> Child(n.kids[i])])
                      \o <<" ">> \o Indent(depth) \o EndOf(n)

SaveFile(nodes) == FlattenSeq([i \in DOMAIN nodes |-> PrintNode(nodes[i], 0) \o <<" ">>])

(* TiXmlPrinter, visiting a node: a line for every node but the text of an *)
(* element that holds nothing else.                                        *)
RECURSIVE Accept(_, _)
Accept(n, depth) ==
  LET simpleTextPrint == Len(n.kids) = 1 /\ n.kids[1].type = "text"
  IN IF ~IsElement(n) THEN Indent(depth) \o LeafPrint(n) \o <<" ">>
     ELSE Indent(depth) \o Tag(n)
            \o IF n.kids = <<>> THEN <<" ", "/", ">", " ">>
               ELSE IF simpleTextPrint THEN <<">">> \o LeafPrint(n.kids[1]) \o EndOf(n) \o <<" ">>
               ELSE <<">", " ">>
                      \o FlattenSeq([i \in DOMAIN n.kids |-> Accept(n.kids[i], depth + 1)])
                      \o Indent(depth) \o EndOf(n) \o <<" ">>

Encoded(nodes) == FlattenSeq([i \in DOMAIN nodes |-> Accept(nodes[i], 0)])
=============================================================================
