------------------------------ MODULE XmlMessage ------------------------------
(***************************************************************************)
(* XML messages as HMSyncPlatformServer writes and reads them: the DMXml   *)
(* cursor of xml.cpp, the answers of SMUSync::PacketWebService and the     *)
(* requests of SMUSync::ParseWebService and ParseData.  A writer builds a  *)
(* document and writes it with one of the two printers, the text may be    *)
(* cut off or lose a token on its way, and a reader parses it and looks    *)
(* for the items.                                                          *)
(*                                                                         *)
(* A node is its path from the document: <<>> is the document itself.  An  *)
(* item has the two fields of FieldNames instead of the code's six.  A     *)
(* text value is not blank and has no white space at its ends or doubled,  *)
(* which reading would not keep.                                           *)
(***************************************************************************)
EXTENDS XmlText, FiniteSets

CONSTANTS TextValues,     \* values of text nodes
          AttrValues,     \* values of attributes
          LeafNodes,      \* comments, CDATA sections and unknown tags to place
          MaxBuilt,       \* bound on the nodes of a free document
          MaxItems,       \* bound on the items of a message
          MaxHarmed       \* bound on the tokens of a text that comes to harm

ASSUME MsgAssumption == {"a", "k", "sync", "item", "no", "op"} \subseteq Words

FieldNames == <<<<"no">>, <<"op">>>>
Null == <<0>>           \* no path

VARIABLES doc,      \* the writer's document: its nodes
          built,    \* how many nodes or items it has
          pnode,    \* m_pnode of the writer, then of the reader
          pre,      \* m_pre_pnode of the reader
          text,     \* the text in transit
          harm,     \* what happened to it: "none", "cut" or "drop"
          in,       \* what the reader parsed: nodes and err
          items,    \* data_vec: the items the reader took
          pc        \* "build", "text", "read", "scan", "done", "crashed"

mvars == <<doc, built, pnode, pre, text, harm, in, items, pc>>

MsgInit ==
  /\ doc = <<>> /\ built = 0 /\ pnode = Null /\ pre = Null /\ text = <<>> /\ harm = "none"
  /\ in = [nodes |-> <<>>, err |-> ""] /\ items = <<>> /\ pc = "build"

----------------------------------------------------------------------------
(* Paths. *)

RECURSIVE NodeAt(_, _), Amended(_, _, _)
NodeAt(nodes, path) ==
  IF Len(path) = 1 THEN nodes[path[1]] ELSE NodeAt(nodes[path[1]].kids, Tail(path))

(* nodes with the node at path replaced by n. *)
Amended(nodes, path, n) ==
  IF Len(path) = 1 THEN [nodes EXCEPT ![path[1]] = n]
  ELSE [nodes EXCEPT ![path[1]].kids = Amended(@, Tail(path), n)]

KidsAt(nodes, path) ==
  IF path = <<>> THEN nodes
  ELSE IF IsElement(NodeAt(nodes, path)) THEN NodeAt(nodes, path).kids ELSE <<>>

----------------------------------------------------------------------------
(* The writer. *)

WithKid(nodes, path, n) ==
  Amended(nodes, path, [NodeAt(nodes, path) EXCEPT !.kids = Append(@, n)])

NewRoot(name) ==
  /\ pc = "build" /\ doc = <<>>
  /\ doc' = <<Declaration([NoFields EXCEPT !["version"] = <<"x">>]),
              Element(name, <<>>, <<>>)>>
  /\ pnode' = <<2>>
  /\ UNCHANGED <<built, pre, text, harm, in, items, pc>>

(* The document of root element name is being built, and its bound allows  *)
(* another node or item.                                                   *)
Building(name, bound) == /\ pc = "build" /\ doc # <<>> /\ doc[2].value = name
                         /\ built < bound /\ built' = built + 1

(* NewChild: v is NoText for no text. *)
NoText == <<>>
NewElement(name, v) == Element(name, <<>>, IF v = NoText THEN <<>> ELSE <<Leaf("text", v)>>)
NewChild(name, v) ==
  /\ Building(<<"a">>, MaxBuilt)
  /\ doc' = WithKid(doc, pnode, NewElement(name, v))
  /\ pnode' = Append(pnode, Len(KidsAt(doc, pnode)) + 1)
  /\ UNCHANGED <<pre, text, harm, in, items, pc>>

(* A node of another type, linked with LinkEndChild. *)
NewLeaf(n) ==
  /\ Building(<<"a">>, MaxBuilt)
  /\ doc' = WithKid(doc, pnode, n)
  /\ UNCHANGED <<pnode, pre, text, harm, in, items, pc>>

SetTextAttribute(name, v) ==
  LET n == NodeAt(doc, pnode)
      at == SelectSeq(n.attrs, LAMBDA a : a.name # name)
  IN /\ Building(<<"a">>, MaxBuilt)
     /\ doc' = Amended(doc, pnode, [n EXCEPT !.attrs =
                          IF Len(at) = Len(@) THEN Append(@, [name |-> name, value |-> v])
                          ELSE [i \in DOMAIN @ |-> IF @[i].name # name THEN @[i]
                                                   ELSE [name |-> name, value |-> v]]])
     /\ UNCHANGED <<pnode, pre, text, harm, in, items, pc>>

BuilderUp ==
  /\ pc = "build" /\ Len(pnode) > 1 /\ pnode' = Front(pnode)
  /\ UNCHANGED <<doc, built, pre, text, harm, in, items, pc>>

(* One turn of the loop of PacketWebService: an item, its fields below it, *)
(* and back up.  Another program's message may lack fields, have an empty  *)
(* one, and hold other nodes.                                              *)
WriteItem(values, extra) ==
  LET field(i) == IF values[i] = "absent" THEN <<>>
                  ELSE <<NewElement(FieldNames[i],
                           IF values[i] = "empty" THEN NoText ELSE <<values[i]>>)>>
  IN /\ Building(<<"sync">>, MaxItems)
     /\ doc' = WithKid(doc, pnode, Element(<<"item">>, <<>>,
                    extra \o FlattenSeq([i \in DOMAIN FieldNames |-> field(i)])))
     /\ UNCHANGED <<pnode, pre, text, harm, in, items, pc>>

Send(T) ==
  /\ pc = "build" /\ doc # <<>> /\ pc' = "text" /\ text' = T
  /\ UNCHANGED <<doc, built, pnode, pre, harm, in, items>>

Encode == Send(Encoded(doc))
Save == Send(SaveFile(doc))

(* The connection, or whoever wrote the text. *)
Harm(how, T) ==
  /\ pc = "text" /\ harm = "none" /\ Len(text) <= MaxHarmed /\ harm' = how /\ text' = T
  /\ UNCHANGED <<doc, built, pnode, pre, in, items, pc>>

Cut(k) == Harm("cut", SubSeq(text, 1, k))
Lose(k) == Harm("drop", RemoveAt(text, k))

----------------------------------------------------------------------------
(* The reader. *)

Decode ==
  /\ pc = "text" /\ pc' = "read" /\ in' = Parse(text)
  /\ UNCHANGED <<doc, built, pnode, pre, text, harm, items>>

RootElement(nodes) ==
  LET r == {i \in DOMAIN nodes : IsElement(nodes[i])}
  IN IF r = {} THEN Null ELSE <<Min(r)>>

(* FirstChild and NextSibling with a name look at the value of every node, *)
(* whatever its type.                                                      *)
NextNamed(path, i, name) ==
  LET Of(ks) == LET found == {j \in i..Len(ks) : ks[j].value = name}
                IN IF found = {} THEN Null ELSE Append(path, Min(found))
  IN Of(KidsAt(in.nodes, path))

(* The cursor c holds m_pnode and m_pre_pnode. *)
FindElement(c, name) ==
  LET Found(p) == [p |-> p, pre |-> IF p = Null THEN c.pre ELSE p]
  IN IF c.p = Null THEN c ELSE Found(NextNamed(c.p, 1, name))

FindAllElement(c, name) ==
  IF c.p = Null THEN c ELSE [c EXCEPT !.p = NextNamed(Front(c.p), Last(c.p) + 1, name)]

GetParent(c) == [c EXCEPT !.p = Front(IF c.p = Null THEN c.pre ELSE c.p)]

NoString == <<"null">>

(* GetValueText copies the text of an element; without an element or       *)
(* without a text it copies from a null pointer.                           *)
GetText(path) ==
  LET Of(n) == IF ~IsElement(n) \/ n.kids = <<>> THEN NoString
               ELSE IF IsText(n.kids[1]) THEN n.kids[1].value ELSE NoString
  IN Of(NodeAt(in.nodes, path))

(* The fields of an item, as far as they are found from the cursor on.  A  *)
(* step for each: up from the last one, down to the next.                  *)
RECURSIVE ReadFields(_, _)
ReadFields(c, data) ==
  LET Is(how, f) == [how |-> how, data |-> data, c |-> f]
      Copied(f, t) == IF t = NoString THEN Is("crash", f) ELSE ReadFields(f, Append(data, t))
      Found(f) == IF f.p = Null THEN Is("lacks", f) ELSE Copied(f, GetText(f.p))
  IN IF Len(data) = Len(FieldNames) THEN Is("complete", c)
     ELSE Found(FindElement(IF data = <<>> THEN c ELSE GetParent(c),
                            FieldNames[Len(data) + 1]))

ParseDataStays(c) == ReadFields(c, <<>>)
ParseData(c) ==
  LET Up(r) == [r EXCEPT !.c = GetParent(@)] IN Up(ReadFields(c, <<>>))

(* The cursor c stands at an item, which is taken when it has its fields,  *)
(* or there is none and the reader has finished.                           *)
TakeItem(c) ==
  LET Took(r) == /\ pc' = (IF r.how = "crash" THEN "crashed" ELSE "scan")
                 /\ items' = IF r.how = "complete" THEN Append(items, r.data) ELSE items
                 /\ pnode' = r.c.p /\ pre' = r.c.pre
      Ended == pc' = "done" /\ UNCHANGED <<items, pnode, pre>>
  IN /\ IF c.p = Null THEN Ended ELSE Took(ParseData(c))
     /\ UNCHANGED <<doc, built, text, harm, in>>

FirstItem ==
  pc = "read" /\ TakeItem(FindElement([p |-> RootElement(in.nodes), pre |-> Null],
                                       <<"item">>))

NextItem ==
  pc = "scan" /\ TakeItem(FindAllElement([p |-> pnode, pre |-> pre], <<"item">>))

MsgNext ==
  \/ \E name \in {<<"a">>, <<"sync">>} : NewRoot(name)
  \/ \E v \in TextValues \cup {NoText} : NewChild(<<"a">>, v)
  \/ \E n \in LeafNodes : NewLeaf(n)
  \/ \E name \in {<<"k">>, <<"a">>}, v \in AttrValues : SetTextAttribute(name, v)
  \/ BuilderUp
  \/ \E values \in [DOMAIN FieldNames -> {"absent", "empty", "x", "k"}],
        extra \in {<<>>} \cup {<<n>> : n \in LeafNodes} : WriteItem(values, extra)
  \/ Encode \/ Save
  \/ \E k \in DOMAIN text : Cut(k - 1) \/ Lose(k)
  \/ Decode \/ FirstItem \/ NextItem

MsgSpec == MsgInit /\ [][MsgNext]_mvars

----------------------------------------------------------------------------
Rooted(d) == RootElement(d.nodes) # Null
Accepted == pc = "read" /\ in.err = "" /\ Rooted(in)

(* What is written is what is read: a document comes back unchanged from   *)
(* either printer, and a text from elsewhere that was parsed without error *)
(* is parsed to the same document after it has been written again          *)
(* (TiXmlDocument::SaveFile, TiXmlPrinter and TiXmlDocument::Parse).       *)
WrittenIsRead ==
  /\ pc = "read" /\ harm = "none" => in = [nodes |-> doc, err |-> ""]
  /\ Accepted => Parse(Encoded(in.nodes)) = in /\ Parse(SaveFile(in.nodes)) = in

(* A text that was cut off before its root element was complete is         *)
(* reported as an error, or leaves no root element for the caller to find  *)
(* (the null checks of TiXmlElement::Parse and ReadValue).                 *)
CutReported ==
  Accepted /\ harm = "cut" =>
    NodeAt(in.nodes, RootElement(in.nodes)) = NodeAt(doc, <<2>>)

(* The reader takes the complete items of the message, each once and in    *)
(* order; when all are complete it has taken all of them in the end        *)
(* (SMUSync::ParseData, the cursor of DMXml).                              *)
ItemData(n) ==
  LET fs == [i \in DOMAIN FieldNames |->
               {k \in ToSet(n.kids) : /\ IsElement(k) /\ k.value = FieldNames[i]
                                      /\ k.kids # <<>>}]
  IN IF \E i \in DOMAIN fs : Cardinality(fs[i]) # 1 THEN <<>>
     ELSE [i \in DOMAIN fs |-> (CHOOSE k \in fs[i] : TRUE).kids[1].value]

ItemsTaken ==
  harm = "none" /\ pc \in {"scan", "done"} /\ doc[2].value = <<"sync">> =>
    LET all == [i \in DOMAIN doc[2].kids |-> ItemData(doc[2].kids[i])]
        complete == SelectSeq(all, LAMBDA x : x # <<>>)
    IN /\ IsPrefix(items, complete)
       /\ pc = "done" /\ all = complete => items = all
=============================================================================
