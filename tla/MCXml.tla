-------------------------------- MODULE MCXml --------------------------------
(* The links of a document and the messages share no state: one of the two *)
(* is checked from each initial state, and the other keeps its state.      *)
EXTENDS XmlDom, XmlMessage

VARIABLE part

Init == DomInit /\ MsgInit /\ part \in {"XmlDom", "XmlMessage"}

Next ==
  /\ UNCHANGED part
  /\ \/ part = "XmlDom" /\ DomNext /\ UNCHANGED mvars
     \/ part = "XmlMessage" /\ MsgNext /\ UNCHANGED d

Spec == Init /\ [][Next]_<<part, d, mvars>>

----------------------------------------------------------------------------
Texts2 == {<<"x">>, <<"&", " ", "<">>}
Attrs2 == {<<>>, <<" ", "dq", "x">>}
Leaves == {Leaf("comment", <<"<", "no">>), Leaf("comment", <<"no">>),
           Leaf("cdata", <<"<", "&", " ">>), Leaf("unknown", <<"!", "x">>)}
=============================================================================
