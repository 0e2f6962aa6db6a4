------------------------------ MODULE MCGateway ------------------------------
(***************************************************************************)
(* Instances of Gateway for TLC: three providers that differ in the        *)
(* identifiers they send, and three documents.                             *)
(***************************************************************************)
EXTENDS Gateway

MCProviders == {[item |-> {"item", "call", "output"}, args |-> {"item", "output"}],
                [item |-> {"item", "call"}, args |-> {"item"}],
                [item |-> {"call", "output"}, args |-> {"output"}]}

Item(type, t) == [Msg(type) EXCEPT !.tool = t, !.item = TRUE, !.args = All, !.has = {"item", "call"}]
Document(items) == [type |-> "response", output |-> items, usage |-> TRUE]
MCBodies == {[Document(<<>>) EXCEPT !.type = "malformed"],
             Document(<<Item("reasoningDelta", 0), Item("textDelta", 0), Item("imageDone", 0)>>),
             Document(<<Item("itemDone", 1), Item("itemDone", 2)>>)}
=============================================================================
