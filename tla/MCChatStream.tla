---------------------------- MODULE MCChatStream ----------------------------
(* Small instances of ChatStream: the calls a model may ask for. *)
EXTENDS ChatStream, TLC

CONSTANTS search1, search2, search3, invented

\* One tool asked well, asked badly, with a category by its name, which is rewritten into the
\* bad one, and with a category nobody knows.
MCCalls == {search1, search2, search3, invented}
MCToolOf == [c \in MCCalls |-> "search_transactions"]
MCChecked ==
    search1 :> search1 @@ search2 :> search3 @@ search3 :> search3 @@ invented :> None
=============================================================================
