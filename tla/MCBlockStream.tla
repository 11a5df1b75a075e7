---------------------------- MODULE MCBlockStream ----------------------------
(* Instances of BlockStream for TLC. *)
EXTENDS BlockStream

Whole(kind, content) ==
    [kind |-> kind, content |-> content, header |-> "whole", closed |-> TRUE]

Unclosed(kind, content) == [Whole(kind, content) EXCEPT !.closed = FALSE]

Unbracketed(kind, content) == [Whole(kind, content) EXCEPT !.header = "line"]

Good ==
    {Whole("text", <<"w">>), Whole("text", <<"nl", "w", "v">>), Whole("text", <<"[to", "w">>),
     Whole("call", <<"k: 1">>), Whole("call", <<"nl", "j: 2", "nl", "k: 1", "nl">>),
     Whole("schema", <<"k: 1">>), Whole("schema", <<"j: 2">>)}

Bad ==
    {Unclosed("text", <<"w">>), Unclosed("call", <<"k: 1">>),
     Unbracketed("call", <<"k: 1">>), Unbracketed("schema", <<"j: 2">>),
     Whole("call", <<"k: 1", "k: 1">>), Whole("call", <<"k: 1", "?">>),
     Whole("text", <<>>)}

Orphan == Whole("orphan", <<"w">>)

(* Text after a block that is not closed belongs to the block. *)
Upto(n, blocks) ==
    {d \in S!BoundedSeq(blocks, n) :
        \A i \in 2..Len(d) : d[i].kind = "orphan" => d[i - 1].closed}

Mixed == Upto(2, Good \cup Bad \cup {Orphan})
===============================================================================
