------------------------------- MODULE MCExchange -------------------------------
(***************************************************************************)
(* Small values for Exchange: every kind of value, texts and blobs empty   *)
(* and not, and changes whose fields all differ, so that a field read from *)
(* another's place shows.                                                  *)
(***************************************************************************)
EXTENDS Exchange

MCSites == {<<>>, <<7>>, <<7, 0>>}

Vals ==
    {[is |-> "null"], [is |-> "later"]}
        \cup [is : {"integer", "real"}, val : {0, 5}]
        \cup [is : {"text", "blob"}, val : {<<>>, <<6>>}]

Full(v) ==
    [table |-> <<1>>, pk |-> <<2, 0>>, cid |-> <<3>>, val |-> v,
     col_version |-> 1, db_version |-> 2, cl |-> 3, seq |-> 4]

Blank ==
    [table |-> <<>>, pk |-> <<>>, cid |-> <<>>, val |-> [is |-> "null"],
     col_version |-> 0, db_version |-> 0, cl |-> 0, seq |-> 0]

MCChangeLists ==
    {<<>>, <<Blank>>} \cup {<<Full(v)>> : v \in Vals} \cup {<<Blank, Full(v)>> : v \in Vals}
=============================================================================
