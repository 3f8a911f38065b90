--------------------------------- MODULE Codec ---------------------------------
(***************************************************************************)
(* What ddcp's messages look like in Cap'n Proto and how codec.rs writes   *)
(* and reads them.  A generated module of ddcp_capnp.rs stands for a       *)
(* schema: the size of its struct, the place of each field among the data  *)
(* words or the pointers, and the members of its union, whose discriminant *)
(* is in the first word.  Its accessors differ only in these.              *)
(*                                                                         *)
(* Cap'n Proto has no types on the wire: a reader finds what its own       *)
(* schema looks for, a zero or an empty value where the struct is shorter  *)
(* or the pointer is null.                                                 *)
(*                                                                         *)
(* Texts and blobs are sequences of bytes, numbers are words.              *)
(***************************************************************************)
EXTENDS Naturals, Sequences, SequencesExt

Bytes == Seq(Nat)

(* A value of a column is a record with the name of its type.  This version *)
(* of ddcp knows five; "later" is any other.                               *)
Values ==
    [is : {"null", "later"}]
        \cup [is : {"integer", "real"}, val : Nat]
        \cup [is : {"text", "blob"}, val : Bytes]

Changes ==
    [table : Bytes, pk : Bytes, cid : Bytes, val : Values,
     col_version : Nat, db_version : Nat, cl : Nat, seq : Nat]

Ok(v) == [ok |-> TRUE, val |-> v]
Error == [ok |-> FALSE]

(* The `?` of every field of a record: all of them, or an error.           *)
AllOk(results) ==
    IF \A f \in DOMAIN results : results[f].ok
    THEN Ok([f \in DOMAIN results |-> results[f].val])
    ELSE Error

-----------------------------------------------------------------------------
(* Structs and pointers.                                                   *)

Null == [kind |-> "null"]
BytesPointer(b) == [kind |-> "bytes", val |-> b]
TextPointer(t) == BytesPointer(Append(t, 0))
StructPointer(s) == [kind |-> "struct", val |-> s]
ListPointer(l) == [kind |-> "list", val |-> l]

GetBytes(p) ==
    CASE p.kind = "null"  -> Ok(<<>>)
      [] p.kind = "bytes" -> Ok(p.val)
      [] OTHER            -> Error

(* A text ends in a NUL, which is not part of it.                          *)
GetText(p) ==
    CASE p.kind = "null" -> Ok(<<>>)
      [] p.kind = "bytes" /\ p.val # <<>> /\ Last(p.val) = 0 -> Ok(Front(p.val))
      [] OTHER -> Error

GetStruct(p) ==
    CASE p.kind = "null"   -> Ok([data |-> <<>>, pointers |-> <<>>])
      [] p.kind = "struct" -> Ok(p.val)
      [] OTHER             -> Error

GetList(p) ==
    CASE p.kind = "null" -> Ok(<<>>)
      [] p.kind = "list" -> Ok(p.val)
      [] OTHER           -> Error

(* A new struct of a schema with some of its words and pointers set.       *)
Build(schema, words, pointers) ==
    LET slots(n, given, default) ==
            [i \in 1..n |->
                IF \E f \in DOMAIN given : schema.at[f] = i
                THEN given[CHOOSE f \in DOMAIN given : schema.at[f] = i]
                ELSE default]
    IN  [data |-> slots(schema.data, words, 0),
         pointers |-> slots(schema.pointers, pointers, Null)]

(* A member that the schema does not have is one that a later version of   *)
(* ddcp has added to the union.                                            *)
Discriminant(schema, member) ==
    IF Contains(schema.union, member)
    THEN (CHOOSE i \in DOMAIN schema.union : schema.union[i] = member) - 1
    ELSE Len(schema.union)

BuildUnion(schema, member, words, pointers) ==
    [Build(schema, words, pointers) EXCEPT
        !.data[1] = Discriminant(schema, member)]

Word(schema, s, field) ==
    IF schema.at[field] <= Len(s.data) THEN s.data[schema.at[field]] ELSE 0

Pointer(schema, s, field) ==
    IF schema.at[field] <= Len(s.pointers) THEN s.pointers[schema.at[field]] ELSE Null

Which(schema, s) ==
    LET d == IF s.data = <<>> THEN 0 ELSE s.data[1]
    IN  IF d < Len(schema.union) THEN schema.union[d + 1] ELSE "NotInSchema"

-----------------------------------------------------------------------------
(* The schemas.                                                            *)

envelope == [data |-> 0, pointers |-> 2, at |-> [sender |-> 1, contents |-> 2]]

request == [data |-> 1, pointers |-> 1, at |-> [changes |-> 1],
            union |-> <<"status", "changes">>]

changes_params == [data |-> 1, pointers |-> 0, at |-> [sinceVersion |-> 1]]

response == [data |-> 1, pointers |-> 1, at |-> [status |-> 1, changes |-> 1],
             union |-> <<"status", "changes">>]

changes_result == [data |-> 0, pointers |-> 2, at |-> [siteId |-> 1, changes |-> 2]]

d_b_status == [data |-> 1, pointers |-> 1, at |-> [siteId |-> 1, dbVersion |-> 1]]

node_status == [data |-> 0, pointers |-> 3, at |-> [db |-> 1, key |-> 2, route |-> 3]]

change == [data |-> 4, pointers |-> 5,
           at |-> [table |-> 1, pk |-> 2, cid |-> 3, val |-> 4, siteId |-> 5,
                   colVersion |-> 1, dbVersion |-> 2, cl |-> 3, seq |-> 4]]

change_value == [data |-> 2, pointers |-> 1,
                 at |-> [integer |-> 2, real |-> 2, text |-> 1, blob |-> 1],
                 union |-> <<"null", "integer", "real", "text", "blob">>]

-----------------------------------------------------------------------------
(* Requests.  A value of an enum is a record with the name of its variant. *)

EncodeRequest(r) ==
    BuildUnion(request, r.is, <<>>,
        IF r.is = "changes"
        THEN [changes |-> StructPointer(
                 Build(changes_params, [sinceVersion |-> r.since_db_version], <<>>))]
        ELSE <<>>)

(* Mutant of DecodeRequest: whatever is not a request for changes is taken *)
(* for one for the status.                                                 *)
DecodeRequestOrStatus(s) ==
    IF Which(request, s) = "changes"
    THEN LET p == GetStruct(Pointer(request, s, "changes"))
         IN  IF p.ok
             THEN Ok([is |-> "changes",
                      since_db_version |-> Word(changes_params, p.val, "sinceVersion")])
             ELSE Error
    ELSE Ok([is |-> "status"])

(* Mutant of DecodeRequest: the version is read from the request itself.   *)
DecodeRequestOwnWord(s) ==
    CASE Which(request, s) = "status"  -> Ok([is |-> "status"])
      [] Which(request, s) = "changes" ->
            Ok([is |-> "changes",
                since_db_version |-> Word(changes_params, s, "sinceVersion")])
      [] OTHER -> Error

DecodeRequest(s) ==
    LET which == Which(request, s)
        p == GetStruct(Pointer(request, s, "changes"))
    IN  CASE which = "status" -> Ok([is |-> "status"])
          [] which = "changes" /\ p.ok ->
                Ok([is |-> "changes",
                    since_db_version |-> Word(changes_params, p.val, "sinceVersion")])
          [] OTHER -> Error

-----------------------------------------------------------------------------
(* Changes and responses.                                                  *)

EncodeVal(v) ==
    BuildUnion(change_value, v.is,
        IF v.is \in {"integer", "real"} THEN [x \in {v.is} |-> v.val] ELSE <<>>,
        CASE v.is = "text" -> [text |-> TextPointer(v.val)]
          [] v.is = "blob" -> [blob |-> BytesPointer(v.val)]
          [] OTHER         -> <<>>)

DecodeVal(s) ==
    LET which == Which(change_value, s)
        of(result) == IF result.ok THEN Ok([is |-> which, val |-> result.val]) ELSE Error
    IN  CASE which = "null" -> Ok([is |-> "null"])
          [] which \in {"integer", "real"} -> of(Ok(Word(change_value, s, which)))
          [] which = "text" -> of(GetText(Pointer(change_value, s, "text")))
          [] which = "blob" -> of(GetBytes(Pointer(change_value, s, "blob")))
          [] OTHER -> Error

(* Mutant of EncodeChange: the causal length is left out.                  *)
EncodeChangeNoCl(c) ==
    Build(change,
        [colVersion |-> c.col_version, dbVersion |-> c.db_version, seq |-> c.seq],
        [table |-> TextPointer(c.table), pk |-> BytesPointer(c.pk),
         cid |-> TextPointer(c.cid), val |-> StructPointer(EncodeVal(c.val))])

EncodeChange(c) ==
    Build(change,
        [colVersion |-> c.col_version, dbVersion |-> c.db_version,
         cl |-> c.cl, seq |-> c.seq],
        [table |-> TextPointer(c.table), pk |-> BytesPointer(c.pk),
         cid |-> TextPointer(c.cid), val |-> StructPointer(EncodeVal(c.val))])

DecodeChange(s) ==
    LET val == GetStruct(Pointer(change, s, "val"))
    IN  AllOk([table |-> GetText(Pointer(change, s, "table")),
               pk |-> GetBytes(Pointer(change, s, "pk")),
               cid |-> GetText(Pointer(change, s, "cid")),
               val |-> IF val.ok THEN DecodeVal(val.val) ELSE Error,
               col_version |-> Ok(Word(change, s, "colVersion")),
               db_version |-> Ok(Word(change, s, "dbVersion")),
               cl |-> Ok(Word(change, s, "cl")),
               seq |-> Ok(Word(change, s, "seq"))])

EncodeStatus(site_id, db_version) ==
    Build(d_b_status, [dbVersion |-> db_version], [siteId |-> BytesPointer(site_id)])

EncodeResponse(r) ==
    BuildUnion(response, r.is, <<>>,
        CASE r.is = "changes" ->
                [changes |-> StructPointer(Build(changes_result, <<>>,
                    [siteId |-> BytesPointer(r.site_id),
                     changes |-> ListPointer(
                        [i \in DOMAIN r.changes |-> EncodeChange(r.changes[i])])]))]
          [] r.is = "status" ->
                [status |-> StructPointer(EncodeStatus(r.site_id, r.db_version))]
          [] OTHER -> <<>>)

(* The changes of a ChangesResult: an error in one of them is one in all.  *)
DecodeChanges(p) ==
    LET list == GetList(p)
    IN  IF list.ok
        THEN AllOk([i \in DOMAIN list.val |-> DecodeChange(list.val[i])])
        ELSE Error

DecodeResponse(s) ==
    LET which == Which(response, s)
        p == GetStruct(Pointer(response, s, which))
    IN  CASE which = "NotInSchema" -> Error
          [] which = "status" /\ p.ok ->
                AllOk([is |-> Ok("status"),
                       db_version |-> Ok(Word(d_b_status, p.val, "dbVersion")),
                       site_id |-> GetBytes(Pointer(d_b_status, p.val, "siteId"))])
          [] which = "changes" /\ p.ok ->
                AllOk([is |-> Ok("changes"),
                       site_id |-> GetBytes(Pointer(changes_result, p.val, "siteId")),
                       changes |-> DecodeChanges(Pointer(changes_result, p.val, "changes"))])
          [] OTHER -> Error

-----------------------------------------------------------------------------
(* Announcements and envelopes.                                            *)

EncodeNodeStatus(n) ==
    Build(node_status, <<>>,
        [db |-> StructPointer(EncodeStatus(n.site_id, n.db_version)),
         key |-> TextPointer(n.key), route |-> BytesPointer(n.route)])

DecodeNodeStatus(s) ==
    LET db == GetStruct(Pointer(node_status, s, "db"))
    IN  IF db.ok
        THEN AllOk([site_id |-> GetBytes(Pointer(d_b_status, db.val, "siteId")),
                    db_version |-> Ok(Word(d_b_status, db.val, "dbVersion")),
                    key |-> GetText(Pointer(node_status, s, "key")),
                    route |-> GetBytes(Pointer(node_status, s, "route"))])
        ELSE Error

EncodeEnvelope(e) ==
    Build(envelope, <<>>,
        [sender |-> TextPointer(e.sender), contents |-> BytesPointer(e.contents)])

DecodeEnvelope(s) ==
    AllOk([sender |-> GetText(Pointer(envelope, s, "sender")),
           contents |-> GetBytes(Pointer(envelope, s, "contents"))])
=============================================================================
