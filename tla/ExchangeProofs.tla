----------------------------- MODULE ExchangeProofs -----------------------------
(***************************************************************************)
(* What ddcp writes it reads back, for all texts, blobs, numbers and lists *)
(* of changes, and what it does not know it refuses.  From this, that one  *)
(* pull handles what was asked and merges what was answered.               *)
(***************************************************************************)
EXTENDS Exchange, SequenceTheorems, TLAPS

USE ChangesAssumption

-----------------------------------------------------------------------------
(* Pointers.                                                               *)

(* The NUL that a text is written with is the one that is read off.        *)
LEMMA TextRoundTrip ==
    ASSUME NEW S, NEW t \in Seq(S)
    PROVE  GetText(TextPointer(t)) = Ok(t)
<1> DEFINE a == Append(t, 0)
<1>1. /\ a \in Seq(S \cup {0}) /\ a # <<>> /\ Len(a) = Len(t) + 1
      /\ \A i \in 1..Len(t) : a[i] = t[i]
      /\ a[Len(t) + 1] = 0
  <2>1. t \in Seq(S \cup {0})
    BY SeqMonotonic
  <2> QED BY <2>1, AppendProperties
<1> HIDE DEF a
<1>2. Last(a) = 0
  BY <1>1, LenProperties DEF Last
<1>3. Front(a) = t
  BY <1>1, LenProperties DEF Front
<1> QED BY <1>1, <1>2, <1>3 DEF GetText, TextPointer, BytesPointer, a

(* The other pointers.                                                     *)
LEMMA PointersRoundTrip ==
    /\ \A b : GetBytes(BytesPointer(b)) = Ok(b)
    /\ \A s : GetStruct(StructPointer(s)) = Ok(s)
    /\ \A l : GetList(ListPointer(l)) = Ok(l)
BY DEF GetBytes, BytesPointer, GetStruct, StructPointer, GetList, ListPointer

-----------------------------------------------------------------------------
(* Structs.                                                                *)

(* A word that was set is found at its place, if no other has that place.  *)
LEMMA BuildWord ==
    ASSUME NEW schema, NEW words, NEW pointers, NEW f \in DOMAIN words,
           schema.data \in Nat, schema.at[f] \in 1..schema.data,
           \A g \in DOMAIN words : schema.at[g] = schema.at[f] => g = f
    PROVE  Word(schema, Build(schema, words, pointers), f) = words[f]
<1> DEFINE s == Build(schema, words, pointers)
<1>1. s.data = [i \in 1..schema.data |->
                   IF \E g \in DOMAIN words : schema.at[g] = i
                   THEN words[CHOOSE g \in DOMAIN words : schema.at[g] = i]
                   ELSE 0]
  BY DEF Build
<1>2. Len(s.data) = schema.data
  BY <1>1
<1>3. (CHOOSE g \in DOMAIN words : schema.at[g] = schema.at[f]) = f
  OBVIOUS
<1> QED BY <1>1, <1>2, <1>3 DEF Word

(* So is a pointer.                                                        *)
LEMMA BuildPointer ==
    ASSUME NEW schema, NEW words, NEW pointers, NEW f \in DOMAIN pointers,
           schema.pointers \in Nat, schema.at[f] \in 1..schema.pointers,
           \A g \in DOMAIN pointers : schema.at[g] = schema.at[f] => g = f
    PROVE  Pointer(schema, Build(schema, words, pointers), f) = pointers[f]
<1> DEFINE s == Build(schema, words, pointers)
<1>1. s.pointers = [i \in 1..schema.pointers |->
                       IF \E g \in DOMAIN pointers : schema.at[g] = i
                       THEN pointers[CHOOSE g \in DOMAIN pointers : schema.at[g] = i]
                       ELSE Null]
  BY DEF Build
<1>2. Len(s.pointers) = schema.pointers
  BY <1>1
<1>3. (CHOOSE g \in DOMAIN pointers : schema.at[g] = schema.at[f]) = f
  OBVIOUS
<1> QED BY <1>1, <1>2, <1>3 DEF Pointer

(* A member of a union is told from all others; the rest of the struct is  *)
(* as it was built.                                                        *)
LEMMA UnionRoundTrip ==
    ASSUME NEW schema, NEW member, NEW words, NEW pointers,
           schema.data \in Nat \ {0}, Len(schema.union) \in Nat,
           DOMAIN schema.union = 1..Len(schema.union),
           \A i, j \in 1..Len(schema.union) :
              schema.union[i] = schema.union[j] => i = j
    PROVE  LET s == BuildUnion(schema, member, words, pointers)
               b == Build(schema, words, pointers)
           IN  /\ Which(schema, s) = IF \E i \in 1..Len(schema.union) :
                                            schema.union[i] = member
                                     THEN member ELSE "NotInSchema"
               /\ \A f : Pointer(schema, s, f) = Pointer(schema, b, f)
               /\ \A f : schema.at[f] \in 2..schema.data =>
                            Word(schema, s, f) = Word(schema, b, f)
<1> DEFINE b == Build(schema, words, pointers)
           s == BuildUnion(schema, member, words, pointers)
           d == Discriminant(schema, member)
           isMember == \E i \in 1..Len(schema.union) : schema.union[i] = member
           slot(i) == IF \E g \in DOMAIN words : schema.at[g] = i
                      THEN words[CHOOSE g \in DOMAIN words : schema.at[g] = i]
                      ELSE 0
<1>1. b.data = [i \in 1..schema.data |-> slot(i)]
  BY DEF Build
<1>2. s.data = [b.data EXCEPT ![1] = d] /\ s.pointers = b.pointers
  <2>1. b = [data |-> b.data, pointers |-> b.pointers]
    BY DEF Build
  <2> HIDE DEF b
  <2> QED BY <2>1 DEF BuildUnion, b
<1> HIDE DEF slot, d, s, b
<1>3. /\ s.data[1] = d
      /\ s.data # <<>>
      /\ Len(s.data) = schema.data /\ Len(b.data) = schema.data
      /\ \A i \in 2..schema.data : s.data[i] = b.data[i]
  <2>1. s.data = [i \in 1..schema.data |-> IF i = 1 THEN d ELSE b.data[i]]
    BY <1>1, <1>2
  <2>2. Len(b.data) = schema.data
    BY <1>1
  <2> QED BY <2>1, <2>2
<1>4. Which(schema, s) = IF d < Len(schema.union) THEN schema.union[d + 1]
                         ELSE "NotInSchema"
  BY <1>3 DEF Which
<1>5. CASE isMember
  <2>1. PICK i \in 1..Len(schema.union) : schema.union[i] = member
    BY <1>5
  <2>2. d = i - 1
    BY <1>5, <2>1 DEF Discriminant, d, Contains
  <2> QED BY <1>2, <1>3, <1>4, <1>5, <2>1, <2>2 DEF Pointer, Word, s, b
<1>6. CASE ~isMember
  <2>1. d = Len(schema.union)
    BY <1>6 DEF Discriminant, d, Contains
  <2> QED BY <1>2, <1>3, <1>4, <1>6, <2>1 DEF Pointer, Word, s, b
<1> QED BY <1>5, <1>6

-----------------------------------------------------------------------------
(* Records of results.                                                     *)

(* All fields are read, or none is.                                        *)
LEMMA AllOkIs ==
    ASSUME NEW results, NEW r,
           r = [f \in DOMAIN results |-> r[f]],
           \A f \in DOMAIN results : results[f] = Ok(r[f])
    PROVE  AllOk(results) = Ok(r)
<1>1. \A f \in DOMAIN results : results[f].ok /\ results[f].val = r[f]
  BY DEF Ok
<1>2. [f \in DOMAIN results |-> results[f].val] = r
  BY <1>1
<1> QED BY <1>1, <1>2 DEF AllOk

(* One that is not read makes an error of the record.                      *)
LEMMA AllOkNot ==
    ASSUME NEW results, NEW f \in DOMAIN results, ~results[f].ok
    PROVE  AllOk(results) = Error
BY DEF AllOk

-----------------------------------------------------------------------------
(* Messages.                                                               *)

(* An envelope is read as it was written: the sender's text and contents.   *)
LEMMA EnvelopeRoundTrip ==
    ASSUME NEW S, NEW sender \in Seq(S), NEW contents
    PROVE  LET e == [sender |-> sender, contents |-> contents]
           IN  DecodeEnvelope(EncodeEnvelope(e)) = Ok(e)
<1> DEFINE e == [sender |-> sender, contents |-> contents]
           s == EncodeEnvelope(e)
           results == [sender |-> Ok(sender), contents |-> Ok(contents)]
<1>1. Pointer(envelope, s, "sender") = TextPointer(sender)
  BY BuildPointer DEF EncodeEnvelope, envelope
<1>2. Pointer(envelope, s, "contents") = BytesPointer(contents)
  BY BuildPointer DEF EncodeEnvelope, envelope
<1> HIDE DEF s
<1>3. DecodeEnvelope(s) = AllOk(results)
  BY <1>1, <1>2, TextRoundTrip, PointersRoundTrip DEF DecodeEnvelope
<1>4. e = [f \in DOMAIN results |-> e[f]]
  OBVIOUS
<1>5. \A f \in DOMAIN results : results[f] = Ok(e[f])
  OBVIOUS
<1> QED BY <1>3, <1>4, <1>5, AllOkIs DEF s

(* So are both fields of a DBStatus.                                       *)
LEMMA StatusRoundTrip ==
    ASSUME NEW a, NEW v
    PROVE  LET s == EncodeStatus(a, v)
           IN  /\ Word(d_b_status, s, "dbVersion") = v
               /\ GetBytes(Pointer(d_b_status, s, "siteId")) = Ok(a)
<1>1. Word(d_b_status, EncodeStatus(a, v), "dbVersion") = v
  BY BuildWord DEF EncodeStatus, d_b_status
<1>2. Pointer(d_b_status, EncodeStatus(a, v), "siteId") = BytesPointer(a)
  BY BuildPointer DEF EncodeStatus, d_b_status
<1> QED BY <1>1, <1>2, PointersRoundTrip

(* A request of this version is read as it was written, another is refused. *)
THEOREM RequestRoundTrip ==
    ASSUME NEW r \in Requests
    PROVE  DecodeRequest(EncodeRequest(r)) = IF r.is = "later" THEN Error ELSE Ok(r)
<1> DEFINE params == Build(changes_params, [sinceVersion |-> r.since_db_version], <<>>)
           pointers == IF r.is = "changes" THEN [changes |-> StructPointer(params)]
                       ELSE <<>>
           s == EncodeRequest(r)
           b == Build(request, <<>>, pointers)
           u == request.union
<1>1. /\ request.data = 1 /\ request.pointers = 1
      /\ request.at = [changes |-> 1]
      /\ u = <<"status", "changes">>
  BY DEF request
<1>2. s = BuildUnion(request, r.is, <<>>, pointers)
  BY DEF EncodeRequest
<1> HIDE DEF params, pointers, s, b, u
<1>3. /\ Len(u) = 2 /\ DOMAIN u = 1..2
      /\ \A i, j \in 1..2 : u[i] = u[j] => i = j
      /\ \A i \in 1..2 : u[i] \in {"status", "changes"}
      /\ \E i \in 1..2 : u[i] = "status"
      /\ \E i \in 1..2 : u[i] = "changes"
  BY <1>1
<1>4. /\ Which(request, s) = IF \E i \in 1..2 : u[i] = r.is THEN r.is ELSE "NotInSchema"
      /\ Pointer(request, s, "changes") = Pointer(request, b, "changes")
  BY <1>1, <1>2, <1>3, UnionRoundTrip DEF b, u
<1>5. r.is \in {"status", "changes", "later"}
  BY DEF Requests
<1>6. Which(request, s) = IF r.is = "later" THEN "NotInSchema" ELSE r.is
  BY <1>3, <1>4, <1>5
<1> SUFFICES DecodeRequest(s) = IF r.is = "later" THEN Error ELSE Ok(r)
  BY DEF s
<1>7. CASE r.is = "changes"
  <2>1. pointers = [changes |-> StructPointer(params)]
    BY <1>7 DEF pointers
  <2>2. Pointer(request, b, "changes") = StructPointer(params)
    BY <1>1, <2>1, BuildPointer DEF b
  <2>3. Word(changes_params, params, "sinceVersion") = r.since_db_version
    BY BuildWord DEF changes_params, params
  <2>4. r = [is |-> "changes", since_db_version |-> r.since_db_version]
    BY <1>7 DEF Requests
  <2> DEFINE p == GetStruct(Pointer(request, s, "changes"))
  <2>5. p.ok /\ p.val = params
    BY <1>4, <2>2, PointersRoundTrip DEF Ok
  <2> HIDE DEF p
  <2>6. DecodeRequest(s) = Ok([is |-> "changes", since_db_version |->
                                  Word(changes_params, p.val, "sinceVersion")])
    BY <1>6, <1>7, <2>5 DEF DecodeRequest, p
  <2> QED BY <1>7, <2>3, <2>4, <2>5, <2>6
<1>8. CASE r.is = "status"
  BY <1>6, <1>8 DEF DecodeRequest, Requests
<1>9. CASE r.is = "later"
  BY <1>6, <1>9 DEF DecodeRequest
<1> QED BY <1>5, <1>7, <1>8, <1>9

(* The value of a column is read as the value it was, of the same type.  A *)
(* type this version does not know is an error, never a value.             *)
LEMMA ValRoundTrip ==
    ASSUME NEW v \in Values
    PROVE  DecodeVal(EncodeVal(v)) = IF v.is = "later" THEN Error ELSE Ok(v)
<1> DEFINE words == IF v.is \in {"integer", "real"} THEN [x \in {v.is} |-> v.val]
                    ELSE <<>>
           pointers == CASE v.is = "text" -> [text |-> TextPointer(v.val)]
                         [] v.is = "blob" -> [blob |-> BytesPointer(v.val)]
                         [] OTHER         -> <<>>
           s == EncodeVal(v)
           b == Build(change_value, words, pointers)
           u == change_value.union
           types == {"null", "integer", "real", "text", "blob"}
<1>1. /\ change_value.data = 2 /\ change_value.pointers = 1
      /\ change_value.at = [integer |-> 2, real |-> 2, text |-> 1, blob |-> 1]
      /\ u = <<"null", "integer", "real", "text", "blob">>
  BY DEF change_value
<1>2. s = BuildUnion(change_value, v.is, words, pointers)
  BY DEF EncodeVal
<1> HIDE DEF words, pointers, s, b, u
<1>3. /\ Len(u) = 5 /\ DOMAIN u = 1..5
      /\ \A i, j \in 1..5 : u[i] = u[j] => i = j
      /\ \A i \in 1..5 : u[i] \in types
      /\ \A t \in types : \E i \in 1..5 : u[i] = t
  <2>1. /\ Len(u) = 5 /\ DOMAIN u = 1..5
        /\ u[1] = "null" /\ u[2] = "integer" /\ u[3] = "real" /\ u[4] = "text"
        /\ u[5] = "blob"
    BY <1>1
  <2> QED BY <2>1
<1>4. /\ Which(change_value, s) = IF \E i \in 1..5 : u[i] = v.is THEN v.is
                                  ELSE "NotInSchema"
      /\ \A f : Pointer(change_value, s, f) = Pointer(change_value, b, f)
      /\ \A f : change_value.at[f] = 2 =>
                   Word(change_value, s, f) = Word(change_value, b, f)
  <2>1. /\ change_value.data \in Nat \ {0} /\ Len(change_value.union) \in Nat
        /\ DOMAIN change_value.union = 1..Len(change_value.union)
        /\ \A i, j \in 1..Len(change_value.union) :
              change_value.union[i] = change_value.union[j] => i = j
    BY <1>1, <1>3 DEF u
  <2> DEFINE t == BuildUnion(change_value, v.is, words, pointers)
  <2>2. /\ Which(change_value, t) =
              IF \E i \in 1..Len(change_value.union) : change_value.union[i] = v.is
              THEN v.is ELSE "NotInSchema"
        /\ \A f : Pointer(change_value, t, f) = Pointer(change_value, b, f)
        /\ \A f : change_value.at[f] \in 2..change_value.data =>
                     Word(change_value, t, f) = Word(change_value, b, f)
    BY <2>1, UnionRoundTrip DEF b
  <2> HIDE DEF t
  <2>3. s = t
    BY <1>2 DEF t
  <2> QED BY <1>1, <1>3, <2>2, <2>3 DEF u
<1>5. v.is \in types \cup {"later"}
  BY DEF Values
<1>6. Which(change_value, s) = IF v.is = "later" THEN "NotInSchema" ELSE v.is
  BY <1>3, <1>4, <1>5
<1> SUFFICES DecodeVal(s) = IF v.is = "later" THEN Error ELSE Ok(v)
  BY DEF s
<1>7. CASE v.is \in {"integer", "real"}
  <2>1. words = [x \in {v.is} |-> v.val]
    BY <1>7 DEF words
  <2>2. change_value.at[v.is] = 2
    BY <1>1, <1>7
  <2>3. Word(change_value, b, v.is) = v.val
    BY <1>1, <2>1, <2>2, BuildWord DEF b
  <2>4. Word(change_value, s, v.is) = v.val
    BY <1>4, <2>2, <2>3
  <2>5. v = [is |-> v.is, val |-> v.val]
    BY <1>7 DEF Values
  <2>6. DecodeVal(s) = Ok([is |-> v.is, val |-> v.val])
    BY <1>6, <1>7, <2>4 DEF DecodeVal, Ok
  <2> QED BY <1>7, <2>5, <2>6
<1>8. CASE v.is = "text"
  <2>1. pointers = [text |-> TextPointer(v.val)]
    BY <1>8 DEF pointers
  <2>2. Pointer(change_value, s, "text") = TextPointer(v.val)
    BY <1>1, <1>4, <2>1, BuildPointer DEF b
  <2>3. v = [is |-> v.is, val |-> v.val] /\ v.val \in Seq(Nat)
    BY <1>8 DEF Values, Bytes
  <2>4. GetText(Pointer(change_value, s, "text")) = Ok(v.val)
    BY <2>2, <2>3, TextRoundTrip
  <2> DEFINE q == GetText(Pointer(change_value, s, "text"))
  <2>5. q.ok /\ q.val = v.val
    BY <2>4 DEF Ok
  <2> HIDE DEF q
  <2>6. DecodeVal(s) = IF q.ok THEN Ok([is |-> "text", val |-> q.val]) ELSE Error
    BY <1>6, <1>8 DEF DecodeVal, q
  <2> QED BY <1>8, <2>3, <2>5, <2>6
<1>9. CASE v.is = "blob"
  <2>1. pointers = [blob |-> BytesPointer(v.val)]
    BY <1>9 DEF pointers
  <2>2. Pointer(change_value, s, "blob") = BytesPointer(v.val)
    BY <1>1, <1>4, <2>1, BuildPointer DEF b
  <2>3. v = [is |-> v.is, val |-> v.val]
    BY <1>9 DEF Values
  <2>4. GetBytes(Pointer(change_value, s, "blob")) = Ok(v.val)
    BY <2>2, PointersRoundTrip
  <2> DEFINE q == GetBytes(Pointer(change_value, s, "blob"))
  <2>5. q.ok /\ q.val = v.val
    BY <2>4 DEF Ok
  <2> HIDE DEF q
  <2>6. DecodeVal(s) = IF q.ok THEN Ok([is |-> "blob", val |-> q.val]) ELSE Error
    BY <1>6, <1>9 DEF DecodeVal, q
  <2> QED BY <1>9, <2>3, <2>5, <2>6
<1>10. CASE v.is = "null"
  BY <1>6, <1>10 DEF DecodeVal, Values
<1>11. CASE v.is = "later"
  BY <1>6, <1>11 DEF DecodeVal
<1> QED BY <1>5, <1>7, <1>8, <1>9, <1>10, <1>11

(* A change is read field for field as it was written, or refused for the  *)
(* type of its value.                                                      *)
LEMMA ChangeRoundTrip ==
    ASSUME NEW c \in Changes
    PROVE  DecodeChange(EncodeChange(c)) = IF c.val.is = "later" THEN Error ELSE Ok(c)
<1> DEFINE words == [colVersion |-> c.col_version, dbVersion |-> c.db_version,
                     cl |-> c.cl, seq |-> c.seq]
           pointers == [table |-> TextPointer(c.table), pk |-> BytesPointer(c.pk),
                        cid |-> TextPointer(c.cid), val |-> StructPointer(EncodeVal(c.val))]
           s == EncodeChange(c)
<1>1. /\ c.table \in Seq(Nat) /\ c.cid \in Seq(Nat) /\ c.val \in Values
      /\ c = [table |-> c.table, pk |-> c.pk, cid |-> c.cid, val |-> c.val,
              col_version |-> c.col_version, db_version |-> c.db_version,
              cl |-> c.cl, seq |-> c.seq]
  BY DEF Changes, Bytes
<1>2. s = Build(change, words, pointers)
  BY DEF EncodeChange
<1>3. /\ DOMAIN words = {"colVersion", "dbVersion", "cl", "seq"}
      /\ DOMAIN pointers = {"table", "pk", "cid", "val"}
      /\ words["colVersion"] = c.col_version /\ words["dbVersion"] = c.db_version
      /\ words["cl"] = c.cl /\ words["seq"] = c.seq
      /\ pointers["table"] = TextPointer(c.table) /\ pointers["pk"] = BytesPointer(c.pk)
      /\ pointers["cid"] = TextPointer(c.cid)
      /\ pointers["val"] = StructPointer(EncodeVal(c.val))
  OBVIOUS
<1>4. /\ change.data = 4 /\ change.pointers = 5
      /\ change.at["table"] = 1 /\ change.at["pk"] = 2 /\ change.at["cid"] = 3
      /\ change.at["val"] = 4 /\ change.at["colVersion"] = 1
      /\ change.at["dbVersion"] = 2 /\ change.at["cl"] = 3 /\ change.at["seq"] = 4
  BY DEF change
<1> HIDE DEF words, pointers, s
<1>5. \A f \in DOMAIN words : Word(change, s, f) = words[f]
  <2> TAKE f \in DOMAIN words
  <2>1. /\ change.at[f] \in 1..change.data
        /\ \A g \in DOMAIN words : change.at[g] = change.at[f] => g = f
    BY <1>3, <1>4
  <2> QED BY <1>2, <1>4, <2>1, BuildWord
<1>6. \A f \in DOMAIN pointers : Pointer(change, s, f) = pointers[f]
  <2> TAKE f \in DOMAIN pointers
  <2>1. /\ change.at[f] \in 1..change.pointers
        /\ \A g \in DOMAIN pointers : change.at[g] = change.at[f] => g = f
    BY <1>3, <1>4
  <2> QED BY <1>2, <1>4, <2>1, BuildPointer
<1>7. /\ GetText(Pointer(change, s, "table")) = Ok(c.table)
      /\ GetBytes(Pointer(change, s, "pk")) = Ok(c.pk)
      /\ GetText(Pointer(change, s, "cid")) = Ok(c.cid)
      /\ GetStruct(Pointer(change, s, "val")) = Ok(EncodeVal(c.val))
  BY <1>1, <1>3, <1>6, TextRoundTrip, PointersRoundTrip
<1>8. /\ Word(change, s, "colVersion") = c.col_version
      /\ Word(change, s, "dbVersion") = c.db_version
      /\ Word(change, s, "cl") = c.cl
      /\ Word(change, s, "seq") = c.seq
  BY <1>3, <1>5
<1> DEFINE read == IF c.val.is = "later" THEN Error ELSE Ok(c.val)
           val == GetStruct(Pointer(change, s, "val"))
           results == [table |-> Ok(c.table), pk |-> Ok(c.pk), cid |-> Ok(c.cid),
                       val |-> read,
                       col_version |-> Ok(c.col_version), db_version |-> Ok(c.db_version),
                       cl |-> Ok(c.cl), seq |-> Ok(c.seq)]
<1>9. val.ok /\ DecodeVal(val.val) = read
  <2>1. val.ok /\ val.val = EncodeVal(c.val)
    BY <1>7 DEF Ok
  <2> QED BY <1>1, <2>1, ValRoundTrip
<1> HIDE DEF read, val
<1>10. DecodeChange(s) = AllOk(results)
  BY <1>7, <1>8, <1>9 DEF DecodeChange, val
<1>11. CASE c.val.is = "later"
  <2>1. "val" \in DOMAIN results /\ ~results["val"].ok
    BY <1>11 DEF read, Error
  <2> HIDE DEF results
  <2>2. AllOk(results) = Error
    BY <2>1, AllOkNot
  <2> QED BY <1>10, <1>11, <2>2 DEF s
<1>12. CASE c.val.is # "later"
  <2>1. read = Ok(c.val)
    BY <1>12 DEF read
  <2>2. c = [f \in DOMAIN results |-> c[f]]
    BY <1>1
  <2>3. \A f \in DOMAIN results : results[f] = Ok(c[f])
    BY <2>1
  <2>4. AllOk(results) = Ok(c)
    BY <2>2, <2>3, AllOkIs
  <2> QED BY <1>10, <1>12, <2>4 DEF s
<1> QED BY <1>11, <1>12

(* A list of changes is read change for change in its order; one of them   *)
(* refused, all are.                                                       *)
LEMMA ChangesRoundTrip ==
    ASSUME NEW l \in Seq(Changes)
    PROVE  DecodeChanges(ListPointer([i \in DOMAIN l |-> EncodeChange(l[i])])) =
              IF \E i \in DOMAIN l : l[i].val.is = "later" THEN Error ELSE Ok(l)
<1> DEFINE e == [i \in DOMAIN l |-> EncodeChange(l[i])]
           p == GetList(ListPointer(e))
           results == [i \in DOMAIN e |-> DecodeChange(e[i])]
<1>1. p.ok /\ p.val = e
  BY PointersRoundTrip DEF Ok
<1> HIDE DEF p
<1>2. DecodeChanges(ListPointer(e)) = AllOk(results)
  BY <1>1 DEF DecodeChanges, p
<1>3. /\ DOMAIN results = DOMAIN l
      /\ \A i \in DOMAIN l : l[i] \in Changes /\ results[i] = DecodeChange(EncodeChange(l[i]))
  BY ElementOfSeq
<1>4. l = [i \in DOMAIN l |-> l[i]]
  OBVIOUS
<1> HIDE DEF results
<1>5. CASE \E i \in DOMAIN l : l[i].val.is = "later"
  <2>1. PICK i \in DOMAIN l : l[i].val.is = "later"
    BY <1>5
  <2>2. results[i] = Error
    BY <1>3, <2>1, ChangeRoundTrip
  <2>3. ~results[i].ok
    BY <2>2 DEF Error
  <2>4. AllOk(results) = Error
    BY <1>3, <2>3, AllOkNot
  <2> QED BY <1>2, <1>5, <2>4
<1>6. CASE ~\E i \in DOMAIN l : l[i].val.is = "later"
  <2>1. \A i \in DOMAIN l : results[i] = Ok(l[i])
    BY <1>3, <1>6, ChangeRoundTrip
  <2>2. AllOk(results) = Ok(l)
    BY <1>3, <1>4, <2>1, AllOkIs
  <2> QED BY <1>2, <1>6, <2>2
<1> QED BY <1>5, <1>6

(* The responses of this version, and one of a later.                      *)
LEMMA ResponseKinds ==
    Responses \subseteq {[is |-> "later"]}
        \cup [is : {"status"}, site_id : Sites, db_version : Versions]
        \cup [is : {"changes"}, site_id : Sites, changes : ChangeLists]
BY DEF Responses, Answers

(* A response is read as it was written, or refused.                       *)
THEOREM ResponseRoundTrip ==
    ASSUME NEW r \in Responses
    PROVE  DecodeResponse(EncodeResponse(r)) = IF Native(r) THEN Ok(r) ELSE Error
<1> DEFINE encoded == [i \in DOMAIN r.changes |-> EncodeChange(r.changes[i])]
           result == Build(changes_result, <<>>, [siteId |-> BytesPointer(r.site_id),
                                                  changes |-> ListPointer(encoded)])
           db == EncodeStatus(r.site_id, r.db_version)
           pointers == CASE r.is = "changes" -> [changes |-> StructPointer(result)]
                         [] r.is = "status" -> [status |-> StructPointer(db)]
                         [] OTHER -> <<>>
           s == EncodeResponse(r)
           t == BuildUnion(response, r.is, <<>>, pointers)
           b == Build(response, <<>>, pointers)
           u == response.union
           p == GetStruct(Pointer(response, s, r.is))
<1>1. /\ response.data = 1 /\ response.pointers = 1
      /\ response.at = [status |-> 1, changes |-> 1]
      /\ u = <<"status", "changes">>
  BY DEF response
<1>2. s = t
  BY DEF EncodeResponse
<1> HIDE DEF result, db, pointers, s, u, p
<1>3. /\ Len(u) = 2 /\ DOMAIN u = 1..2
      /\ \A i, j \in 1..2 : u[i] = u[j] => i = j
      /\ \A i \in 1..2 : u[i] \in {"status", "changes"}
      /\ \E i \in 1..2 : u[i] = "status"
      /\ \E i \in 1..2 : u[i] = "changes"
  BY <1>1
<1>4. /\ Which(response, t) = IF \E i \in 1..2 : u[i] = r.is THEN r.is ELSE "NotInSchema"
      /\ \A f : Pointer(response, t, f) = Pointer(response, b, f)
  <2>1. /\ response.data \in Nat \ {0} /\ Len(response.union) \in Nat
        /\ DOMAIN response.union = 1..Len(response.union)
        /\ \A i, j \in 1..Len(response.union) :
              response.union[i] = response.union[j] => i = j
    BY <1>1, <1>3 DEF u
  <2>2. /\ Which(response, t) =
              IF \E i \in 1..Len(response.union) : response.union[i] = r.is
              THEN r.is ELSE "NotInSchema"
        /\ \A f : Pointer(response, t, f) = Pointer(response, b, f)
    BY <2>1, UnionRoundTrip DEF b
  <2> QED BY <1>3, <2>2 DEF u
<1> HIDE DEF t, b
<1>5. r.is \in {"status", "changes", "later"}
  BY ResponseKinds
<1>6. Which(response, s) = IF r.is = "later" THEN "NotInSchema" ELSE r.is
  BY <1>2, <1>3, <1>4, <1>5
<1> SUFFICES DecodeResponse(s) = IF Native(r) THEN Ok(r) ELSE Error
  BY DEF s
<1>7. CASE r.is = "changes"
  <2>1. pointers = [changes |-> StructPointer(result)]
    BY <1>7 DEF pointers
  <2>2. Pointer(response, b, "changes") = StructPointer(result)
    BY <1>1, <2>1, BuildPointer DEF b
  <2>3. p.ok /\ p.val = result
    BY <1>2, <1>4, <1>7, <2>2, PointersRoundTrip DEF p, Ok
  <2>4. /\ Pointer(changes_result, result, "siteId") = BytesPointer(r.site_id)
        /\ Pointer(changes_result, result, "changes") = ListPointer(encoded)
    BY BuildPointer DEF changes_result, result
  <2>5. r.changes \in Seq(Changes)
    BY <1>7, ResponseKinds
  <2> DEFINE foreign == \E i \in DOMAIN r.changes : r.changes[i].val.is = "later"
             read == IF foreign THEN Error ELSE Ok(r.changes)
             results == [is |-> Ok("changes"), site_id |-> Ok(r.site_id), changes |-> read]
  <2>6. DecodeChanges(ListPointer(encoded)) = read
    BY <2>5, ChangesRoundTrip
  <2>7. GetBytes(BytesPointer(r.site_id)) = Ok(r.site_id)
    BY PointersRoundTrip
  <2>8. Native(r) <=> ~foreign
    BY <1>7 DEF Native
  <2> HIDE DEF encoded, foreign
  <2>9. DecodeResponse(s) = AllOk(results)
    <3> HIDE DEF read
    <3> QED BY <1>6, <1>7, <2>3, <2>4, <2>6, <2>7 DEF DecodeResponse, p
  <2>10. CASE foreign
    <3>1. "changes" \in DOMAIN results /\ ~results["changes"].ok
      BY <2>10 DEF Error
    <3> HIDE DEF results
    <3>2. AllOk(results) = Error
      BY <3>1, AllOkNot
    <3> QED BY <2>8, <2>9, <2>10, <3>2
  <2>11. CASE ~foreign
    <3>1. r = [f \in DOMAIN results |-> r[f]]
      BY <1>7, ResponseKinds
    <3>2. \A f \in DOMAIN results : results[f] = Ok(r[f])
      BY <1>7, <2>11
    <3> HIDE DEF results
    <3>3. AllOk(results) = Ok(r)
      BY <3>1, <3>2, AllOkIs
    <3> QED BY <2>8, <2>9, <2>11, <3>3
  <2> QED BY <2>10, <2>11
<1>8. CASE r.is = "status"
  <2>1. pointers = [status |-> StructPointer(db)]
    BY <1>8 DEF pointers
  <2>2. Pointer(response, b, "status") = StructPointer(db)
    BY <1>1, <2>1, BuildPointer DEF b
  <2>3. p.ok /\ p.val = db
    BY <1>2, <1>4, <1>8, <2>2, PointersRoundTrip DEF p, Ok
  <2>4. /\ Word(d_b_status, db, "dbVersion") = r.db_version
        /\ GetBytes(Pointer(d_b_status, db, "siteId")) = Ok(r.site_id)
    BY StatusRoundTrip DEF db
  <2> DEFINE results == [is |-> Ok("status"), db_version |-> Ok(r.db_version),
                         site_id |-> Ok(r.site_id)]
  <2>5. DecodeResponse(s) = AllOk(results)
    BY <1>6, <1>8, <2>3, <2>4 DEF DecodeResponse, p
  <2>6. r = [f \in DOMAIN results |-> r[f]]
    BY <1>8, ResponseKinds
  <2>7. \A f \in DOMAIN results : results[f] = Ok(r[f])
    BY <1>8
  <2> HIDE DEF results
  <2>8. AllOk(results) = Ok(r)
    BY <2>6, <2>7, AllOkIs
  <2> QED BY <1>8, <2>5, <2>8 DEF Native
<1>9. CASE r.is = "later"
  BY <1>6, <1>9 DEF DecodeResponse, Native
<1> QED BY <1>5, <1>7, <1>8, <1>9

(* So is an announcement: the status, the key and the route.               *)
THEOREM NodeStatusRoundTrip ==
    ASSUME NEW S, NEW n, n.key \in Seq(S),
           n = [site_id |-> n.site_id, db_version |-> n.db_version, key |-> n.key,
                route |-> n.route]
    PROVE  DecodeNodeStatus(EncodeNodeStatus(n)) = Ok(n)
<1> DEFINE db == EncodeStatus(n.site_id, n.db_version)
           s == Build(node_status, <<>>,
                   [db |-> StructPointer(db), key |-> TextPointer(n.key),
                    route |-> BytesPointer(n.route)])
           p == GetStruct(Pointer(node_status, s, "db"))
           results == [site_id |-> Ok(n.site_id), db_version |-> Ok(n.db_version),
                       key |-> Ok(n.key), route |-> Ok(n.route)]
<1>1. EncodeNodeStatus(n) = s
  BY DEF EncodeNodeStatus
<1>2. /\ Pointer(node_status, s, "db") = StructPointer(db)
      /\ Pointer(node_status, s, "key") = TextPointer(n.key)
      /\ Pointer(node_status, s, "route") = BytesPointer(n.route)
  BY BuildPointer DEF node_status
<1> HIDE DEF s, p
<1>3. p.ok /\ p.val = db
  BY <1>2, PointersRoundTrip DEF p, Ok
<1>4. DecodeNodeStatus(s) = AllOk(results)
  BY <1>2, <1>3, TextRoundTrip, PointersRoundTrip, StatusRoundTrip DEF DecodeNodeStatus, p
<1>5. n = [f \in DOMAIN results |-> n[f]]
  OBVIOUS
<1>6. \A f \in DOMAIN results : results[f] = Ok(n[f])
  OBVIOUS
<1> HIDE DEF results
<1>7. AllOk(results) = Ok(n)
  BY <1>5, <1>6, AllOkIs
<1> QED BY <1>1, <1>4, <1>7

(* What is sealed at one end of a shared key opens at the other.           *)
LEMMA SealedOpens ==
    ASSUME NEW from, NEW crypto, NEW other, NEW nonce, NEW item,
           SharedKey(crypto) = SharedKey(other)
    PROVE  LET e == DecodeEnvelope(Sealed(from, crypto, nonce, item))
           IN  /\ e.ok /\ e.val.sender = DhtKey(from)
               /\ Open(other, e.val.contents) = Ok(item)
<1> DEFINE contents == Seal(crypto, nonce, item)
           e == DecodeEnvelope(Sealed(from, crypto, nonce, item))
<1>1. DhtKey(from) \in Seq({from})
  BY DEF DhtKey
<1>2. e = Ok([sender |-> DhtKey(from), contents |-> contents])
  <2> HIDE DEF contents
  <2>1. DecodeEnvelope(EncodeEnvelope([sender |-> DhtKey(from), contents |-> contents]))
          = Ok([sender |-> DhtKey(from), contents |-> contents])
    BY <1>1, EnvelopeRoundTrip
  <2> QED BY <2>1 DEF Sealed, contents
<1>3. Open(other, contents) = Ok(item)
  BY DEF Open, Seal
<1> HIDE DEF contents, e
<1>4. e.ok /\ e.val.sender = DhtKey(from) /\ e.val.contents = contents
  BY <1>2 DEF Ok
<1> QED BY <1>3, <1>4 DEF e

(* An envelope without contents is read, but nothing opens.                *)
LEMMA BareStaysShut ==
    ASSUME NEW from, NEW crypto
    PROVE  LET e == DecodeEnvelope(Bare(from))
           IN  /\ e.ok /\ e.val.sender = DhtKey(from)
               /\ ~Open(crypto, e.val.contents).ok
<1> DEFINE e == DecodeEnvelope(Bare(from))
           nothing == <<>>
<1>1. DhtKey(from) \in Seq({from})
  BY DEF DhtKey
<1>2. "nonce" \notin DOMAIN nothing
  OBVIOUS
<1> HIDE DEF nothing
<1>3. e = Ok([sender |-> DhtKey(from), contents |-> nothing])
  <2>1. DecodeEnvelope(EncodeEnvelope([sender |-> DhtKey(from), contents |-> nothing]))
          = Ok([sender |-> DhtKey(from), contents |-> nothing])
    BY <1>1, EnvelopeRoundTrip
  <2> QED BY <2>1 DEF Bare, nothing
<1> HIDE DEF e
<1>4. e.ok /\ e.val.sender = DhtKey(from) /\ e.val.contents = nothing
  BY <1>3 DEF Ok
<1>5. ~Open(crypto, nothing).ok
  BY <1>2 DEF Open
<1> QED BY <1>4, <1>5 DEF e
-----------------------------------------------------------------------------
(* The invariant.                                                          *)

(* The record holds the encoding of what the server announced, and the     *)
(* caller has read from it just that.                                      *)
Announced ==
    /\ pc # "announce" =>
          /\ record.made \in Announcements
          /\ record.value = EncodeNodeStatus(record.made)
    /\ status = IF pc \in {"announce", "refresh"} THEN None ELSE record.made

(* The message under way is the one the history has, sealed by its sender. *)
OnWire ==
    /\ pc \in {"announce", "refresh", "ask"} => asked = None /\ handled = None
    /\ pc = "handle" =>
          /\ asked \in Requests
          /\ \/ wire = Sealed(caller, CallerCrypto, "request", EncodeRequest(asked))
             \/ asked.is = "later" /\ wire = Bare(caller)
    /\ pc \in {"announce", "refresh", "ask", "handle"} => answered = None
    /\ pc = "receive" =>
          /\ handled \in Requests /\ answered \in Answers(handled)
          /\ \/ wire = Sealed(Server, ServerCrypto(caller), "answer",
                            EncodeResponse(answered))
             \/ answered.is = "later" /\ wire = Bare(Server)

(* The pull comes to nothing before its end, and what it refuses then is   *)
(* foreign or of another database.                                         *)
Refused ==
    /\ pc # "done" => outcome = None
    /\ outcome.is = "panic" => answered.is = "later"
    /\ outcome.is = "error" =>
          \/ answered.is # "changes"
          \/ answered.site_id # status.site_id
          \/ \E i \in DOMAIN answered.changes : answered.changes[i].val.is = "later"

IInv ==
    /\ TypeOK
    /\ Announced
    /\ OnWire
    /\ HandledAsAsked
    /\ MergedAsAnswered
    /\ Refused

(* The caller's key and the server's are those of each other, once the     *)
(* caller has read the announcement.                                       *)
LEMMA SameKey ==
    ASSUME Announced, pc \notin {"announce", "refresh"}
    PROVE  SharedKey(CallerCrypto) = SharedKey(ServerCrypto(caller))
<1>1. status.key = AuthKey(Server)
  BY DEF Announced, Announcements
<1> QED BY <1>1 DEF SharedKey, CallerCrypto, ServerCrypto

(* The announcement is read as it was made.                                *)
LEMMA AnnouncementRead ==
    ASSUME Announced, pc = "refresh"
    PROVE  DecodeNodeStatus(record.value) = Ok(record.made)
<1> DEFINE m == record.made
<1>1. m \in Announcements /\ record.value = EncodeNodeStatus(m)
  BY DEF Announced
<1> HIDE DEF m
<1>2. m.key = AuthKey(Server)
      /\ m = [site_id |-> m.site_id, db_version |-> m.db_version, key |-> m.key,
              route |-> m.route]
  BY <1>1 DEF Announcements
<1>3. m.key \in Seq({Server})
  BY <1>2 DEF AuthKey
<1>4. DecodeNodeStatus(EncodeNodeStatus(m)) = Ok(m)
  BY <1>2, <1>3, NodeStatusRoundTrip
<1> QED BY <1>1, <1>4 DEF m

(* The request is read as it was made, as the caller's and nobody else's.  *)
LEMMA RequestRead ==
    ASSUME Announced, OnWire, pc = "handle", NEW n
    PROVE  RequestFrom(n) = IF n = caller /\ n \in known /\ asked.is # "later"
                            THEN Ok(asked) ELSE Error
<1> DEFINE e == DecodeEnvelope(wire)
           plain == Open(ServerCrypto(caller), e.val.contents)
           item == EncodeRequest(asked)
<1>1. asked \in Requests
  BY DEF OnWire
<1>2. e.ok /\ e.val.sender = DhtKey(caller) /\ (plain.ok => plain = Ok(item))
      /\ (~plain.ok => asked.is = "later")
  <2>1. CASE wire = Sealed(caller, CallerCrypto, "request", item)
    <3> HIDE DEF item
    <3>1. e.ok /\ e.val.sender = DhtKey(caller) /\ plain = Ok(item)
      BY <2>1, SealedOpens, SameKey
    <3> HIDE DEF e, plain
    <3> QED BY <3>1 DEF Ok
  <2>2. CASE asked.is = "later" /\ wire = Bare(caller)
    BY <2>2, BareStaysShut
  <2> QED BY <2>1, <2>2 DEF OnWire
<1> HIDE DEF item
<1>3. DecodeRequest(item) = IF asked.is = "later" THEN Error ELSE Ok(asked)
  BY <1>1, RequestRoundTrip DEF item
<1> HIDE DEF e, plain
<1>4. plain.ok => plain.val = item
  BY <1>2 DEF Ok
<1>5. CASE n = caller
  BY <1>2, <1>3, <1>4, <1>5 DEF RequestFrom, e, plain
<1>6. CASE n # caller
  <2>1. DhtKey(caller) # DhtKey(n)
    BY <1>6 DEF DhtKey
  <2> QED BY <1>2, <1>6, <2>1 DEF RequestFrom, e
<1> QED BY <1>5, <1>6

(* The answer is read as it was made, or refused as foreign.               *)
LEMMA AnswerRead ==
    ASSUME Announced, OnWire, pc = "receive"
    PROVE  LET e == DecodeEnvelope(wire)
               plain == Open(CallerCrypto, e.val.contents)
           IN  /\ e.ok
               /\ ~plain.ok => answered.is = "later"
               /\ plain.ok => DecodeResponse(plain.val) =
                     IF Native(answered) THEN Ok(answered) ELSE Error
<1> DEFINE e == DecodeEnvelope(wire)
           plain == Open(CallerCrypto, e.val.contents)
           item == EncodeResponse(answered)
<1>1. answered \in Responses
  BY DEF OnWire, Responses
<1>2. e.ok /\ (plain.ok => plain = Ok(item)) /\ (~plain.ok => answered.is = "later")
  <2>1. CASE wire = Sealed(Server, ServerCrypto(caller), "answer", item)
    <3> HIDE DEF item
    <3>1. e.ok /\ plain = Ok(item)
      BY <2>1, SealedOpens, SameKey
    <3> HIDE DEF e, plain
    <3> QED BY <3>1 DEF Ok
  <2>2. CASE answered.is = "later" /\ wire = Bare(Server)
    BY <2>2, BareStaysShut
  <2> QED BY <2>1, <2>2 DEF OnWire
<1> HIDE DEF item
<1>3. DecodeResponse(item) = IF Native(answered) THEN Ok(answered) ELSE Error
  BY <1>1, ResponseRoundTrip DEF item
<1> HIDE DEF e, plain
<1>4. plain.ok => plain.val = item
  BY <1>2 DEF Ok
<1> QED BY <1>2, <1>3, <1>4 DEF e, plain

(* A response is merged if this version knows all of it and it comes from  *)
(* the database that was announced; only one of a later version panics.    *)
LEMMA Received ==
    ASSUME IInv, Receive
    PROVE  /\ answered \in Responses /\ status \in Announcements /\ outcome = None
           /\ Native(answered) /\ SameSite(answered) =>
                 outcome' = [is |-> "merged", resp |-> answered]
           /\ ~(Native(answered) /\ SameSite(answered)) =>
                 \/ outcome' = [is |-> "error"]
                 \/ outcome' = [is |-> "panic"] /\ answered.is = "later"
<1> DEFINE e == DecodeEnvelope(wire)
           plain == Open(CallerCrypto, e.val.contents)
           resp == DecodeResponse(plain.val)
<1>1. pc = "receive"
  BY DEF Receive
<1>2. outcome' =
         IF ~e.ok THEN [is |-> "error"]
         ELSE IF ~plain.ok
         THEN [is |-> IF "panic" \in DOMAIN plain THEN "panic" ELSE "error"]
         ELSE IF resp.ok /\ SameSite(resp.val)
         THEN [is |-> "merged", resp |-> resp.val]
         ELSE [is |-> "error"]
  BY DEF Receive
<1>3. /\ e.ok
      /\ ~plain.ok => answered.is = "later"
      /\ plain.ok => resp = IF Native(answered) THEN Ok(answered) ELSE Error
  BY <1>1, AnswerRead DEF IInv
<1> HIDE DEF e, plain, resp
<1>4. answered \in Responses /\ status \in Announcements /\ outcome = None
  BY <1>1 DEF IInv, OnWire, Announced, Refused, Responses
<1>5. CASE ~plain.ok
  <2>1. ~Native(answered)
    BY <1>3, <1>5 DEF Native
  <2>2. outcome' \in {[is |-> "error"], [is |-> "panic"]}
    BY <1>2, <1>3, <1>5
  <2> QED BY <1>3, <1>4, <1>5, <2>1, <2>2
<1>6. CASE plain.ok /\ ~Native(answered)
  BY <1>2, <1>3, <1>4, <1>6 DEF Error
<1>7. CASE plain.ok /\ Native(answered)
  BY <1>2, <1>3, <1>4, <1>7 DEF Ok
<1> QED BY <1>5, <1>6, <1>7

LEMMA Initially == Init => IInv
BY DEF Init, IInv, TypeOK, Announced, OnWire, HandledAsAsked, MergedAsAnswered, Refused,
       None, Requests

LEMMA Inductive == IInv /\ [Next]_vars => IInv'
<1> SUFFICES ASSUME IInv, [Next]_vars PROVE IInv'
  OBVIOUS
<1> USE DEF None
<1>1. CASE Announce
  BY <1>1 DEF Announce, IInv, TypeOK, Announced, OnWire, HandledAsAsked, MergedAsAnswered,
              Refused
<1>2. CASE Refresh
  <2>1. DecodeNodeStatus(record.value) = Ok(record.made)
    BY <1>2, AnnouncementRead DEF Refresh, IInv
  <2>2. status' = record.made /\ pc' = "ask" /\ outcome' = outcome
    BY <1>2, <2>1 DEF Refresh, Ok
  <2> QED BY <1>2, <2>2 DEF Refresh, IInv, TypeOK, Announced, OnWire, HandledAsAsked,
                            MergedAsAnswered, Refused
<1>3. CASE Ask
  <2>1. CallerCrypto' = CallerCrypto
    BY <1>3 DEF Ask, CallerCrypto
  <2>2. PICK r \in Requests :
           /\ asked' = r
           /\ \/ wire' = Sealed(caller, CallerCrypto, "request", EncodeRequest(r))
              \/ r.is = "later" /\ wire' = Bare(caller)
    BY <1>3 DEF Ask
  <2> QED BY <1>3, <2>1, <2>2 DEF Ask, IInv, TypeOK, Announced, OnWire, HandledAsAsked,
                                  MergedAsAnswered, Refused
<1>4. CASE Handle
  <2>1. PICK n \in remotes :
           /\ RequestFrom(n).ok
           /\ handled' = RequestFrom(n).val
           /\ \E a \in Answers(handled') :
                 /\ answered' = a
                 /\ \/ wire' = Sealed(Server, ServerCrypto(n), "answer", EncodeResponse(a))
                    \/ a.is = "later" /\ wire' = Bare(Server)
    BY <1>4 DEF Handle
  <2>2. pc = "handle" /\ asked \in Requests
    BY <1>4 DEF Handle, IInv, OnWire
  <2>3. RequestFrom(n) = IF n = caller /\ n \in known /\ asked.is # "later"
                         THEN Ok(asked) ELSE Error
    BY <2>2, RequestRead DEF IInv
  <2>4. n = caller /\ n \in known /\ asked.is # "later" /\ RequestFrom(n) = Ok(asked)
    BY <2>1, <2>3 DEF Error
  <2>5. handled' = asked
    BY <2>1, <2>4 DEF Ok
  <2>6. Answers(handled)' = Answers(handled')
    BY DEF Answers
  <2>7. ServerCrypto(caller)' = ServerCrypto(n)
    BY <1>4, <2>4 DEF Handle, ServerCrypto
  <2> QED BY <1>4, <2>1, <2>2, <2>4, <2>5, <2>6, <2>7
             DEF Handle, IInv, TypeOK, Announced, OnWire, HandledAsAsked,
                 MergedAsAnswered, Refused
<1>5. CASE TimeOut
  BY <1>5 DEF TimeOut, IInv, TypeOK, Announced, OnWire, HandledAsAsked, MergedAsAnswered,
              Refused
<1>6. CASE Receive
  <2>1. /\ pc = "receive" /\ pc' = "done"
        /\ UNCHANGED <<caller, remotes, known, record, status, wire, asked, handled, answered>>
    BY <1>6 DEF Receive
  <2>2. /\ Native(answered) /\ SameSite(answered) =>
              outcome' = [is |-> "merged", resp |-> answered]
        /\ ~(Native(answered) /\ SameSite(answered)) =>
              \/ outcome' = [is |-> "error"]
              \/ outcome' = [is |-> "panic"] /\ answered.is = "later"
    BY <1>6, Received
  <2>3. CASE Native(answered) /\ SameSite(answered)
    <3>1. /\ answered.is = "changes" /\ answered.site_id = record.made.site_id
          /\ \A i \in DOMAIN answered.changes : answered.changes[i].val.is # "later"
      BY <2>1, <2>3 DEF Native, SameSite, IInv, Announced
    <3> QED BY <2>1, <2>2, <2>3, <3>1
               DEF IInv, TypeOK, Announced, OnWire, HandledAsAsked, MergedAsAnswered,
                   Refused
  <2>4. CASE ~(Native(answered) /\ SameSite(answered))
    <3>1. \/ answered.is # "changes"
          \/ answered.site_id # status.site_id
          \/ \E i \in DOMAIN answered.changes : answered.changes[i].val.is = "later"
      BY <2>4 DEF Native, SameSite
    <3> QED BY <2>1, <2>2, <2>4, <3>1
               DEF IInv, TypeOK, Announced, OnWire, HandledAsAsked, MergedAsAnswered,
                   Refused
  <2> QED BY <2>3, <2>4
<1>7. CASE UNCHANGED vars
  BY <1>7 DEF vars, IInv, TypeOK, Announced, OnWire, HandledAsAsked, MergedAsAnswered,
              Refused, CallerCrypto, ServerCrypto, Answers
<1> QED BY <1>1, <1>2, <1>3, <1>4, <1>5, <1>6, <1>7 DEF Next

LEMMA Invariant == Spec => []IInv
BY Initially, Inductive, PTL DEF Spec

-----------------------------------------------------------------------------
(* The theorems.                                                           *)

(* A node's step is one of those of a pull, and its request one that a     *)
(* version of ddcp makes.                                                  *)
THEOREM TypeCorrect == Spec => []TypeOK
BY Invariant, PTL DEF IInv

(* lib.rs DDCP::handle_update: for all callers, remotes, site ids and      *)
(* versions, a request is handled as what it was made as, and only for a   *)
(* remote whose key the server has; one of a later version is not handled. *)
THEOREM Handled == Spec => []HandledAsAsked
<1>1. IInv => HandledAsAsked
  BY DEF IInv
<1> QED BY <1>1, Invariant, PTL

(* conclave.rs Conclave::changes and DDCP::pull_from: for all lists of     *)
(* changes, what is merged is the list that the server's database has      *)
(* returned, for the database it has announced, and holds no value that    *)
(* this version does not know.                                             *)
THEOREM Merged == Spec => []MergedAsAnswered
<1>1. IInv => MergedAsAnswered
  BY DEF IInv
<1> QED BY <1>1, Invariant, PTL

(* codec.rs and crypto.rs: an announcement is read as it was made; so is a *)
(* request of this version that reaches a server with the caller's key;    *)
(* an answer that arrives and is refused is of a later version or of       *)
(* another database, and one that makes the task panic of a later version. *)
(* A server without the caller's key refuses its requests (lib.rs,         *)
(* handle_update), and messages too large to be sent are not modelled.     *)
THEOREM ReadAsMade == Spec => []Understood
<1>1. IInv => Understood
  <2> SUFFICES ASSUME IInv PROVE Understood
    OBVIOUS
  <2>1. pc = "handle" /\ caller \in known /\ asked.is # "later" =>
           RequestFrom(caller) = Ok(asked)
    BY RequestRead DEF IInv
  <2> QED BY <2>1 DEF IInv, Announced, Refused, Understood
<1> QED BY <1>1, Invariant, PTL

-----------------------------------------------------------------------------
(* A pull is a call.                                                       *)

(* None is no announcement, request or response.                           *)
LEMMA NoneApart ==
    /\ None \notin Announcements
    /\ None \notin Requests
    /\ None \notin Responses
<1>1. None \notin Announcements
  <2> SUFFICES ASSUME NEW m \in Announcements PROVE m # None
    OBVIOUS
  <2>1. "key" \in DOMAIN m
    BY DEF Announcements
  <2>2. "key" \notin DOMAIN None
    BY DEF None
  <2> QED BY <2>1, <2>2
<1>2. \A r \in Requests : r.is # "none"
  BY DEF Requests
<1>3. \A r \in Responses : r.is # "none"
  BY ResponseKinds
<1> QED BY <1>1, <1>2, <1>3 DEF None

LEMMA InitRefines == Init => Promise!Init
BY DEF Init, Promise!Init, Promise!None, None

LEMMA StepRefines ==
    ASSUME IInv, [Next]_vars
    PROVE  [Promise!Next]_(Promise!vars)
<1> DEFINE shown == IF outcome.is = "panic" THEN [is |-> "error"] ELSE outcome
           announced == IF pc = "announce" THEN None ELSE record.made
           replies == UNION {{r} \X Answers(r) : r \in Requests}
           acceptable == {p \in Announcements \X Responses :
                             /\ Native(p[2]) /\ p[2].is = "changes"
                             /\ p[2].site_id = p[1].site_id}
<1> USE DEF IInv
<1>1. None = Promise!None /\ (outcome = None => shown = None)
  BY DEF None, Promise!None
<1>2. CASE Announce
  <2>1. PICK item \in Announcements :
           record' = [made |-> item, value |-> EncodeNodeStatus(item)]
    BY <1>2 DEF Announce
  <2>2. announced = None /\ announced' = item
    BY <1>2, <2>1 DEF Announce
  <2>3. Promise!Announce
    BY <1>1, <1>2, <2>2 DEF Announce, Promise!Announce
  <2> QED BY <2>3 DEF Promise!Next
<1>3. CASE Refresh
  <2>1. DecodeNodeStatus(record.value) = Ok(record.made)
    BY <1>3, AnnouncementRead DEF Refresh
  <2>2. status' = record.made /\ pc' = "ask" /\ outcome' = outcome
    BY <1>3, <2>1 DEF Refresh, Ok
  <2>3. announced # None /\ announced' = announced /\ status = None /\ status' = announced
    BY <1>3, <2>2, NoneApart DEF Refresh, Announced
  <2>4. Promise!Read
    BY <1>1, <1>3, <2>2, <2>3 DEF Refresh, Promise!Read
  <2> QED BY <2>4 DEF Promise!Next
<1>4. CASE Ask
  <2>1. status # None /\ asked = None /\ asked' \in Requests /\ announced' = announced
    BY <1>4, NoneApart DEF Ask, Announced, OnWire
  <2>2. Promise!Ask
    BY <1>1, <1>4, <2>1 DEF Ask, Promise!Ask
  <2> QED BY <2>2 DEF Promise!Next
<1>5. CASE Handle
  <2>1. PICK n \in remotes :
           /\ RequestFrom(n).ok
           /\ handled' = RequestFrom(n).val
           /\ \E a \in Answers(handled') : answered' = a
    BY <1>5 DEF Handle
  <2>2. pc = "handle" /\ asked \in Requests /\ answered = None /\ outcome = None
    BY <1>5 DEF Handle, OnWire, Refused
  <2>3. RequestFrom(n) = IF n = caller /\ n \in known /\ asked.is # "later"
                         THEN Ok(asked) ELSE Error
    BY <2>2, RequestRead
  <2>4. n = caller /\ n \in known /\ asked.is # "later" /\ handled' = asked
    <3>1. n = caller /\ n \in known /\ asked.is # "later" /\ RequestFrom(n) = Ok(asked)
      BY <2>1, <2>3 DEF Error
    <3> QED BY <2>1, <3>1 DEF Ok
  <2>5. <<asked, answered'>> \in replies
    BY <2>1, <2>2, <2>4
  <2>6. asked \in {r \in Requests : r.is # "later"}
    BY <2>2, <2>4
  <2>7. /\ announced' = announced
        /\ UNCHANGED <<caller, known, status, asked, outcome>>
    BY <1>5, <2>2 DEF Handle
  <2> HIDE DEF replies
  <2>8. shown = Promise!None /\ shown' = shown
    BY <1>1, <2>2, <2>7
  <2>9. Promise!Answer
    BY <1>1, <2>2, <2>4, <2>5, <2>6, <2>7, <2>8 DEF Promise!Answer, replies
  <2> QED BY <2>9 DEF Promise!Next
<1>6. CASE TimeOut
  <2>1. asked # None /\ outcome = None /\ announced' = announced
    BY <1>6, NoneApart DEF TimeOut, OnWire, Refused, HandledAsAsked
  <2>2. shown = Promise!None /\ shown' = [is |-> "timeout"]
    BY <1>1, <1>6, <2>1 DEF TimeOut
  <2>3. Promise!Lose
    BY <1>1, <1>6, <2>1, <2>2 DEF TimeOut, Promise!Lose
  <2> QED BY <2>3 DEF Promise!Next
<1>7. CASE Receive
  <2>1. /\ pc = "receive" /\ pc' = "done"
        /\ UNCHANGED <<caller, remotes, known, record, status, wire, asked, handled, answered>>
    BY <1>7 DEF Receive
  <2>2. /\ answered \in Responses /\ status \in Announcements /\ outcome = None
        /\ Native(answered) /\ SameSite(answered) =>
              outcome' = [is |-> "merged", resp |-> answered]
        /\ ~(Native(answered) /\ SameSite(answered)) =>
              \/ outcome' = [is |-> "error"]
              \/ outcome' = [is |-> "panic"] /\ answered.is = "later"
    BY <1>7, Received
  <2>3. answered # None /\ announced' = announced /\ shown = Promise!None
    BY <1>1, <2>1, <2>2, NoneApart
  <2>4. <<status, answered>> \in acceptable <=> Native(answered) /\ SameSite(answered)
    BY <2>2 DEF SameSite
  <2>5. /\ Native(answered) /\ SameSite(answered) =>
              shown' = [is |-> "merged", resp |-> answered]
        /\ ~(Native(answered) /\ SameSite(answered)) => shown' = [is |-> "error"]
    BY <2>2
  <2> HIDE DEF acceptable, shown
  <2>6. CASE Native(answered) /\ SameSite(answered)
    <3>1. Promise!Merge
      BY <1>1, <2>1, <2>3, <2>4, <2>5, <2>6 DEF Promise!Merge, acceptable, shown
    <3> QED BY <3>1 DEF Promise!Next
  <2>7. CASE ~(Native(answered) /\ SameSite(answered))
    <3>1. Promise!Refuse
      BY <1>1, <2>1, <2>3, <2>4, <2>5, <2>7 DEF Promise!Refuse, acceptable, shown
    <3> QED BY <3>1 DEF Promise!Next
  <2> QED BY <2>6, <2>7
<1>8. CASE UNCHANGED vars
  BY <1>8 DEF vars, Promise!vars
<1> QED BY <1>2, <1>3, <1>4, <1>5, <1>6, <1>7, <1>8 DEF Next

(* Encodings, keys and envelopes do not show: for all versions of ddcp,    *)
(* all requests and all databases, a pull is a call that may get lost but  *)
(* is not changed on its way.                                              *)
THEOREM Transparent == Spec => ImplementsCall
<1>1. IInv /\ [Next]_vars => [Promise!Next]_(Promise!vars)
  BY StepRefines
<1> QED BY <1>1, InitRefines, Invariant, PTL DEF Spec, ImplementsCall, Promise!Spec
=============================================================================
