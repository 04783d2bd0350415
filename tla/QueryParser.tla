---------------------------- MODULE QueryParser ----------------------------
(***************************************************************************)
(* What the parser (parser/parser.go) makes of a query.                    *)
(*                                                                         *)
(* A query is a comment and words.  The comment is the sequence of its     *)
(* fields (the empty one also stands for no comment); the words are the    *)
(* keywords the parser looks for, with everything between two of them as   *)
(* one word.  A field stands for a value above zero, and a comment that is *)
(* no hint stays in the query the backend gets.                            *)
(***************************************************************************)
EXTENDS Naturals, Sequences, Functions

Keywords == {"SELECT", "INSERT", "UPDATE", "DELETE"}

\* hintRegex: every field is optional, their order is fixed.
HintFields == <<"ttl", "file", "line", "batch">>

Place(field) == CHOOSE i \in DOMAIN HintFields : HintFields[i] = field

IsHint(comment) ==
  /\ Range(comment) \subseteq Range(HintFields)
  /\ \A i, j \in DOMAIN comment : i < j => Place(comment[i]) < Place(comment[j])

\* queryTypeRegex: the first keyword, wherever it stands.
Type(words) ==
  LET found == {i \in DOMAIN words : words[i] \in Keywords}
  IN  IF found = {} THEN "UNKNOWN" ELSE words[CHOOSE i \in found : \A j \in found : i <= j]

Writable(type) == type \in {"INSERT", "UPDATE", "DELETE"}

\* Parse: TTL is ignored for writes; a hint is not part of Query.
Parse(q) ==
  LET hinted == IsHint(q.comment)
      type   == Type(q.words)
  IN  [Type  |-> type,
       TTL   |-> hinted /\ "ttl" \in Range(q.comment) /\ ~Writable(type),
       Batch |-> hinted /\ "batch" \in Range(q.comment),
       Query |-> [comment |-> IF hinted THEN << >> ELSE q.comment, words |-> q.words]]

IsCacheable(p) == p.Type = "SELECT" /\ p.TTL

IsWritable(p) == Writable(p.Type)

IsBatchable(p) == Writable(p.Type) /\ p.Batch

GetBatchKey(p) == p.Query
=============================================================================
