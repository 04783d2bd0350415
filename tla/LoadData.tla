------------------------------ MODULE LoadData ------------------------------
(***************************************************************************)
(* The payload of a LOAD DATA LOCAL INFILE batch: a line per request and a *)
(* tab-separated field per parameter (executeLoadDataInfileBatchedInsert,  *)
(* formatLoadDataParam and escapeLoadDataString in writebatch/executor.go),*)
(* and the external reader: MySQL's defaults for LOAD DATA, which split    *)
(* lines at newlines and fields at tabs and undo backslash escapes.        *)
(*                                                                         *)
(* A string is a sequence of characters.  "bs" is a backslash; "N", "t",  *)
(* "n" and "r" are the letters that mean something behind one; "bad" is a  *)
(* byte that is not valid UTF-8, which range over a Go string yields as    *)
(* U+FFFD.                                                                 *)
(***************************************************************************)
EXTENDS Naturals, Sequences

CONSTANTS
  Chars,     \* the characters of string and []byte parameters
  MaxLen,    \* bound: length of a parameter
  MaxParams, \* bound: parameters of a request
  MaxPayload \* bound: length of the payload

ASSUME CharsAssumption ==
  /\ Chars \subseteq {"bs", "tab", "nl", "cr", "N", "t", "n", "r", "bad"}
  /\ MaxLen \in Nat /\ MaxParams \in Nat /\ MaxPayload \in Nat

VARIABLES
  rows,      \* the parameters of the requests written so far
  row,       \* and of the request being written
  payload    \* buf
loadVars == <<rows, row, payload>>

Null == [null |-> TRUE, text |-> << >>]
Text(s) == [null |-> FALSE, text |-> s]
Params == {Null} \cup {Text(s) : s \in UNION {[1..k -> Chars] : k \in 0..MaxLen}}

\* escapeLoadDataString without its case for backslashes.
EscapeBackslashForgotten(ch) ==
  CASE ch = "tab" -> <<"bs", "t">>
    [] ch = "nl"  -> <<"bs", "n">>
    [] ch = "cr"  -> <<"bs", "r">>
    [] ch = "bad" -> <<"U+FFFD">>
    [] OTHER      -> <<ch>>

\* One iteration of escapeLoadDataString.
EscapeChar(ch) ==
  CASE ch = "bs"  -> <<"bs", "bs">>
    [] ch = "tab" -> <<"bs", "t">>
    [] ch = "nl"  -> <<"bs", "n">>
    [] ch = "cr"  -> <<"bs", "r">>
    [] ch = "bad" -> <<"U+FFFD">>
    [] OTHER      -> <<ch>>

\* What escapeLoadDataString has built after each character of s.
Escaped(s) ==
  LET buf[k \in 0..Len(s)] == IF k = 0 THEN << >> ELSE buf[k - 1] \o EscapeChar(s[k])
  IN  buf

EscapeLoadDataString(s) == Escaped(s)[Len(s)]

FormatLoadDataParam(p) == IF p.null THEN <<"bs", "N">> ELSE EscapeLoadDataString(p.text)

Separator == IF row = << >> THEN << >> ELSE <<"tab">>

LoadInit == rows = << >> /\ row = << >> /\ payload = << >>

\* One iteration of the inner loop, over the parameters of a request.  The
\* requests of a batch have one query, and so equally many parameters.
WriteParam(p) ==
  /\ Len(row) < IF rows = << >> THEN MaxParams ELSE Len(rows[1])
  /\ row' = Append(row, p)
  /\ payload' = payload \o Separator \o FormatLoadDataParam(p)
  /\ Len(payload') < MaxPayload
  /\ UNCHANGED rows

\* The end of an iteration of the outer loop.
EndLine ==
  /\ row # << >>
  /\ rows # << >> => Len(row) = Len(rows[1])
  /\ rows' = Append(rows, row)
  /\ row' = << >>
  /\ payload' = Append(payload, "nl")

LoadNext == EndLine \/ \E p \in Params : WriteParam(p)
-----------------------------------------------------------------------------
(* The reader, external.  It has read rows `done` and the fields `line` of   *)
(* the next row, and is in `field`, behind a backslash if `esc`; `null`      *)
(* marks a field that starts with \N.                                        *)

Unescape(ch) ==
  CASE ch = "t" -> "tab" [] ch = "n" -> "nl" [] ch = "r" -> "cr" [] OTHER -> ch

Field(st) == IF st.null /\ st.field = <<"N">> THEN Null ELSE Text(st.field)

Read(st, ch) ==
  IF st.esc
  THEN [st EXCEPT !.esc = FALSE, !.field = Append(@, Unescape(ch)),
                  !.null = ch = "N" /\ st.field = << >>]
  ELSE CASE ch = "bs"  -> [st EXCEPT !.esc = TRUE]
         [] ch = "tab" -> [st EXCEPT !.line = Append(@, Field(st)), !.field = << >>, !.null = FALSE]
         [] ch = "nl"  -> [st EXCEPT !.done = Append(@, Append(st.line, Field(st))),
                                     !.line = << >>, !.field = << >>, !.null = FALSE]
         [] OTHER      -> [st EXCEPT !.field = Append(@, ch)]

Start == [done |-> << >>, line |-> << >>, field |-> << >>, esc |-> FALSE, null |-> FALSE]

\* The state of the reader after each character of a text.
Reader(text) ==
  LET reads[i \in 0..Len(text)] == IF i = 0 THEN Start ELSE Read(reads[i - 1], text[i])
  IN  reads

Loaded == Reader(payload)[Len(payload)].done
-----------------------------------------------------------------------------
(* The inductive invariant behind LoadsWhatWasWritten, in BatchLoad *)

\* Every byte of the parameters belongs to a character of UTF-8.
ValidUTF8 == "bad" \notin Chars

\* The reader at the end of the parameter p, behind the rows d and the parameters l.
AtEnd(d, l, p) ==
  [done |-> d, line |-> l, field |-> IF p.null THEN <<"N">> ELSE p.text, esc |-> FALSE, null |-> p.null]

\* The reader at the end of the last of the parameters l.
AtRow(d, l) == AtEnd(d, SubSeq(l, 1, Len(l) - 1), l[Len(l)])

\* The reader, at the end of the payload, has the rows and is where row ends.
LoadInv ==
  /\ rows \in Seq(Seq(Params)) /\ row \in Seq(Params)
  /\ payload \in Seq(Chars \cup {"bs", "tab", "nl", "N", "t", "n", "r"})
  /\ Reader(payload)[Len(payload)] =
       IF row = << >> THEN AtEnd(rows, << >>, Text(<< >>)) ELSE AtRow(rows, row)
=============================================================================
