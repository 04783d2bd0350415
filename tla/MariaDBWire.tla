---------------------------- MODULE MariaDBWire ----------------------------
(***************************************************************************)
(* The packets of COM_QUERY and COM_STMT_EXECUTE (mariadb/mariadb.go): how *)
(* the proxy finds the end of a server's response, runs the statements of  *)
(* one query one after the other, and writes their responses to the client *)
(* as the results of one command.                                          *)
(*                                                                         *)
(* A packet is its first byte and its flag SERVER_MORE_RESULTS_EXISTS; the *)
(* column definitions of a result set go with its first packet.  A packet  *)
(* of the client's file is not told apart from another.                    *)
(*                                                                         *)
(* External: a server answers a command with results, each but the last    *)
(* with the flag, and a client reads them by the same rules.               *)
(***************************************************************************)
EXTENDS Naturals, Sequences

CONSTANTS
  MaxStatements,  \* bound: statements of a query
  MaxResults,     \* bound: results of a statement
  MaxRows,        \* bound: rows of a response
  SeqModulus      \* packets are numbered modulo 256 (bound: a smaller modulus)

ASSUME WireAssumption ==
  /\ SeqModulus \in Nat \ {0}
  /\ MaxStatements \in Nat /\ MaxResults \in Nat /\ MaxRows \in Nat

VARIABLES
  cmd,       \* the command being handled
  left,      \* its statements from the present one on
  at,        \* where its handler is
  stmt,      \* the present statement: whose response is forwarded, or answered OK
  server,    \* where the server is in its response, and the bounds it has left
  response, eofCount,
  stored,    \* the cache: the last response stored, and by which command
  sequence,
  peer,      \* the client: what it reads next, and the last number it saw
  astray     \* history: why the proxy and the client went on differently, or "no"

readVars == <<server, response, eofCount>>
wireVars == <<cmd, left, at, stmt, readVars, stored, sequence, peer, astray>>

Handled == {"query", "execute"}
Nothing == [cmd |-> "none", packets |-> << >>]

Packets == [first : {"00", "FB", "FE", "FF", "other"}, more : BOOLEAN]
Packet(first, more) == [first |-> first, more |-> more]
Ok == Packet("00", FALSE)
Err == Packet("FF", FALSE)

Resting == [at |-> "end", rows |-> 0, results |-> 0]
Answering == [at |-> "answer", rows |-> 0, results |-> 1]

WireInit ==
  /\ cmd = "none" /\ left = 0 /\ at = "run" /\ stmt = "none"
  /\ server = Resting /\ response = << >> /\ eofCount = 0
  /\ stored = Nothing
  /\ sequence = 0
  /\ peer = [at |-> "end", seq |-> 0]
  /\ astray = "no"

-----------------------------------------------------------------------------
(* What the peers do with a packet *)

\* A server's next packet: of a result (an answer to a file has no rows), of
\* its column definitions' end, or of its rows.  A first column that is NULL
\* begins with FB, an empty one with 00, as does every row of COM_STMT_EXECUTE.
Sends(p) ==
  \/ /\ server.at \in {"result", "answer"}
     /\ \/ p = Packet("00", FALSE) \/ p = Packet("FF", FALSE)
        \/ p = Packet("00", TRUE) /\ server.results > 1
        \/ server.at = "result" /\ p = Packet("other", FALSE)
        \/ server.at = "result" /\ server.results = MaxResults /\ p = Packet("FB", FALSE)
  \/ server.at = "columns" /\ p \in {Packet("FE", FALSE), Packet("FE", TRUE)}
  \/ /\ server.at = "rows"
     /\ \/ p = Packet("FE", FALSE) \/ p = Packet("FF", FALSE)
        \/ p = Packet("FE", TRUE) /\ server.results > 1
        \/ /\ server.rows > 0
           /\ \/ p = Packet("00", FALSE)
              \/ cmd = "query" /\ p \in {Packet("FB", FALSE), Packet("other", FALSE)}

\* What comes after packet p, for whoever sends or reads a response.
Follows(place, p) ==
  IF place = "columns" THEN "rows"
  ELSE IF p.first = "FF" THEN "end"
  ELSE IF place = "rows" /\ p.first # "FE" THEN "rows"
  ELSE IF place # "rows" /\ p.first = "FB" THEN "file"
  ELSE IF place # "rows" /\ p.first = "other" THEN "columns"
  ELSE IF p.more THEN "result" ELSE "end"

ServerAfter(p) ==
  LET next == Follows(server.at, p) IN
  IF next = "end" THEN Resting
  ELSE [at      |-> next,
        rows    |-> IF server.at = "rows" /\ next = "rows" THEN server.rows - 1 ELSE server.rows,
        results |-> IF next = "result" THEN server.results - 1 ELSE server.results]

\* A client reads a numbered packet.  It is lost when it expects no packet, when
\* the packet has the wrong number, or is not the end of column definitions.
Reads(client, p) ==
  IF \/ client.at \notin {"result", "columns", "rows"}
     \/ p.seq # (client.seq + 1) % SeqModulus
     \/ client.at = "columns" /\ p.packet.first # "FE"
  THEN [client EXCEPT !.at = "lost"]
  ELSE [at |-> Follows(client.at, p.packet), seq |-> p.seq]

-----------------------------------------------------------------------------
(* Writing to the client *)

\* The numbers written from sequence on.
Numbered(packets) ==
  [i \in DOMAIN packets |-> [packet |-> packets[i], seq |-> (sequence + i) % SeqModulus]]

\* Where the client is after each of the packets.
Reading(packets) ==
  LET reads[i \in 0..Len(packets)] ==
        IF i = 0 THEN peer ELSE Reads(reads[i - 1], Numbered(packets)[i])
  IN  reads

\* The client reads what is written to it.
WriteTo(packets) ==
  /\ sequence' = (sequence + Len(packets)) % SeqModulus
  /\ peer' = Reading(packets)[Len(packets)]

MoreResults == left > 1

\* forwardBackendResponse sets the flag in the last packet, if it has one.
Flagged(packets) ==
  IF MoreResults /\ packets[Len(packets)].first \in {"00", "FE"}
  THEN [packets EXCEPT ![Len(packets)].more = TRUE]
  ELSE packets

\* The next statement of handleQuery, or back to run.
NextStatement ==
  /\ left' = left - 1
  /\ at' = IF MoreResults THEN "statement" ELSE "run"
  /\ stmt' = "none"

\* The statement is answered with these packets.
Respond(packets) ==
  /\ WriteTo(Flagged(packets))
  /\ astray' = IF MoreResults /\ packets[Len(packets)] = Err THEN "error" ELSE astray
  /\ NextStatement

\* A handler returns an error: run writes it, and the statements left are not run.
Fail ==
  /\ WriteTo(<<Err>>)
  /\ left' = 0
  /\ at' = "run"
  /\ stmt' = "none"

-----------------------------------------------------------------------------
(* Commands *)

\* The client sends a query of n statements, or executes a prepared one.
Command(name, n) ==
  /\ at = "run" /\ peer.at = "end"
  /\ name = "execute" => n = 1
  /\ cmd' = name /\ left' = n /\ at' = "statement"
  /\ sequence' = 0
  /\ peer' = [at |-> "result", seq |-> 0]
  /\ UNCHANGED <<stmt, readVars, stored, astray>>

\* The client sends a query without a statement: handleQuery writes nothing.
NoStatement ==
  /\ at = "run" /\ peer.at = "end"
  /\ cmd' = "query"
  /\ sequence' = 0
  /\ peer' = [at |-> "result", seq |-> 0]
  /\ astray' = "no statement"
  /\ UNCHANGED <<left, at, stmt, readVars, stored>>

\* The statement needs another backend: dialAndAuth sends the client an Auth Switch
\* Request and reads its answer.  A client that expects none in a response gives
\* up, and its session ends.
AuthSwitch ==
  /\ at = "statement" /\ cmd = "query"
  /\ \/ /\ peer = [at |-> "result", seq |-> sequence]
        /\ sequence' = (sequence + 2) % SeqModulus
        /\ peer' = [at |-> "result", seq |-> sequence']
        /\ UNCHANGED <<left, at, astray>>
     \/ /\ sequence' = (sequence + 1) % SeqModulus
        /\ peer' = [peer EXCEPT !.at = "lost"]
        /\ left' = 0 /\ at' = "run"
        /\ astray' = "auth switch"
  /\ UNCHANGED <<cmd, stmt, readVars, stored>>

\* A response from the cache.
FromStore ==
  /\ at = "statement"
  /\ stored.cmd = cmd
  /\ Respond(stored.packets)
  /\ UNCHANGED <<cmd, readVars, stored>>

\* handleBatchedWrite: an OK packet, or an ERR packet written by the handler.
Batched ==
  /\ at = "statement"
  /\ \E p \in {Ok, Err} : Respond(<<p>>)
  /\ UNCHANGED <<cmd, readVars, stored>>

\* The command is written to the server.  Its response is forwarded, also to
\* the cache, or, for USE, BEGIN, COMMIT and ROLLBACK, replaced by an OK packet.
SendToServer(kind) ==
  /\ at = "statement"
  /\ kind = "own" => cmd = "query"
  /\ at' = "read" /\ stmt' = kind
  /\ server' = IF kind = "own" THEN Answering
               ELSE [at |-> "result", rows |-> MaxRows, results |-> MaxResults]
  /\ UNCHANGED <<response, eofCount>>
  /\ UNCHANGED <<cmd, left, stored, sequence, peer, astray>>

\* The server cannot be reached.
Unreached ==
  /\ at = "statement"
  /\ Fail
  /\ UNCHANGED <<cmd, readVars, stored, astray>>

EndsAtAnyOk(p) ==
  \/ p.first = "00" /\ ~p.more
  \/ p.first = "FF"
  \/ p.first = "FE" /\ eofCount = 1 /\ ~p.more
  \/ p.first = "FB" /\ response = << >> /\ (cmd = "execute" \/ stmt = "file")

\* Packet p ends the response.  Between the two EOF packets of a result set 00 is
\* the first byte of a row; only execBackendResponse looks for a request for a file.
Ends(p) ==
  \/ p.first = "00" /\ eofCount = 0 /\ ~p.more
  \/ p.first = "FF"
  \/ p.first = "FE" /\ eofCount = 1 /\ ~p.more
  \/ p.first = "FB" /\ response = << >> /\ (cmd = "execute" \/ stmt = "file")

\* EOF packets of the present result, as counted after p.
EofCount(p) == IF p.first = "FE" THEN 1 - eofCount ELSE eofCount

KeepFlagged(packets) ==
  IF stmt = "select" /\ (cmd = "execute" => packets[1] # Err)
  THEN [cmd |-> cmd, packets |-> Flagged(packets)]
  ELSE stored

\* COM_QUERY caches the response as it is, COM_STMT_EXECUTE unless it is an error.
\* forwardBackendResponse works on a copy.
Keep(packets) ==
  IF stmt = "select" /\ (cmd = "execute" => packets[1] # Err)
  THEN [cmd |-> cmd, packets |-> packets]
  ELSE stored

\* readBackendPacket in the loops of execBackendQuery and execBackendResponse,
\* and what their callers do with the response.
Read(p) ==
  LET got == Append(response, p) IN
  /\ at = "read"
  /\ Sends(p)
  /\ server' = ServerAfter(p)
  /\ \/ /\ ~Ends(p)
        /\ response' = got /\ eofCount' = EofCount(p)
        /\ UNCHANGED <<left, at, stmt, stored, sequence, peer, astray>>
     \/ /\ Ends(p) /\ got[1].first = "FB"
        /\ WriteTo(Flagged(got))
        /\ at' = "upload"
        /\ response' = << >> /\ eofCount' = 0
        /\ UNCHANGED <<left, stmt, stored, astray>>
     \/ /\ Ends(p) /\ got[1].first # "FB"
        /\ Respond(IF stmt = "own" THEN <<Ok>> ELSE got)
        /\ stored' = Keep(got)
        /\ response' = << >> /\ eofCount' = 0
  /\ UNCHANGED cmd

\* handleLocalInfile: n packets of the file and an empty one go to the server,
\* and execBackendResponse reads its answer.
Upload(n) ==
  /\ at = "upload" /\ peer.at = "file"
  /\ LET seq == (peer.seq + n + 1) % SeqModulus IN
     /\ sequence' = seq
     /\ peer' = [at |-> "result", seq |-> seq]
  /\ server' = Answering
  /\ at' = "read" /\ stmt' = "file"
  /\ UNCHANGED <<cmd, left, response, eofCount, stored, astray>>

\* An I/O error or a timeout: resetBackend, and the handler fails.  During an
\* upload run takes the rest of the client's file for commands.
Lost ==
  /\ at \in {"read", "upload"}
  /\ Fail
  /\ server' = Resting
  /\ response' = << >> /\ eofCount' = 0
  /\ astray' = IF at = "upload" THEN "upload" ELSE astray
  /\ UNCHANGED <<cmd, stored>>

WireNext ==
  \/ \E name \in Handled, n \in 1..MaxStatements : Command(name, n)
  \/ NoStatement \/ AuthSwitch \/ FromStore \/ Batched \/ Unreached \/ Lost
  \/ \E kind \in {"select", "other", "own"} : SendToServer(kind)
  \/ \E p \in Packets : Read(p)
  \/ \E n \in 0..1 : Upload(n)

WireSpec == WireInit /\ [][WireNext]_wireVars
-----------------------------------------------------------------------------
(* Properties *)

\* The proxy stops reading a response at its last packet: nothing is left on the
\* connection for the next command to take for its own response, and it never
\* waits for a packet after the last, whatever the rows begin with and however
\* many results the server sends (execBackendQuery, execBackendResponse).  A file
\* that the server asks for in COM_QUERY is the exception: the proxy goes on
\* reading until the connection times out.
ServerInStep ==
  /\ at \in {"run", "statement"} => server.at = "end"
  /\ at = "read" => server.at # "end"
  /\ at = "upload" => server.at = "file"

\* The client finds the end of its command where the proxy does, with packets
\* numbered one after the other, across the statements of a query, cached
\* responses, batched writes, files, changes of backend and lost connections.
\* There are four exceptions, and no other: a statement before the last one was
\* answered with an error, after which handleQuery writes responses that the
\* client does not expect; an upload failed; a query had no statement, and no
\* response (mariadb.go:605); a client that expects no Auth Switch Request in
\* a response was sent one (mariadb.go:460).
ClientInStep ==
  astray = "no" => /\ peer.at # "lost"
                   /\ (at = "run") <=> (peer.at = "end")
-----------------------------------------------------------------------------
(* The inductive invariant behind ServerInStep *)

\* eofCount tells the rows of the server's result from its other packets.
Counted ==
  \/ server.at \in {"result", "answer", "columns", "file"} /\ eofCount = 0
  \/ server.at = "rows" /\ eofCount = 1

\* A request for a file is the last packet of a response, and none of its rows.
FileIsLast ==
  /\ response \in Seq(Packets)
  /\ server.at \in {"columns", "rows"} => response # << >>
  /\ response # << >> => (response[1].first = "FB" => server.at = "file")

\* The inductive invariant.
WireInv ==
  /\ at \in {"run", "statement", "read", "upload"}
  /\ FileIsLast
  /\ at \in {"run", "statement"} => server.at = "end"
  /\ at = "read" => Counted
  /\ at = "upload" => server.at = "file"
  /\ at # "read" => eofCount = 0 /\ response = << >>
-----------------------------------------------------------------------------
(* The inductive invariant behind ClientInStep *)

\* Whoever reads these packets as a response is at places[i] after i of them.
ReadAlong(places, packets) ==
  /\ places[0] = "result"
  /\ \A i \in 1..Len(packets) :
       /\ places[i - 1] \in {"result", "columns", "rows"}
       /\ places[i - 1] = "columns" => packets[i].first = "FE"
       /\ packets[i].first = "FF" => ~packets[i].more
       /\ places[i] = Follows(places[i - 1], packets[i])

\* The packets lead whoever reads them to this place.
LeadTo(packets, place) ==
  \E places \in [0..Len(packets) -> {"result", "columns", "rows", "file", "end"}] :
    ReadAlong(places, packets) /\ places[Len(packets)] = place

\* A response that ends with its last packet.
IsResponse(packets) == packets \in Seq(Packets) /\ packets # << >> /\ LeadTo(packets, "end")

\* Where the client is, if it is in step.
ClientPlace ==
  CASE at = "run" -> "end" [] at = "upload" -> "file" [] at \in {"statement", "read"} -> "result"

\* The client has read what was written, and would follow the server through
\* what is read of its response; so it would through the response in the cache.
ClientInv ==
  /\ WireInv
  /\ left \in Nat
  /\ at # "run" => left > 0 /\ cmd \in Handled
  /\ stored = Nothing \/ IsResponse(stored.packets)
  /\ at = "read" => LeadTo(response, IF server.at = "answer" THEN "result" ELSE server.at)
  /\ astray = "no" => sequence \in 0..(SeqModulus - 1) /\ peer = [at |-> ClientPlace, seq |-> sequence]
=============================================================================
