------------------------------- MODULE Httpd -------------------------------
(***************************************************************************)
(* The HTTP server of httpd.c.  The main thread serves one connection at a *)
(* time: it reads what the client has sent with one call of recv, sends a  *)
(* file line by line, and puts a text of the program's in the place of     *)
(* every line that holds a word registered with http_html_injection.  A    *)
(* connection is shut down and its descriptor is never closed.             *)
(*                                                                         *)
(* A line and a text are records: what it is, the words it holds, and for  *)
(* a text the version of what it tells.                                    *)
(***************************************************************************)
EXTENDS Integers, Sequences, FiniteSets, SequencesExt

CONSTANTS
  Clients,            \* who may connect, one connection each at a time
  Words,              \* the words that may be registered
  Files,              \* HTTP_HOME and HTTP_NOTFOUND: their lines, and whether
                      \* the last one ends in a newline
  MAX_INJECTION_NUM,
  Backlog,            \* how many connections wait for accept
  Descriptors,        \* how many descriptors connections and files may take
  None

HTTP_HOME == "home"
HTTP_NOTFOUND == "notfound"

(* What a client may send: the path "/" followed by a space, as browsers   *)
(* do; the same at the very end of what is sent; another path; no second   *)
(* word.                                                                   *)
Requests == {"home", "home_at_end", "other", "one_word"}

IsLine(l) == l.words \subseteq Words /\ l.version = 0

ASSUME HttpdAssumption ==
  /\ DOMAIN Files = {HTTP_HOME, HTTP_NOTFOUND}
  /\ \A f \in DOMAIN Files :
       /\ Len(Files[f].lines) \in Nat \ {0}
       /\ \A i \in 1..Len(Files[f].lines) : IsLine(Files[f].lines[i])
       /\ Files[f].newline \in BOOLEAN
  /\ MAX_INJECTION_NUM \in Nat /\ Backlog \in Nat \ {0} /\ Descriptors \in Nat
  /\ None \notin Clients \cup DOMAIN Files

VARIABLES
  at,           \* where the main thread is
  handle,       \* queue_entity.httpd: "unset" or "made"
  injections,   \* the words registered, oldest first
  text,         \* per word: what its callback writes now
  used,         \* how many descriptors connections and files have taken
  lingering,    \* the port is held by connections that ended a moment ago
  backlog,      \* the connections that wait for accept, oldest first
  conn,         \* the client of the connection served (conn_fd), or None
  buffer,       \* what strtok would find in the buffer
  out,          \* the file being sent: which, how many lines fgets has read,
                \* whether it has met the end, data; or None
  client,       \* per client: "away", "connected", or "gone" without a word
  request,      \* per client: what it has sent, or "nothing"
  since,        \* history: the versions of the texts when it was sent
  received,     \* per client: what has been sent to it
  answer,       \* history: how its last connection ended
  refused,      \* history: nothing was sent to the connection served last
  accepted      \* history: how many connections this process has accepted

clientVars == <<client, request, since, received, answer, refused>>
serverVars == <<injections, used, backlog, conn, buffer, out, accepted>>
httpdVars == <<at, handle, text, lingering, clientVars, serverVars>>

HttpdPlaces == {"accept", "read", "parse", "open", "header", "line", "crashed"}
Buffers == {"clean"} \cup Requests
Answers == {"none", "whole", "cut", "refused"}
StatusOf(file) == [what |-> file, words |-> {}, version |-> 0]

HttpdTypeOK ==
  /\ handle \in {"unset", "made"}
  /\ injections \in Seq(Words)
  /\ \A w \in Words : text[w].words = {} /\ text[w].version \in Nat
  /\ used \in 0..Descriptors
  /\ lingering \in BOOLEAN
  /\ backlog \in Seq(Clients) /\ Len(backlog) <= Backlog
  /\ conn \in Clients \cup {None}
  /\ buffer \in Buffers
  /\ out # None => /\ out.file \in DOMAIN Files
                   /\ out.pos \in 0..Len(Files[out.file].lines)
                   /\ out.eof \in BOOLEAN
  /\ client \in [Clients -> {"away", "connected", "gone"}]
  /\ request \in [Clients -> Requests \cup {"nothing"}]
  /\ answer \in [Clients -> Answers]
  /\ refused \in BOOLEAN
  /\ accepted \in Nat

Step(from, to) == at = from /\ at' = to

-----------------------------------------------------------------------------
(* The clients. *)

Connect(c) ==
  /\ handle = "made" /\ client[c] = "away" /\ Len(backlog) < Backlog
  /\ client' = [client EXCEPT ![c] = "connected"]
  /\ backlog' = Append(backlog, c)
  /\ request' = [request EXCEPT ![c] = "nothing"]
  /\ received' = [received EXCEPT ![c] = <<>>]
  /\ answer' = [answer EXCEPT ![c] = "none"]
  /\ UNCHANGED <<at, handle, injections, text, used, lingering, conn, buffer,
                 out, since, accepted, refused>>

Send(c, r) ==
  /\ handle = "made" /\ client[c] = "connected" /\ request[c] = "nothing"
  /\ request' = [request EXCEPT ![c] = r]
  /\ since' = [since EXCEPT ![c] = [w \in Words |-> text[w].version]]
  /\ UNCHANGED <<at, handle, text, lingering, serverVars, client, received,
                 answer, refused>>

HangUp(c) ==
  /\ handle = "made" /\ client[c] = "connected"
  /\ client' = [client EXCEPT ![c] = "gone"]
  /\ UNCHANGED <<at, handle, text, lingering, serverVars, request, since,
                 received, answer, refused>>

-----------------------------------------------------------------------------
(* http_perform *)

(* accept gives a connection, or, when no descriptor is left, -1. *)
Accept ==
  /\ Step("accept", "read")
  /\ used < Descriptors
  /\ backlog # <<>>
  /\ conn' = Head(backlog)
  /\ backlog' = Tail(backlog)
  /\ used' = used + 1
  /\ accepted' = accepted + 1
  /\ UNCHANGED <<handle, injections, text, lingering, buffer, out, clientVars>>

AcceptFails ==
  /\ Step("accept", "read")
  /\ used = Descriptors
  /\ conn' = None
  /\ UNCHANGED <<handle, text, lingering, injections, used, backlog, buffer,
                 out, accepted, clientVars>>

(* The connection is shut down.  Unless the client was first to close it,  *)
(* the port stays taken for a while.                                       *)
EndConnection(how) ==
  /\ at' = "accept"
  /\ conn' = None
  /\ client' = [client EXCEPT ![conn] = "away"]
  /\ answer' = [answer EXCEPT ![conn] = how]
  /\ refused' = (how = "refused")
  /\ lingering' = (lingering \/ client[conn] = "connected")

(* A recv writes over the beginning of the buffer and puts no end behind:  *)
(* what an earlier request has left may go on where this one ends, if it   *)
(* ends in the path or before.                                             *)
Overwritten(old, new) ==
  {new} \cup IF old # "clean" /\ new \in {"home_at_end", "one_word"}
             THEN {"home_at_end", "other"} ELSE {}

ReadRequest ==
  /\ Step("read", "parse")
  /\ conn # None /\ request[conn] # "nothing"
  /\ buffer' \in Overwritten(buffer, request[conn])
  /\ UNCHANGED <<handle, text, lingering, injections, used, backlog, conn,
                 out, accepted, clientVars>>

(* A client that has closed without a word gives a recv of 0 bytes, which  *)
(* is no error.                                                            *)
ReadNothing ==
  /\ Step("read", "parse")
  /\ conn # None /\ client[conn] = "gone" /\ request[conn] = "nothing"
  /\ UNCHANGED <<handle, text, lingering, serverVars, clientVars>>

ReadFails ==
  /\ at = "read"
  /\ \/ /\ conn = None
        /\ at' = "accept"
        /\ UNCHANGED <<lingering, clientVars, conn>>
     \/ /\ conn # None /\ client[conn] = "gone"
        /\ EndConnection("refused")
        /\ UNCHANGED <<request, since, received>>
  /\ UNCHANGED <<handle, text, injections, used, backlog, buffer, out,
                 accepted>>

(* get_filename: the second word is the path. *)
get_filename(b) == IF b \in {"home", "home_at_end"} THEN HTTP_HOME ELSE HTTP_NOTFOUND
NoPath(b) == b \in {"clean", "one_word"}

(* Mutation: the connection is not shut down. *)
RefuseSilently ==
  /\ Step("parse", "accept") /\ NoPath(buffer)
  /\ conn' = None
  /\ UNCHANGED <<handle, text, lingering, injections, used, backlog, buffer,
                 out, accepted, clientVars>>

Refuse ==
  /\ at = "parse" /\ NoPath(buffer)
  /\ EndConnection("refused")
  /\ UNCHANGED <<handle, text, injections, used, backlog, buffer, out,
                 accepted, request, since, received>>

Parse ==
  /\ Step("parse", "open") /\ ~ NoPath(buffer)
  /\ out' = [file |-> get_filename(buffer), pos |-> 0, eof |-> FALSE, data |-> None]
  /\ UNCHANGED <<handle, text, lingering, injections, used, backlog, conn,
                 buffer, accepted, clientVars>>

(* http_sendfile: with no descriptor left neither the file nor the page    *)
(* for what is not found can be opened, and the first fgets is handed a    *)
(* NULL.                                                                   *)
Open ==
  /\ Step("open", "header")
  /\ used < Descriptors
  /\ used' = used + 1
  /\ UNCHANGED <<handle, text, lingering, injections, backlog, conn, buffer,
                 out, accepted, clientVars>>

OpenFails ==
  /\ Step("open", "crashed")
  /\ used = Descriptors
  /\ handle' = "unset"
  /\ lingering' = (lingering \/ \E c \in Clients : client[c] = "connected")
  /\ UNCHANGED <<text, serverVars, clientVars>>

(* Mutation: the end is met with the last line, newline or not. *)
FgetsEarlyEnd(o) ==
  LET lines == Files[o.file].lines
  IN [o EXCEPT !.pos = @ + 1, !.data = lines[o.pos + 1],
               !.eof = o.pos + 1 = Len(lines)]

(* Mutation: a failed read is counted as a line. *)
FgetsCountsEnd(o) ==
  LET lines == Files[o.file].lines
  IN IF o.pos < Len(lines)
     THEN [o EXCEPT !.pos = @ + 1, !.data = lines[o.pos + 1],
                    !.eof = o.pos + 1 = Len(lines) /\ ~ Files[o.file].newline]
     ELSE [o EXCEPT !.pos = @ + 1, !.eof = TRUE]

(* fgets leaves data as it is when there is nothing more to read, and has  *)
(* met the end when the last line is not ended by a newline.               *)
Fgets(o) ==
  LET lines == Files[o.file].lines
  IN IF o.pos < Len(lines)
     THEN [o EXCEPT !.pos = @ + 1, !.data = lines[o.pos + 1],
                    !.eof = o.pos + 1 = Len(lines) /\ ~ Files[o.file].newline]
     ELSE [o EXCEPT !.eof = TRUE]

SendHeader ==
  /\ Step("header", "line")
  /\ received' = [received EXCEPT ![conn] = Append(@, StatusOf(out.file))]
  /\ out' = Fgets(out)
  /\ UNCHANGED <<handle, text, lingering, injections, used, backlog, conn,
                 buffer, accepted, client, request, since, answer, refused>>

(* do_html_inject: no text holds a word, so the first word to be found in  *)
(* the line decides.                                                       *)
Found(line) == {i \in 1..Len(injections) : injections[i] \in line.words}

do_html_inject(line) ==
  IF Found(line) = {} THEN line
  ELSE text[injections[CHOOSE i \in Found(line) : \A j \in Found(line) : i <= j]]

(* The line is sent, and the next one read into the place of what was      *)
(* sent; ...                                                               *)
SendLine ==
  LET sent == do_html_inject(out.data)
  IN /\ at = "line" /\ ~ out.eof
     /\ received' = [received EXCEPT ![conn] = Append(@, sent)]
     /\ out' = Fgets([out EXCEPT !.data = sent])
     /\ UNCHANGED <<at, handle, text, lingering, injections, used, backlog,
                    conn, buffer, accepted, client, request, since, answer, refused>>

(* Mutation: the buffer is not cleared. *)
CloseFileKeepsBuffer == used' = used - 1 /\ out' = None /\ UNCHANGED buffer

(* The file is closed and the buffer is cleared. *)
CloseFile ==
  /\ used' = used - 1
  /\ out' = None
  /\ buffer' = "clean"

(* ... at the end what data holds is sent (once more).                     *)
SendLast ==
  /\ at = "line" /\ out.eof
  /\ received' = [received EXCEPT ![conn] = Append(@, do_html_inject(out.data))]
  /\ CloseFile
  /\ EndConnection("whole")
  /\ UNCHANGED <<handle, text, injections, backlog, accepted, request, since>>

(* Mutation: the file is left open. *)
SendFailsLeaks ==
  /\ at \in {"header", "line"} /\ client[conn] = "gone"
  /\ out' = None
  /\ buffer' = "clean"
  /\ EndConnection("cut")
  /\ UNCHANGED <<handle, text, injections, used, backlog, accepted, request,
                 since, received>>

(* A write to a client that has gone may fail. *)
SendFails ==
  /\ at \in {"header", "line"} /\ client[conn] = "gone"
  /\ CloseFile
  /\ EndConnection("cut")
  /\ UNCHANGED <<handle, text, injections, backlog, accepted, request, since,
                 received>>

http_perform ==
  \/ Accept \/ AcceptFails
  \/ ReadRequest \/ ReadNothing \/ ReadFails
  \/ Refuse \/ Parse
  \/ Open \/ OpenFails \/ SendHeader \/ SendLine \/ SendLast \/ SendFails

-----------------------------------------------------------------------------
(* Mutation: the last place is not used. *)
http_html_injectionOneLess(words, w) ==
  IF Len(words) + 1 >= MAX_INJECTION_NUM THEN words ELSE Append(words, w)

http_html_injection(words, w) ==
  IF Len(words) = MAX_INJECTION_NUM THEN words ELSE Append(words, w)

(* Before anything has been created. *)
HttpdInit ==
  /\ handle = "unset" /\ injections = <<>>
  /\ used = 0 /\ accepted = 0
  /\ backlog = <<>> /\ conn = None /\ buffer = "clean" /\ out = None
  /\ client = [c \in Clients |-> "away"]
  /\ request = [c \in Clients |-> "nothing"]
  /\ since = [c \in Clients |-> [w \in Words |-> 0]]
  /\ received = [c \in Clients |-> <<>>]
  /\ answer = [c \in Clients |-> "none"]
  /\ refused = FALSE

-----------------------------------------------------------------------------
(* Every descriptor in use is that of a connection accepted or of the file *)
(* being sent, whichever way http_sendfile has been left; and the server   *)
(* crashes only when the connections it never closes have eaten all the    *)
(* descriptors (httpd.c:169, 234, 253).                                    *)
OpenFiles == IF at \in {"header", "line"} THEN 1 ELSE 0

DescriptorsAccounted ==
  /\ used = accepted + OpenFiles
  /\ at = "crashed" => accepted = Descriptors

(* A page that was sent whole is the file, every line in its place and the *)
(* marked ones replaced by their texts, none of them older than the        *)
(* request; only the last line comes once more if it ends in a newline.    *)
Lines(file) ==
  LET f == Files[file]
  IN IF f.newline THEN Append(f.lines, f.lines[Len(f.lines)]) ELSE f.lines

Stands(item, line, c) ==
  \/ line.words \cap Range(injections) = {} /\ item = line
  \/ \E w \in line.words :
       item.what = text[w].what /\ since[c][w] <= item.version
                                /\ item.version <= text[w].version

PageIsWhole ==
  \A c \in Clients : answer[c] = "whole" =>
    \E file \in DOMAIN Files :
      /\ Len(received[c]) = Len(Lines(file)) + 1
      /\ received[c][1] = StatusOf(file)
      /\ \A i \in 1..Len(Lines(file)) :
           Stands(received[c][i + 1], Lines(file)[i], c)

(* Everybody is sent the file he asks for, and who names none is sent none, *)
(* unless what he sent ends in the path or before, and the connection      *)
(* served just before his was refused: what that has left in the buffer    *)
(* may then go on where his request ends (httpd.c:146-168).                *)
AnsweredAsAsked ==
  at = "line" =>
    \/ /\ request[conn] \in {"home", "home_at_end", "other"}
       /\ received[conn][1] = StatusOf(get_filename(request[conn]))
    \/ request[conn] \in {"home_at_end", "one_word"} /\ refused
=============================================================================
