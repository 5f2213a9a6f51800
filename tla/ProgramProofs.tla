--------------------------- MODULE ProgramProofs ---------------------------
(***************************************************************************)
(* That the descriptors are accounted for, that running out of them is the *)
(* only way to crash, that pages are made only by a program that has       *)
(* started to the end, that a request is answered as asked and a page is   *)
(* whole, and the types of Program: for any number of clients, files of    *)
(* any length, lists that change all the time and whatever calls fail at   *)
(* whichever start.                                                        *)
(***************************************************************************)
EXTENDS Program, TLAPS

-----------------------------------------------------------------------------
(* The descriptors. *)
Counters ==
  /\ used \in Nat /\ accepted \in Nat
  /\ DescriptorsAccounted

LEMMA CountersInit == Init => Counters
BY DEF Init, HttpdInit, Counters, DescriptorsAccounted, OpenFiles

(* The steps of the server: a connection costs a descriptor for ever, a    *)
(* file is closed however http_sendfile is left.                           *)
LEMMA CountersServed == Counters /\ http_perform => Counters'
<1> SUFFICES ASSUME Counters, http_perform PROVE Counters'
  OBVIOUS
<1> USE DEF Counters, DescriptorsAccounted, OpenFiles, Step
<1>1. CASE Accept
  BY <1>1 DEF Accept
<1>2. CASE AcceptFails \/ ReadRequest \/ ReadNothing
  BY <1>2 DEF AcceptFails, ReadRequest, ReadNothing, serverVars
<1>3. CASE ReadFails \/ Refuse \/ Parse
  BY <1>3 DEF ReadFails, Refuse, Parse, EndConnection
<1>4. CASE Open
  BY <1>4 DEF Open
<1>5. CASE OpenFails
  BY <1>5 DEF OpenFails, serverVars
<1>6. CASE SendHeader \/ SendLine
  BY <1>6 DEF SendHeader, SendLine
<1>7. CASE SendLast \/ SendFails
  <2>1. /\ at \in {"header", "line"} /\ at' = "accept"
        /\ used' = used - 1 /\ accepted' = accepted
    BY <1>7 DEF SendLast, SendFails, CloseFile, EndConnection
  <2> QED BY <2>1
<1> QED BY <1>1, <1>2, <1>3, <1>4, <1>5, <1>6, <1>7 DEF http_perform

(* All others neither accept nor open anything. *)
LEMMA CountersNext == Counters /\ [Next]_vars => Counters'
<1> SUFFICES ASSUME Counters, [Next]_vars PROVE Counters'
  OBVIOUS
<1> USE DEF Counters, DescriptorsAccounted, OpenFiles, Step
<1>1. CASE ParseConfig \/ StartEngine \/ http_create \/ MakeSocketPair
           \/ MakeQlist \/ WatchSocket \/ Inject \/ StartBlive
  <2>1. /\ at \in StartPlaces
        /\ at' \in StartPlaces \cup {"accept", "exited", "undefined"}
    BY <1>1 DEF ParseConfig, StartEngine, http_create, MakeSocketPair, MakeQlist,
                WatchSocket, Inject, StartBlive, Fails, ExitOn, StartPlaces
  <2>2. UNCHANGED <<used, accepted>>
    BY <1>1 DEF ParseConfig, StartEngine, http_create, MakeSocketPair, MakeQlist,
                WatchSocket, Inject, StartBlive, serverVars
  <2> QED BY <2>1, <2>2 DEF StartPlaces
<1>2. CASE http_perform
  BY <1>2, CountersServed
<1>3. CASE ListChanges \/ ClientStep \/ Expire \/ UNCHANGED vars
  <2>1. UNCHANGED <<at, used, accepted>>
    BY <1>3 DEF ListChanges, ClientStep, Connect, Send, HangUp, Expire, vars,
                httpdVars, serverVars
  <2> QED BY <2>1
<1>4. CASE Restart
  BY <1>4 DEF Restart
<1> QED BY <1>1, <1>2, <1>3, <1>4 DEF Next, MainStep

LEMMA CountersInvariant == Spec => []Counters
BY CountersInit, CountersNext, PTL DEF Spec

(* Every descriptor in use is that of a connection that was accepted, none *)
(* of which is ever given back (httpd.c:169), or of the one file that is   *)
(* being sent (httpd.c:267, 271); and the NULL that http_sendfile hands to *)
(* fgets (httpd.c:234, 253) comes from those connections alone.            *)
THEOREM EveryDescriptorIsAccounted == Spec => []DescriptorsAccounted
BY CountersInvariant, PTL DEF Counters

-----------------------------------------------------------------------------
(* The order of the start. *)
Made(places) == at \in places \cup (HttpdPlaces \ {"crashed"})

BothRegistered(words) ==
  words \in Seq(Words) /\ Len(words) = 2 /\ words[1] = refresh /\ words[2] = queuelist

StartOrder ==
  /\ Made({"watch", "inject", "blive"}) => qlist = "made"
  /\ Made({"inject", "blive"}) => engine = "watches"
  /\ Made({}) => blive = "runs"
  /\ at \in StartPlaces \ {"blive"} => injections = <<>>
  /\ Made({"blive"}) => BothRegistered(injections)

LEMMA StartOrderInit == Init => StartOrder
BY DEF Init, HttpdInit, StartOrder, Made, HttpdPlaces

(* The start itself. *)
LEMMA StartOrderStarting ==
  ASSUME StartOrder,
         ParseConfig \/ StartEngine \/ http_create \/ MakeSocketPair
           \/ MakeQlist \/ WatchSocket \/ Inject \/ StartBlive
  PROVE  StartOrder'
<1> USE DEF StartOrder, Made, HttpdPlaces, StartPlaces, Step, Fails
<1>1. CASE ParseConfig
  BY <1>1 DEF ParseConfig, serverVars, threadVars
<1>2. CASE StartEngine
  BY <1>2 DEF StartEngine, serverVars
<1>3. CASE http_create
  BY <1>3 DEF http_create, serverVars, threadVars
<1>4. CASE MakeSocketPair
  BY <1>4 DEF MakeSocketPair, ExitOn, serverVars, threadVars
<1>5. CASE MakeQlist
  BY <1>5 DEF MakeQlist, ExitOn, serverVars
<1>6. CASE WatchSocket
  BY <1>6 DEF WatchSocket, serverVars
<1>7. CASE Inject
  <2> DEFINE one == http_html_injection(<<>>, refresh)
             both == http_html_injection(one, queuelist)
  <2>1. /\ MAX_INJECTION_NUM \in Nat /\ MAX_INJECTION_NUM >= 2
        /\ refresh \in Words /\ queuelist \in Words
    BY ProgramAssumption, HttpdAssumption
  <2>2. one \in Seq(Words) /\ Len(one) = 1 /\ one[1] = refresh
    BY <2>1 DEF http_html_injection
  <2>3. BothRegistered(both)
    BY <2>1, <2>2 DEF http_html_injection, BothRegistered
  <2> QED BY <1>7, <2>3 DEF Inject, threadVars
<1>8. CASE StartBlive
  BY <1>8 DEF StartBlive, serverVars
<1> QED BY <1>1, <1>2, <1>3, <1>4, <1>5, <1>6, <1>7, <1>8

(* The server stays in its places and changes nothing of this. *)
LEMMA StaysServing ==
  ASSUME http_perform
  PROVE  /\ at \in HttpdPlaces \ {"crashed"} /\ at' \in HttpdPlaces
         /\ UNCHANGED injections
<1> USE DEF HttpdPlaces, Step
<1>1. CASE Accept \/ AcceptFails \/ ReadRequest \/ ReadNothing \/ ReadFails
  BY <1>1 DEF Accept, AcceptFails, ReadRequest, ReadNothing, ReadFails,
              EndConnection, serverVars
<1>2. CASE Refuse \/ Parse \/ Open \/ OpenFails
  BY <1>2 DEF Refuse, Parse, Open, OpenFails, EndConnection, serverVars
<1>3. CASE SendHeader \/ SendLine \/ SendLast \/ SendFails
  BY <1>3 DEF SendHeader, SendLine, SendLast, SendFails, EndConnection
<1> QED BY <1>1, <1>2, <1>3 DEF http_perform

LEMMA StartOrderNext == StartOrder /\ [Next]_vars => StartOrder'
<1> SUFFICES ASSUME StartOrder, [Next]_vars PROVE StartOrder'
  OBVIOUS
<1>1. CASE ParseConfig \/ StartEngine \/ http_create \/ MakeSocketPair
           \/ MakeQlist \/ WatchSocket \/ Inject \/ StartBlive
  BY <1>1, StartOrderStarting
<1>2. CASE http_perform /\ UNCHANGED <<threadVars, restarts>>
  BY <1>2, StaysServing
     DEF StartOrder, Made, HttpdPlaces, StartPlaces, threadVars
<1>3. CASE ListChanges \/ ClientStep \/ Expire \/ UNCHANGED vars
  <2>1. UNCHANGED <<at, qlist, engine, blive, injections>>
    BY <1>3 DEF ListChanges, ClientStep, Connect, Send, HangUp, Expire, vars,
                httpdVars, serverVars, threadVars
  <2> QED BY <2>1 DEF StartOrder, Made
<1>4. CASE Restart
  BY <1>4 DEF Restart, StartOrder, Made, HttpdPlaces
<1> QED BY <1>1, <1>2, <1>3, <1>4 DEF Next, MainStep

(* A page is made only when there is a list to show on it, fed by the      *)
(* engine and the blive thread, and both words are registered              *)
(* (main.c:175-194, callbacks.c:210-222).                                  *)
THEOREM ReadyBeforeServing == Spec => []ReadyWhenServing
<1>1. ASSUME BothRegistered(injections) PROVE Range(injections) = Words
  <2>1. DOMAIN injections = {1, 2}
    BY <1>1 DEF BothRegistered
  <2> QED BY <1>1, <2>1, ProgramAssumption DEF BothRegistered, Range
<1>2. StartOrder => ReadyWhenServing
  BY <1>1 DEF StartOrder, Made, ReadyWhenServing, Serving
<1> QED BY <1>2, StartOrderInit, StartOrderNext, PTL DEF Spec

-----------------------------------------------------------------------------
(* The pages. *)
StartStep ==
  ParseConfig \/ StartEngine \/ http_create \/ MakeSocketPair
    \/ MakeQlist \/ WatchSocket \/ Inject \/ StartBlive

WorldStep == ListChanges \/ Expire

ClientAction ==
  \E c \in Clients : Connect(c) \/ HangUp(c) \/ \E r \in Requests : Send(c, r)

(* What the steps of the start, and those of the other threads and of the  *)
(* world, have nothing to do with.                                         *)
LEMMA StartFrame ==
  ASSUME StartStep
  PROVE  /\ UNCHANGED <<clientVars, text, used, backlog, conn, buffer, out, accepted>>
         /\ at \in StartPlaces
         /\ at' \in StartPlaces \cup {"accept", "exited", "undefined"}
<1> USE DEF StartPlaces, Step, Fails, ExitOn, serverVars, clientVars
<1>1. CASE ParseConfig \/ StartEngine \/ http_create \/ MakeSocketPair
  BY <1>1 DEF ParseConfig, StartEngine, http_create, MakeSocketPair
<1>2. CASE MakeQlist \/ WatchSocket \/ Inject \/ StartBlive
  BY <1>2 DEF MakeQlist, WatchSocket, Inject, StartBlive
<1> QED BY <1>1, <1>2 DEF StartStep

LEMMA WorldFrame ==
  ASSUME WorldStep
  PROVE  UNCHANGED <<at, clientVars, serverVars>>
BY DEF WorldStep, ListChanges, Expire

(* Next, split into the steps of the start, of the server, of the clients, *)
(* of the others and a restart.                                            *)
LEMMA Steps ==
  ASSUME [Next]_vars
  PROVE  \/ StartStep
         \/ http_perform /\ UNCHANGED <<threadVars, restarts>>
         \/ ClientAction /\ UNCHANGED <<threadVars, restarts>>
         \/ WorldStep
         \/ Restart
         \/ UNCHANGED vars
<1>1. CASE ClientStep
  <2>1. HTTP_HOME \in Requests
    BY DEF HTTP_HOME, Requests
  <2> QED BY <1>1, <2>1 DEF ClientStep, ClientAction, HTTP_HOME
<1> QED BY <1>1 DEF Next, MainStep, StartStep, WorldStep

-----------------------------------------------------------------------------
(* The texts: the versions only grow, and no request is newer than them.   *)
Texts ==
  /\ text = [w \in Words |-> TextOf(w, text[w].version)]
  /\ \A w \in Words : text[w].version \in Nat
  /\ since \in [Clients -> [Words -> Nat]]
  /\ \A c \in Clients, w \in Words : since[c][w] <= text[w].version

TextsGrow ==
  \A w \in Words : text'[w].what = text[w].what
                   /\ text[w].version <= text'[w].version

LEMMA TextsInit == Init => Texts
<1> SUFFICES ASSUME Init PROVE Texts
  OBVIOUS
<1>1. \A w \in Words : text[w] = TextOf(w, 0) /\ text[w].version = 0
  BY DEF Init, TextOf
<1> QED BY <1>1 DEF Init, HttpdInit, Texts

(* A text as the model writes it. *)
LEMMA TextFields ==
  ASSUME NEW w, NEW v
  PROVE  TextOf(w, v).version = v /\ TextOf(w, v).words = {}
         /\ TextOf(w, v).what = <<"text", w>>
BY DEF TextOf

LEMMA TextRaised ==
  \A w, v, u : [TextOf(w, v) EXCEPT !.version = u] = TextOf(w, u)
<1> SUFFICES ASSUME NEW w, NEW v, NEW u
             PROVE  [TextOf(w, v) EXCEPT !.version = u] = TextOf(w, u)
  OBVIOUS
<1> DEFINE x == <<"text", w>>
<1>1. [[what |-> x, words |-> {}, version |-> v] EXCEPT !.version = u]
        = [what |-> x, words |-> {}, version |-> u]
  <2> HIDE DEF x
  <2> QED OBVIOUS
<1> QED BY <1>1 DEF TextOf

LEMMA Quiet ==
  ASSUME Texts, UNCHANGED <<text, since>>
  PROVE  Texts' /\ TextsGrow
<1>1. Texts'
  BY DEF Texts
<1>2. TextsGrow
  BY DEF Texts, TextsGrow
<1> QED BY <1>1, <1>2

LEMMA TextsNext ==
  ASSUME Texts, [Next]_vars
  PROVE  Texts' /\ (Restart \/ TextsGrow)
<1>1. CASE StartStep
  BY <1>1, StartFrame, Quiet DEF clientVars
<1>2. CASE http_perform
  <2>1. UNCHANGED <<text, since>>
    BY <1>2 DEF http_perform, Accept, AcceptFails, ReadRequest, ReadNothing,
                ReadFails, Refuse, Parse, Open, OpenFails, SendHeader, SendLine,
                SendLast, SendFails, EndConnection, clientVars
  <2> QED BY <2>1, Quiet
<1>3. CASE ClientAction
  <2>1. CASE \E c \in Clients : Connect(c) \/ HangUp(c)
    BY <2>1, Quiet DEF Connect, HangUp
  <2>2. ASSUME NEW c \in Clients, NEW r \in Requests, Send(c, r)
        PROVE  Texts' /\ TextsGrow
    <3>1. /\ text' = text
          /\ since' = [since EXCEPT ![c] = [w \in Words |-> text[w].version]]
      BY <2>2 DEF Send
    <3>2. TextsGrow
      BY <3>1 DEF Texts, TextsGrow
    <3>3. Texts'
      BY <3>1 DEF Texts
    <3> QED BY <3>2, <3>3
  <2> QED BY <1>3, <2>1, <2>2 DEF ClientAction
<1>4. CASE WorldStep
  <2>1. CASE Expire
    BY <2>1, Quiet DEF Expire, clientVars
  <2>2. CASE ListChanges
    <3> DEFINE version(w) == text[w].version + (IF w = queuelist THEN 1 ELSE 0)
    <3>1. since' = since /\ text' = [text EXCEPT ![queuelist].version = @ + 1]
      BY <2>2 DEF ListChanges, clientVars
    <3>2. ASSUME NEW w \in Words
          PROVE  /\ text'[w] = TextOf(w, version(w)) /\ version(w) \in Nat
                 /\ text[w].version <= version(w)
      <4>1. PICK v \in Nat : v = text[w].version /\ text[w] = TextOf(w, v)
        BY DEF Texts
      <4>2. CASE w = queuelist
        <5>1. text'[w] = [text[w] EXCEPT !.version = v + 1]
          BY <3>1, <4>1, <4>2 DEF Texts
        <5>2. version(w) = v + 1 /\ v + 1 \in Nat /\ v <= v + 1
          BY <4>1, <4>2
        <5> QED BY <4>1, <5>1, <5>2, TextRaised
      <4>3. CASE w # queuelist
        <5>1. text'[w] = text[w]
          BY <3>1, <4>3 DEF Texts
        <5>2. version(w) = v
          BY <4>1, <4>3
        <5> QED BY <4>1, <5>1, <5>2
      <4> QED BY <4>2, <4>3
    <3>3. text' = [w \in Words |-> text'[w]]
      BY <3>1 DEF Texts
    <3> HIDE DEF version
    <3>4. \A w \in Words : /\ text'[w].version = version(w)
                           /\ text'[w].what = text[w].what
      BY <3>2, TextFields DEF Texts
    <3>5. \A w \in Words : text'[w] = TextOf(w, text'[w].version)
      BY <3>2, <3>4
    <3>6. text' = [w \in Words |-> TextOf(w, text'[w].version)]
      BY <3>3, <3>5
    <3>7. \A c \in Clients, w \in Words : since[c][w] <= version(w)
      BY <3>2 DEF Texts
    <3> QED BY <3>1, <3>2, <3>4, <3>6, <3>7, SMTT(30) DEF Texts, TextsGrow
  <2> QED BY <1>4, <2>1, <2>2 DEF WorldStep
<1>5. CASE Restart
  <2>1. /\ text' = [w \in Words |-> TextOf(w, 0)]
        /\ since' = [c \in Clients |-> [w \in Words |-> 0]]
    BY <1>5 DEF Restart
  <2> QED BY <1>5, <2>1, TextFields DEF Texts
<1>6. CASE UNCHANGED vars
  BY <1>6, Quiet DEF vars, httpdVars, clientVars
<1> QED BY <1>1, <1>2, <1>3, <1>4, <1>5, <1>6, Steps

-----------------------------------------------------------------------------
(* The connections.  Everybody who is connected, or has gone without being *)
(* noticed, waits in the backlog once or is the one served; who waits has  *)
(* got nothing and no answer yet.                                          *)
Statuses == {StatusOf(f) : f \in DOMAIN Files}
LinesOf(f) == {Files[f].lines[i] : i \in 1..Len(Files[f].lines)}
FileLines == UNION {LinesOf(f) : f \in DOMAIN Files}
TextItems == {TextOf(w, v) : w \in Words, v \in Nat}
Items == Statuses \cup FileLines \cup TextItems

InHand == {"parse", "open", "header", "line"}

EndTypes ==
  /\ client \in [Clients -> {"away", "connected", "gone"}]
  /\ request \in [Clients -> Requests \cup {"nothing"}]
  /\ received \in [Clients -> Seq(Items)]
  /\ answer \in [Clients -> Answers]
  /\ backlog \in Seq(Clients)
  /\ conn \in Clients \cup {None}

Queueing ==
  /\ \A i \in 1..Len(backlog) : client[backlog[i]] # "away" /\ backlog[i] # conn
  /\ \A i, j \in 1..Len(backlog) : backlog[i] = backlog[j] => i = j

Serves ==
  /\ conn # None => client[conn] # "away"
  /\ at \in InHand => conn # None /\ (request[conn] = "nothing" => client[conn] = "gone")
  /\ at \notin InHand \cup {"read", "crashed"} => conn = None

Unanswered ==
  \A c \in Clients : client[c] # "away" =>
    answer[c] = "none" /\ (received[c] # <<>> => c = conn /\ at = "line")

Ends == EndTypes /\ Queueing /\ Serves /\ Unanswered

LEMMA NoneIsNoClient == None \notin Clients
BY HttpdAssumption

LEMMA EndsInit == Init => Ends
BY NoneIsNoClient
   DEF Init, HttpdInit, Ends, EndTypes, Queueing, Serves, Unanswered, Answers, InHand

(* A step that touches neither the connections nor where the server is.    *)
LEMMA EndsKept ==
  ASSUME Ends, UNCHANGED <<clientVars, backlog, conn>>,
         \/ at' = at
         \/ at \notin InHand \cup {"read", "crashed", "line"}
            /\ at' \notin InHand \cup {"read", "crashed", "line"}
  PROVE  Ends'
BY DEF Ends, EndTypes, Queueing, Serves, Unanswered, InHand, clientVars

(* The end of a connection, however it comes. *)
LEMMA EndsAtEnd ==
  ASSUME Ends, conn \in Clients, NEW how \in Answers, EndConnection(how),
         UNCHANGED <<backlog, request>>, received' \in [Clients -> Seq(Items)],
         \A c \in Clients : c # conn => received'[c] = received[c]
  PROVE  Ends'
<1>1. EndTypes'
  BY DEF EndConnection, Ends, EndTypes
<1>2. Queueing' /\ Serves'
  BY NoneIsNoClient DEF EndConnection, Ends, EndTypes, Queueing, Serves, InHand
<1>3. Unanswered'
  BY DEF EndConnection, Ends, EndTypes, Unanswered
<1> QED BY <1>1, <1>2, <1>3 DEF Ends

(* What the clients do. *)
LEMMA EndsClients ==
  ASSUME Ends, ClientAction
  PROVE  Ends'
<1>1. ASSUME NEW c \in Clients, Connect(c) PROVE Ends'
  <2>1. /\ client[c] = "away" /\ client' = [client EXCEPT ![c] = "connected"]
        /\ backlog' = Append(backlog, c)
        /\ request' = [request EXCEPT ![c] = "nothing"]
        /\ received' = [received EXCEPT ![c] = <<>>]
        /\ answer' = [answer EXCEPT ![c] = "none"]
        /\ UNCHANGED <<at, conn>>
    BY <1>1 DEF Connect
  <2>2. EndTypes'
    BY <2>1 DEF Ends, EndTypes, Answers
  <2>3. /\ Len(backlog') = Len(backlog) + 1 /\ Len(backlog) \in Nat
        /\ backlog'[Len(backlog) + 1] = c
        /\ \A i \in 1..Len(backlog) : backlog'[i] = backlog[i]
    BY <2>1 DEF Ends, EndTypes
  <2>4. c # conn /\ \A i \in 1..Len(backlog) : backlog[i] # c
    BY <2>1, NoneIsNoClient DEF Ends, Queueing, Serves
  <2>5. Queueing'
    <3>1. \A i \in 1..Len(backlog') : i = Len(backlog) + 1 \/ i \in 1..Len(backlog)
      BY <2>3
    <3>2. \A i \in 1..Len(backlog) : backlog[i] \in Clients
      BY DEF Ends, EndTypes
    <3>3. ASSUME NEW i \in 1..Len(backlog')
          PROVE  client'[backlog'[i]] # "away" /\ backlog'[i] # conn'
      BY <2>1, <2>3, <2>4, <3>1, <3>2 DEF Ends, EndTypes, Queueing
    <3>4. ASSUME NEW i \in 1..Len(backlog'), NEW j \in 1..Len(backlog'),
                 backlog'[i] = backlog'[j]
          PROVE  i = j
      BY <2>3, <2>4, <3>1, <3>4 DEF Ends, Queueing
    <3> QED BY <3>3, <3>4 DEF Queueing
  <2>6. Serves' /\ Unanswered'
    BY <2>1, <2>4 DEF Ends, EndTypes, Serves, Unanswered
  <2> QED BY <2>2, <2>5, <2>6 DEF Ends
<1>2. ASSUME NEW c \in Clients, NEW r \in Requests, Send(c, r) PROVE Ends'
  <2>1. /\ request' = [request EXCEPT ![c] = r] /\ r # "nothing"
        /\ UNCHANGED <<at, conn, backlog, client, received, answer>>
    BY <1>2 DEF Send, serverVars, Requests
  <2> QED BY <2>1 DEF Ends, EndTypes, Queueing, Serves, Unanswered
<1>3. ASSUME NEW c \in Clients, HangUp(c) PROVE Ends'
  <2>1. /\ client[c] = "connected" /\ client' = [client EXCEPT ![c] = "gone"]
        /\ UNCHANGED <<at, conn, backlog, request, received, answer>>
    BY <1>3 DEF HangUp, serverVars
  <2> QED BY <2>1 DEF Ends, EndTypes, Queueing, Serves, Unanswered
<1> QED BY <1>1, <1>2, <1>3 DEF ClientAction

(* The steps of the server that end no connection. *)
LEMMA EndsServes ==
  ASSUME Ends,
         \/ Accept \/ AcceptFails \/ ReadRequest \/ ReadNothing \/ Parse
         \/ Open \/ OpenFails \/ (ReadFails /\ conn = None)
  PROVE  Ends'
<1> USE DEF Step, InHand
<1>1. CASE Accept
  <2>1. /\ at = "accept" /\ at' = "read"
        /\ backlog # <<>> /\ conn' = Head(backlog) /\ backlog' = Tail(backlog)
        /\ UNCHANGED clientVars
    BY <1>1 DEF Accept
  <2>2. /\ Len(backlog') = Len(backlog) - 1 /\ Len(backlog) \in Nat \ {0}
        /\ \A i \in 1..Len(backlog') : i + 1 \in 1..Len(backlog)
                                         /\ backlog'[i] = backlog[i + 1]
        /\ conn' = backlog[1] /\ 1 \in 1..Len(backlog)
        /\ \A i \in 1..Len(backlog) : backlog[i] \in Clients
        /\ backlog' \in Seq(Clients)
    BY <2>1 DEF Ends, EndTypes
  <2>3. EndTypes'
    BY <2>1, <2>2 DEF Ends, EndTypes, clientVars
  <2>4. Queueing'
    <3>1. ASSUME NEW i \in 1..Len(backlog')
          PROVE  client'[backlog'[i]] # "away" /\ backlog'[i] # conn'
      BY <2>1, <2>2 DEF Ends, Queueing, clientVars
    <3>2. ASSUME NEW i \in 1..Len(backlog'), NEW j \in 1..Len(backlog'),
                 backlog'[i] = backlog'[j]
          PROVE  i = j
      <4>1. i + 1 = j + 1
        BY <2>2, <3>2 DEF Ends, Queueing
      <4> QED BY <4>1, <2>2
    <3> QED BY <3>1, <3>2 DEF Queueing
  <2>5. Serves' /\ Unanswered'
    BY <2>1, <2>2, NoneIsNoClient
       DEF Ends, EndTypes, Queueing, Serves, Unanswered, clientVars
  <2> QED BY <2>3, <2>4, <2>5 DEF Ends
<1>2. CASE AcceptFails
  <2>1. at = "accept" /\ at' = "read" /\ conn' = None /\ conn = None
        /\ UNCHANGED <<backlog, clientVars>>
    BY <1>2 DEF AcceptFails, Ends, Serves
  <2> QED BY <2>1 DEF Ends, EndTypes, Queueing, Serves, Unanswered, clientVars
<1>3. CASE ReadRequest \/ ReadNothing
  <2>1. /\ at = "read" /\ at' = "parse" /\ conn # None
        /\ request[conn] = "nothing" => client[conn] = "gone"
        /\ UNCHANGED <<backlog, conn, clientVars>>
    BY <1>3 DEF ReadRequest, ReadNothing, serverVars
  <2> QED BY <2>1 DEF Ends, EndTypes, Queueing, Serves, Unanswered, clientVars
<1>4. CASE Parse \/ Open
  <2>1. /\ at \in {"parse", "open"} /\ at' \in {"open", "header"}
        /\ UNCHANGED <<backlog, conn, clientVars>>
    BY <1>4 DEF Parse, Open
  <2> QED BY <2>1 DEF Ends, EndTypes, Queueing, Serves, Unanswered, clientVars
<1>5. CASE OpenFails
  <2>1. at = "open" /\ at' = "crashed" /\ UNCHANGED <<backlog, conn, clientVars>>
    BY <1>5 DEF OpenFails, serverVars
  <2> QED BY <2>1 DEF Ends, EndTypes, Queueing, Serves, Unanswered, clientVars
<1>6. CASE ReadFails /\ conn = None
  <2>1. at = "read" /\ at' = "accept" /\ UNCHANGED <<backlog, conn, clientVars>>
    BY <1>6 DEF ReadFails
  <2> QED BY <1>6, <2>1 DEF Ends, EndTypes, Queueing, Serves, Unanswered, clientVars
<1> QED BY <1>1, <1>2, <1>3, <1>4, <1>5, <1>6

-----------------------------------------------------------------------------
(* What stands in the place of a line, with the state it depends on made   *)
(* explicit: the words registered, the texts, and the versions at the time *)
(* of the request.                                                         *)
Fits(item, line, inj, txt, snc) ==
  \/ line.words \cap Range(inj) = {} /\ item = line
  \/ \E w \in line.words :
       /\ item.what = txt[w].what
       /\ snc[w] <= item.version /\ item.version <= txt[w].version

LEMMA FileLine ==
  ASSUME NEW f \in DOMAIN Files
  PROVE  /\ Len(Files[f].lines) \in Nat \ {0}
         /\ Files[f].newline \in BOOLEAN
         /\ \A i \in 1..Len(Files[f].lines) :
              /\ Files[f].lines[i] \in FileLines
              /\ Files[f].lines[i] \in Items
<1>1. \A i \in 1..Len(Files[f].lines) : Files[f].lines[i] \in LinesOf(f)
  BY DEF LinesOf
<1>2. LinesOf(f) \subseteq FileLines
  BY DEF FileLines
<1> QED BY <1>1, <1>2, HttpdAssumption DEF Items

LEMMA LineFields ==
  ASSUME NEW l \in FileLines
  PROVE  l.words \subseteq Words /\ l.version = 0
BY HttpdAssumption DEF FileLines, LinesOf, IsLine

LEMMA ItemVersion ==
  ASSUME NEW x \in Items
  PROVE  x.version \in Nat
<1>1. CASE x \in Statuses
  BY <1>1 DEF Statuses, StatusOf
<1>2. CASE x \in FileLines
  BY <1>2, LineFields
<1>3. CASE x \in TextItems
  BY <1>3, TextFields DEF TextItems
<1> QED BY <1>1, <1>2, <1>3 DEF Items

(* What fits goes on to fit as the texts become newer. *)
LEMMA FitsOn ==
  ASSUME Texts, Texts', TextsGrow,
         NEW item \in Items, NEW line \in FileLines, NEW inj, NEW snc,
         Fits(item, line, inj, text, snc)
  PROVE  Fits(item, line, inj, text', snc)
<1>1. CASE line.words \cap Range(inj) = {} /\ item = line
  BY <1>1 DEF Fits
<1>2. CASE \E w \in line.words :
             /\ item.what = text[w].what
             /\ snc[w] <= item.version /\ item.version <= text[w].version
  <2>1. PICK w \in line.words :
             /\ item.what = text[w].what
             /\ snc[w] <= item.version /\ item.version <= text[w].version
    BY <1>2
  <2>2. w \in Words
    BY LineFields
  <2>3. item.version \in Nat /\ text[w].version \in Nat /\ text'[w].version \in Nat
    BY <2>2, ItemVersion DEF Texts
  <2>4. text[w].version <= text'[w].version /\ text'[w].what = text[w].what
    BY <2>2 DEF TextsGrow
  <2>5. item.what = text'[w].what /\ item.version <= text'[w].version
    BY <2>1, <2>3, <2>4
  <2> QED BY <2>1, <2>5 DEF Fits
<1> QED BY <1>1, <1>2 DEF Fits

(* The injection puts in the place of a line what fits. *)
LEMMA Injected ==
  ASSUME Texts, BothRegistered(injections), NEW line \in FileLines,
         NEW c \in Clients
  PROVE  /\ Fits(do_html_inject(line), line, injections, text, since[c])
         /\ do_html_inject(line) \in Items
         /\ do_html_inject(line) = line \/ do_html_inject(line).words = {}
<1>1. line \in Items
  BY DEF Items
<1>2. DOMAIN injections = {1, 2} /\ Len(injections) = 2
  BY DEF BothRegistered
<1>3. CASE Found(line) = {}
  <2>1. line.words \cap Range(injections) = {}
    BY <1>2, <1>3 DEF Found, Range
  <2> QED BY <1>1, <1>3, <2>1 DEF do_html_inject, Fits
<1>4. CASE Found(line) # {}
  <2> DEFINE i == CHOOSE i \in Found(line) : \A j \in Found(line) : i <= j
  <2>1. Found(line) \in {{1}, {2}, {1, 2}}
    BY <1>2, <1>4 DEF Found
  <2>2. \E k \in Found(line) : \A j \in Found(line) : k <= j
    BY <2>1
  <2>3. i \in Found(line)
    BY <2>2
  <2> HIDE DEF i
  <2>4. i \in {1, 2} /\ injections[i] \in line.words
    BY <1>2, <2>3 DEF Found
  <2>5. injections[i] \in Words
    BY <2>4, LineFields
  <2>6. do_html_inject(line) = text[injections[i]]
    BY <1>4 DEF do_html_inject, i
  <2>7. text[injections[i]].version \in Nat
        /\ text[injections[i]] = TextOf(injections[i], text[injections[i]].version)
        /\ since[c][injections[i]] \in Nat
        /\ since[c][injections[i]] <= text[injections[i]].version
    BY <2>5 DEF Texts
  <2>8. text[injections[i]] \in Items
    BY <2>5, <2>7 DEF Items, TextItems
  <2>9. text[injections[i]].words = {}
    BY <2>7, TextFields
  <2> QED BY <2>4, <2>6, <2>7, <2>8, <2>9 DEF Fits
<1> QED BY <1>3, <1>4

(* Injecting once more what has been put there changes nothing. *)
LEMMA InjectedAgain ==
  ASSUME Texts, BothRegistered(injections), NEW line \in FileLines,
         NEW c \in Clients, NEW item \in Items,
         Fits(item, line, injections, text, since[c]),
         item = line \/ item.words = {}
  PROVE  /\ Fits(do_html_inject(item), line, injections, text, since[c])
         /\ do_html_inject(item) \in Items
<1>1. CASE item = line
  BY <1>1, Injected
<1>2. CASE item.words = {}
  <2>1. Found(item) = {}
    BY <1>2 DEF Found
  <2> QED BY <2>1 DEF do_html_inject
<1> QED BY <1>1, <1>2

-----------------------------------------------------------------------------
(* The page being sent. *)
InPage == {"open", "header", "line", "crashed"}
OutRecords == [file : DOMAIN Files, pos : Nat, eof : BOOLEAN, data : Items \cup {None}]

(* The status and the first n lines have been sent. *)
Sent(r, file, n, inj, txt, snc) ==
  /\ Len(r) = n + 1
  /\ r[1] = StatusOf(file)
  /\ \A i \in 1..n : Fits(r[i + 1], Files[file].lines[i], inj, txt, snc)

(* Between two lines: data holds the next one, or, when a last line with a *)
(* newline has been sent, what was sent for it.                            *)
HalfSent(o, r, inj, txt, snc) ==
  LET lines == Files[o.file].lines
      newline == Files[o.file].newline
  IN /\ o.pos \in 1..Len(lines)
     /\ \/ /\ ~ o.eof /\ (o.pos = Len(lines) => newline)
           /\ o.data = lines[o.pos]
           /\ Sent(r, o.file, o.pos - 1, inj, txt, snc)
        \/ /\ o.eof /\ ~ newline /\ o.pos = Len(lines)
           /\ o.data = lines[o.pos]
           /\ Sent(r, o.file, o.pos - 1, inj, txt, snc)
        \/ /\ o.eof /\ newline /\ o.pos = Len(lines)
           /\ o.data = lines[o.pos] \/ o.data.words = {}
           /\ Fits(o.data, lines[o.pos], inj, txt, snc)
           /\ Sent(r, o.file, o.pos, inj, txt, snc)

Sending ==
  /\ at \in InPage => out \in OutRecords /\ out.pos <= Len(Files[out.file].lines)
  /\ at \notin InPage => out = None
  /\ at \in {"open", "header"} => out.pos = 0 /\ ~ out.eof
  /\ at = "line" => out.data \in Items
                    /\ HalfSent(out, received[conn], injections, text, since[conn])

WholePage(r, inj, txt, snc) ==
  \E file \in DOMAIN Files :
    /\ Len(r) = Len(Lines(file)) + 1
    /\ r[1] = StatusOf(file)
    /\ \A i \in 1..Len(Lines(file)) : Fits(r[i + 1], Lines(file)[i], inj, txt, snc)

LEMMA PageIsWholePage ==
  PageIsWhole <=>
    \A c \in Clients : answer[c] = "whole" =>
      WholePage(received[c], injections, text, since[c])
BY DEF PageIsWhole, WholePage, Stands, Fits

(* The lines of a page: those of the file, the last of them again if it    *)
(* ends in a newline.                                                      *)
LEMMA LinesFacts ==
  ASSUME NEW f \in DOMAIN Files
  PROVE  LET n == Len(Files[f].lines)
         IN /\ Len(Lines(f)) = IF Files[f].newline THEN n + 1 ELSE n
            /\ \A i \in 1..n : Lines(f)[i] = Files[f].lines[i]
            /\ Files[f].newline => Lines(f)[n + 1] = Files[f].lines[n]
            /\ \A i \in 1..Len(Lines(f)) : Lines(f)[i] \in FileLines
<1> DEFINE l == Files[f].lines
           n == Len(l)
<1>1. n \in Nat \ {0} /\ \A i \in 1..n : l[i] \in FileLines
  BY FileLine
<1>2. CASE ~ Files[f].newline
  BY <1>1, <1>2 DEF Lines
<1>3. CASE Files[f].newline
  <2>1. Lines(f) = Append(l, l[n])
    BY <1>3 DEF Lines
  <2> QED BY <1>1, <1>3, <2>1
<1> QED BY <1>2, <1>3, FileLine

LEMMA SentOn ==
  ASSUME Texts, Texts', TextsGrow, NEW r \in Seq(Items), NEW f \in DOMAIN Files,
         NEW n \in 0..Len(Files[f].lines), NEW inj, NEW snc,
         Sent(r, f, n, inj, text, snc)
  PROVE  Sent(r, f, n, inj, text', snc)
<1>1. ASSUME NEW i \in 1..n
      PROVE  Fits(r[i + 1], Files[f].lines[i], inj, text', snc)
  <2>1. i + 1 \in 1..Len(r) /\ i \in 1..Len(Files[f].lines)
    BY FileLine DEF Sent
  <2>2. r[i + 1] \in Items /\ Files[f].lines[i] \in FileLines
    BY <2>1, FileLine
  <2>3. Fits(r[i + 1], Files[f].lines[i], inj, text, snc)
    BY DEF Sent
  <2> QED BY <2>2, <2>3, FitsOn
<1> QED BY <1>1 DEF Sent

LEMMA HalfSentOn ==
  ASSUME Texts, Texts', TextsGrow, NEW o \in OutRecords, o.data \in Items,
         NEW r \in Seq(Items), NEW inj, NEW snc, HalfSent(o, r, inj, text, snc)
  PROVE  HalfSent(o, r, inj, text', snc)
<1>1. /\ o.file \in DOMAIN Files /\ o.pos \in 1..Len(Files[o.file].lines)
      /\ o.pos - 1 \in 0..Len(Files[o.file].lines)
      /\ o.pos \in 0..Len(Files[o.file].lines)
      /\ Files[o.file].lines[o.pos] \in FileLines
  BY FileLine DEF OutRecords, HalfSent
<1>2. \A n \in {o.pos - 1, o.pos} :
        Sent(r, o.file, n, inj, text, snc) => Sent(r, o.file, n, inj, text', snc)
  BY <1>1, SentOn
<1>3. Fits(o.data, Files[o.file].lines[o.pos], inj, text, snc)
        => Fits(o.data, Files[o.file].lines[o.pos], inj, text', snc)
  BY <1>1, FitsOn
<1> QED BY <1>1, <1>2, <1>3 DEF HalfSent

LEMMA WholePageOn ==
  ASSUME Texts, Texts', TextsGrow, NEW r \in Seq(Items), NEW inj, NEW snc,
         WholePage(r, inj, text, snc)
  PROVE  WholePage(r, inj, text', snc)
<1>1. PICK f \in DOMAIN Files :
        /\ Len(r) = Len(Lines(f)) + 1
        /\ r[1] = StatusOf(f)
        /\ \A i \in 1..Len(Lines(f)) : Fits(r[i + 1], Lines(f)[i], inj, text, snc)
  BY DEF WholePage
<1>2. ASSUME NEW i \in 1..Len(Lines(f))
      PROVE  Fits(r[i + 1], Lines(f)[i], inj, text', snc)
  <2>1. Len(Lines(f)) \in Nat
    BY LinesFacts, FileLine
  <2>2. r[i + 1] \in Items /\ Lines(f)[i] \in FileLines
    BY <1>1, <2>1, LinesFacts
  <2> QED BY <1>1, <2>2, FitsOn
<1> QED BY <1>1, <1>2 DEF WholePage

(* What fgets makes of the file: the next line, or the end alone. *)
LEMMA FgetsLine ==
  ASSUME NEW o \in OutRecords, o.pos < Len(Files[o.file].lines)
  PROVE  /\ Fgets(o) \in OutRecords /\ Fgets(o).file = o.file
         /\ Fgets(o).pos = o.pos + 1
         /\ Fgets(o).data = Files[o.file].lines[o.pos + 1]
         /\ Fgets(o).eof = (o.pos + 1 = Len(Files[o.file].lines)
                              /\ ~ Files[o.file].newline)
<1> DEFINE lines == Files[o.file].lines
           e == (o.pos + 1 = Len(lines) /\ ~ Files[o.file].newline)
<1>1. /\ o.file \in DOMAIN Files /\ o.pos \in Nat
      /\ o = [file |-> o.file, pos |-> o.pos, eof |-> o.eof, data |-> o.data]
  BY DEF OutRecords
<1>2. lines[o.pos + 1] \in Items /\ e \in BOOLEAN
  BY <1>1, FileLine
<1>3. Fgets(o) = [file |-> o.file, pos |-> o.pos + 1, eof |-> e,
                  data |-> lines[o.pos + 1]]
  BY <1>1 DEF Fgets
<1> HIDE DEF e
<1>4. /\ Fgets(o).file = o.file /\ Fgets(o).pos = o.pos + 1
      /\ Fgets(o).eof = e /\ Fgets(o).data = lines[o.pos + 1]
      /\ Fgets(o) \in OutRecords
  BY <1>1, <1>2, <1>3 DEF OutRecords
<1> QED BY <1>4 DEF e

LEMMA FgetsEnd ==
  ASSUME NEW o \in OutRecords, o.pos = Len(Files[o.file].lines)
  PROVE  /\ Fgets(o) \in OutRecords /\ Fgets(o).file = o.file
         /\ Fgets(o).pos = o.pos /\ Fgets(o).data = o.data /\ Fgets(o).eof = TRUE
<1>1. o.file \in DOMAIN Files /\ Len(Files[o.file].lines) \in Nat
  BY FileLine DEF OutRecords
<1>2. Fgets(o) = [o EXCEPT !.eof = TRUE]
  BY <1>1 DEF Fgets
<1> QED BY <1>2 DEF OutRecords

-----------------------------------------------------------------------------
(* A page that is whole stays so, and so does a half-sent one, when the    *)
(* step leaves them alone: the texts may become newer.                     *)
LEMMA PagesKept ==
  ASSUME Texts, Texts', TextsGrow, EndTypes, PageIsWhole,
         \A c \in Clients : answer'[c] = "whole" =>
           /\ answer[c] = "whole" /\ injections' = injections
           /\ received'[c] = received[c] /\ since'[c] = since[c]
  PROVE  PageIsWhole'
<1>1. ASSUME NEW c \in Clients, answer'[c] = "whole"
      PROVE  WholePage(received'[c], injections', text', since'[c])
  <2>1. /\ answer[c] = "whole" /\ injections' = injections
        /\ received'[c] = received[c] /\ since'[c] = since[c]
    BY <1>1
  <2>2. received[c] \in Seq(Items)
    BY DEF EndTypes
  <2>3. WholePage(received[c], injections, text, since[c])
    BY <2>1, PageIsWholePage
  <2> QED BY <2>1, <2>2, <2>3, WholePageOn
<1> QED BY <1>1 DEF PageIsWhole, WholePage, Stands, Fits

LEMMA SendingKept ==
  ASSUME Texts, Texts', TextsGrow, Ends, Sending,
         UNCHANGED <<at, conn, out, injections>>,
         at = "line" => received'[conn] = received[conn] /\ since'[conn] = since[conn]
  PROVE  Sending'
<1>1. CASE at # "line"
  BY <1>1 DEF Sending
<1>2. CASE at = "line"
  <2>1. conn \in Clients /\ received[conn] \in Seq(Items)
    BY <1>2 DEF Ends, EndTypes, Serves, InHand
  <2>2. /\ out \in OutRecords /\ out.data \in Items
        /\ HalfSent(out, received[conn], injections, text, since[conn])
    BY <1>2 DEF Sending, InPage
  <2>3. HalfSent(out, received[conn], injections, text', since[conn])
    BY <2>1, <2>2, HalfSentOn
  <2> QED BY <1>2, <2>2, <2>3 DEF Sending, InPage
<1> QED BY <1>1, <1>2

(* What the invariant says of the client that is served. *)
LEMMA InHandFacts ==
  ASSUME Ends, at \in InHand
  PROVE  /\ conn \in Clients /\ client[conn] # "away" /\ answer[conn] = "none"
         /\ received[conn] \in Seq(Items)
         /\ at # "line" => received[conn] = <<>>
BY DEF Ends, EndTypes, Serves, Unanswered

-----------------------------------------------------------------------------
(* The invariant, and the steps of the server that send. *)
Altered == request[conn] \in {"home_at_end", "one_word"} /\ refused

(* Only a connection that was refused leaves something in the buffer, and  *)
(* no path.                                                                *)
LeftOver ==
  /\ at \in StartPlaces => buffer = "clean"
  /\ at \in {"accept", "read"} => buffer = "clean" \/ (buffer = "one_word" /\ refused)

AskedFile ==
  /\ LeftOver
  /\ at = "parse" => \/ request[conn] = "nothing" /\ NoPath(buffer)
                     \/ request[conn] \in Requests /\ buffer = request[conn]
                     \/ Altered
  /\ at \in {"open", "header", "line"} =>
       \/ /\ request[conn] \in {"home", "home_at_end", "other"}
          /\ out.file = get_filename(request[conn])
       \/ Altered

Asked == AskedFile /\ AnsweredAsAsked

(* What a send of the page adds. *)
LEMMA Added ==
  ASSUME Ends, conn \in Clients, NEW item \in Items,
         received' = [received EXCEPT ![conn] = Append(@, item)]
  PROVE  /\ received' \in [Clients -> Seq(Items)]
         /\ received'[conn] \in Seq(Items)
         /\ Len(received'[conn]) = Len(received[conn]) + 1
         /\ received'[conn][Len(received[conn]) + 1] = item
         /\ \A i \in 1..Len(received[conn]) : received'[conn][i] = received[conn][i]
         /\ \A c \in Clients : c # conn => received'[c] = received[c]
<1>1. received[conn] \in Seq(Items) /\ received \in [Clients -> Seq(Items)]
  BY DEF Ends, EndTypes
<1>2. received'[conn] = Append(received[conn], item)
  BY <1>1
<1> QED BY <1>1, <1>2

LEMMA SentMore ==
  ASSUME NEW r \in Seq(Items), NEW r2 \in Seq(Items), NEW f \in DOMAIN Files,
         NEW n \in Nat, NEW inj, NEW txt, NEW snc,
         Sent(r, f, n, inj, txt, snc),
         Len(r2) = Len(r) + 1, \A i \in 1..Len(r) : r2[i] = r[i],
         Fits(r2[Len(r) + 1], Files[f].lines[n + 1], inj, txt, snc)
  PROVE  Sent(r2, f, n + 1, inj, txt, snc)
<1>1. Len(r) = n + 1 /\ Len(r2) = n + 2 /\ r2[1] = StatusOf(f)
  BY DEF Sent
<1>2. ASSUME NEW i \in 1..(n + 1)
      PROVE  Fits(r2[i + 1], Files[f].lines[i], inj, txt, snc)
  <2>1. CASE i = n + 1
    BY <1>1, <2>1
  <2>2. CASE i \in 1..n
    <3>1. r2[i + 1] = r[i + 1]
      BY <1>1, <2>2
    <3> QED BY <2>2, <3>1 DEF Sent
  <2> QED BY <2>1, <2>2
<1> QED BY <1>1, <1>2 DEF Sent

LEMMA HeaderKeeps ==
  ASSUME Texts, Ends, Sending, Asked, SendHeader
  PROVE  Ends' /\ Sending' /\ Asked'
<1>1. /\ at = "header" /\ at' = "line"
      /\ received' = [received EXCEPT ![conn] = Append(@, StatusOf(out.file))]
      /\ out' = Fgets(out)
      /\ UNCHANGED <<injections, text, since, conn, backlog, client, request, answer,
                     refused>>
  BY DEF SendHeader, Step
<1>2. conn \in Clients /\ client[conn] # "away" /\ received[conn] = <<>>
  BY <1>1, InHandFacts DEF InHand
<1>3. /\ out \in OutRecords /\ out.pos = 0 /\ ~ out.eof
      /\ out.file \in DOMAIN Files /\ Len(Files[out.file].lines) \in Nat \ {0}
  BY <1>1, FileLine DEF Sending, InPage, OutRecords
<1>4. StatusOf(out.file) \in Items
  BY <1>3 DEF Items, Statuses
<1>5. /\ received' \in [Clients -> Seq(Items)]
      /\ Len(received'[conn]) = 1 /\ received'[conn][1] = StatusOf(out.file)
      /\ \A c \in Clients : c # conn => received'[c] = received[c]
  <2> DEFINE status == StatusOf(out.file)
  <2>1. received' = [received EXCEPT ![conn] = Append(@, status)]
    BY <1>1
  <2>2. status \in Items
    BY <1>4
  <2> HIDE DEF status
  <2>3. /\ received' \in [Clients -> Seq(Items)]
        /\ Len(received'[conn]) = Len(received[conn]) + 1
        /\ received'[conn][Len(received[conn]) + 1] = status
        /\ \A c \in Clients : c # conn => received'[c] = received[c]
    BY <1>2, <2>1, <2>2, Added
  <2>4. Len(received[conn]) = 0 /\ 0 + 1 = 1
    BY <1>2
  <2>5. Len(received'[conn]) = 1 /\ received'[conn][1] = status
    BY <2>3, <2>4
  <2> QED BY <2>3, <2>5 DEF status
<1>6. Ends'
  <2>1. EndTypes'
    BY <1>1, <1>5 DEF Ends, EndTypes
  <2>2. Queueing' /\ Serves'
    BY <1>1, NoneIsNoClient DEF Ends, Queueing, Serves, InHand
  <2>3. Unanswered'
    BY <1>1, <1>2, <1>5 DEF Ends, Unanswered
  <2> QED BY <2>1, <2>2, <2>3 DEF Ends
<1>7. /\ out' \in OutRecords /\ out'.file = out.file /\ out'.pos = 1
      /\ out'.data = Files[out.file].lines[1] /\ out'.data \in Items
      /\ out'.eof = (1 = Len(Files[out.file].lines) /\ ~ Files[out.file].newline)
  <2>1. out.pos + 1 = 1 /\ out.pos < Len(Files[out.file].lines)
    BY <1>3
  <2>2. /\ Fgets(out) \in OutRecords /\ Fgets(out).file = out.file
        /\ Fgets(out).pos = out.pos + 1
        /\ Fgets(out).data = Files[out.file].lines[out.pos + 1]
        /\ Fgets(out).eof = (out.pos + 1 = Len(Files[out.file].lines)
                               /\ ~ Files[out.file].newline)
    BY <1>3, <2>1, FgetsLine
  <2>3. Files[out.file].lines[1] \in Items
    BY <1>3, FileLine
  <2> QED BY <1>1, <2>1, <2>2, <2>3
<1>8. Sent(received'[conn], out.file, 0, injections, text, since[conn])
  BY <1>5 DEF Sent
<1>9. Files[out.file].newline \in BOOLEAN
  BY <1>3, FileLine
<1>10. HalfSent(out', received'[conn], injections, text, since[conn])
  <2>1. 1 \in 1..Len(Files[out.file].lines) /\ 1 - 1 = 0
    BY <1>3
  <2>2. out'.eof <=> 1 = Len(Files[out.file].lines) /\ ~ Files[out.file].newline
    BY <1>7
  <2> QED BY <1>7, <1>8, <1>9, <2>1, <2>2 DEF HalfSent
<1>11. Sending'
  BY <1>1, <1>3, <1>7, <1>10 DEF Sending, InPage
<1>12. Asked'
  <2>1. AskedFile'
    BY <1>1, <1>7 DEF Asked, AskedFile, LeftOver, Altered, StartPlaces
  <2>2. received'[conn'][1] = StatusOf(out'.file)
    BY <1>1, <1>5, <1>7
  <2> QED BY <1>1, <2>1, <2>2 DEF Asked, AskedFile, Altered, AnsweredAsAsked
<1> QED BY <1>6, <1>11, <1>12

(* Between two lines, with the words registered. *)
LineSending ==
  /\ at = "line" /\ BothRegistered(injections)
  /\ Texts /\ Ends /\ Sending

LEMMA LineFacts ==
  ASSUME LineSending
  PROVE  /\ conn \in Clients /\ client[conn] # "away"
         /\ received[conn] \in Seq(Items)
         /\ out \in OutRecords /\ out.data \in Items /\ out.file \in DOMAIN Files
         /\ out.pos \in 1..Len(Files[out.file].lines)
         /\ Len(Files[out.file].lines) \in Nat \ {0}
         /\ Files[out.file].newline \in BOOLEAN
         /\ Files[out.file].lines[out.pos] \in FileLines
         /\ HalfSent(out, received[conn], injections, text, since[conn])
<1>1. /\ out \in OutRecords /\ out.data \in Items
      /\ HalfSent(out, received[conn], injections, text, since[conn])
  BY DEF LineSending, Sending, InPage
<1>2. out.file \in DOMAIN Files
  BY <1>1 DEF OutRecords
<1>3. out.pos \in 1..Len(Files[out.file].lines)
  BY <1>1 DEF HalfSent
<1> QED BY <1>1, <1>2, <1>3, FileLine, InHandFacts DEF LineSending, InHand

(* An item that fits the next line, sent. *)
LEMMA SentFitting ==
  ASSUME LineSending, NEW n \in Nat, NEW item \in Items,
         Sent(received[conn], out.file, n, injections, text, since[conn]),
         Fits(item, Files[out.file].lines[n + 1], injections, text, since[conn]),
         received' = [received EXCEPT ![conn] = Append(@, item)]
  PROVE  Sent(received'[conn], out.file, n + 1, injections, text, since[conn])
<1>1. /\ received'[conn] \in Seq(Items)
      /\ Len(received'[conn]) = Len(received[conn]) + 1
      /\ received'[conn][Len(received[conn]) + 1] = item
      /\ \A i \in 1..Len(received[conn]) : received'[conn][i] = received[conn][i]
  BY LineFacts, Added DEF LineSending
<1>2. received[conn] \in Seq(Items) /\ out.file \in DOMAIN Files
  BY LineFacts
<1> QED BY <1>1, <1>2, SentMore

(* The sending of a line changes of the connections what was received.     *)
LEMMA LineEnds ==
  ASSUME LineSending, NEW item \in Items,
         received' = [received EXCEPT ![conn] = Append(@, item)],
         UNCHANGED <<at, conn, backlog, client, request, answer>>
  PROVE  Ends'
<1>1. /\ received' \in [Clients -> Seq(Items)] /\ conn \in Clients
      /\ \A c \in Clients : c # conn => received'[c] = received[c]
  BY LineFacts, Added DEF LineSending
<1>2. EndTypes' /\ Queueing' /\ Serves'
  BY <1>1 DEF LineSending, Ends, EndTypes, Queueing, Serves
<1>3. Unanswered'
  BY <1>1 DEF LineSending, Ends, Unanswered
<1> QED BY <1>2, <1>3 DEF Ends

(* What was asked for is still answered so: the status stays the first.    *)
LEMMA LineAsked ==
  ASSUME LineSending, AnsweredAsAsked, NEW item \in Items, UNCHANGED request,
         at' = "line" => UNCHANGED <<conn, refused>>,
         received' = [received EXCEPT ![conn] = Append(@, item)]
  PROVE  AnsweredAsAsked'
<1>1. Len(received[conn]) \in Nat \ {0} /\ received[conn] # <<>>
  BY LineFacts DEF HalfSent, Sent
<1>2. /\ received'[conn][1] = received[conn][1] /\ conn \in Clients
      /\ \A c \in Clients : c # conn => received'[c] = received[c]
  BY <1>1, LineFacts, Added DEF LineSending
<1> QED BY <1>1, <1>2 DEF AnsweredAsAsked, LineSending

LEMMA LineKeeps ==
  ASSUME LineSending, Asked, SendLine
  PROVE  Ends' /\ Sending' /\ Asked'
<1> DEFINE f == out.file
           n == out.pos
           line == Files[f].lines[n]
           item == do_html_inject(out.data)
           next == [out EXCEPT !.data = item]
<1>1. /\ at = "line" /\ ~ out.eof
      /\ received' = [received EXCEPT ![conn] = Append(@, item)]
      /\ out' = Fgets(next)
      /\ UNCHANGED <<at, injections, text, since, conn, backlog, client, request, answer,
                     refused>>
  BY DEF SendLine
<1>2. /\ n \in 1..Len(Files[f].lines) /\ out.data = line
      /\ n = Len(Files[f].lines) => Files[f].newline
      /\ Sent(received[conn], f, n - 1, injections, text, since[conn])
  BY <1>1, LineFacts DEF HalfSent
<1>3. /\ Fits(item, line, injections, text, since[conn])
      /\ item \in Items
      /\ item = line \/ item.words = {}
  BY <1>2, LineFacts, Injected DEF LineSending
<1> HIDE DEF item
<1>4. Sent(received'[conn], f, n, injections, text, since[conn])
  <2>1. n - 1 \in Nat /\ (n - 1) + 1 = n
    BY <1>2
  <2> QED BY <1>1, <1>2, <1>3, <2>1, SentFitting
<1>5. /\ next \in OutRecords /\ next.file = f /\ next.pos = n /\ next.data = item
  BY <1>3, LineFacts DEF OutRecords
<1> HIDE DEF next
<1>6. Len(Files[f].lines) \in Nat \ {0} /\ Files[f].newline \in BOOLEAN /\ f \in DOMAIN Files
  BY LineFacts
<1>7. /\ out' \in OutRecords /\ out'.file = f /\ out'.data \in Items
      /\ out'.pos <= Len(Files[f].lines)
      /\ HalfSent(out', received'[conn], injections, text, since[conn])
  <2>1. CASE n < Len(Files[f].lines)
    <3>1. /\ out' \in OutRecords /\ out'.file = f /\ out'.pos = n + 1
          /\ out'.data = Files[f].lines[n + 1]
          /\ out'.eof = (n + 1 = Len(Files[f].lines) /\ ~ Files[f].newline)
      BY <1>1, <1>5, <2>1, FgetsLine
    <3>2. n + 1 \in 1..Len(Files[f].lines) /\ (n + 1) - 1 = n
      BY <1>2, <1>6, <2>1
    <3>3. out'.data \in Items
      BY <1>6, <3>1, <3>2, FileLine
    <3>4. out'.eof <=> n + 1 = Len(Files[f].lines) /\ ~ Files[f].newline
      BY <3>1
    <3>5. HalfSent(out', received'[conn], injections, text, since[conn])
      BY <1>4, <1>6, <3>1, <3>2, <3>4 DEF HalfSent
    <3> QED BY <3>1, <3>2, <3>3, <3>5
  <2>2. CASE n = Len(Files[f].lines)
    <3>1. /\ out' \in OutRecords /\ out'.file = f /\ out'.pos = n
          /\ out'.data = item /\ out'.eof = TRUE
      BY <1>1, <1>5, <2>2, FgetsEnd
    <3>2. HalfSent(out', received'[conn], injections, text, since[conn])
      BY <1>2, <1>3, <1>4, <2>2, <3>1 DEF HalfSent
    <3> QED BY <1>2, <1>3, <3>1, <3>2
  <2> QED BY <1>2, <1>6, <2>1, <2>2
<1>8. Ends' /\ AnsweredAsAsked'
  BY <1>1, <1>3, LineEnds, LineAsked DEF Asked
<1>9. Sending'
  BY <1>1, <1>7 DEF Sending, InPage
<1>10. AskedFile'
  BY <1>1, <1>7 DEF Asked, AskedFile, LeftOver, Altered, StartPlaces
<1> QED BY <1>8, <1>9, <1>10 DEF Asked

(* All lines have been sent: what follows is the page.                     *)
LEMMA LastIsWhole ==
  ASSUME LineSending, out.eof, NEW item, item = do_html_inject(out.data),
         received' = [received EXCEPT ![conn] = Append(@, item)]
  PROVE  item \in Items /\ WholePage(received'[conn], injections, text, since[conn])
<1> DEFINE f == out.file
           n == Len(Files[f].lines)
<1>1. /\ f \in DOMAIN Files /\ n \in Nat \ {0} /\ out.data \in Items
      /\ Files[f].newline \in BOOLEAN /\ Files[f].lines[n] \in FileLines
      /\ out.pos = n
  BY LineFacts DEF HalfSent
<1>2. /\ Len(Lines(f)) = IF Files[f].newline THEN n + 1 ELSE n
      /\ \A i \in 1..n : Lines(f)[i] = Files[f].lines[i]
      /\ Files[f].newline => Lines(f)[n + 1] = Files[f].lines[n]
  BY <1>1, LinesFacts
<1>3. CASE ~ Files[f].newline
  <2>1. /\ out.data = Files[f].lines[n]
        /\ Sent(received[conn], f, n - 1, injections, text, since[conn])
    BY <1>1, <1>3, LineFacts DEF HalfSent
  <2>2. item \in Items
        /\ Fits(item, Files[f].lines[n], injections, text, since[conn])
    BY <1>1, <2>1, LineFacts, Injected DEF LineSending
  <2>3. n - 1 \in Nat /\ (n - 1) + 1 = n
    BY <1>1
  <2>4. Sent(received'[conn], f, n, injections, text, since[conn])
    BY <2>1, <2>2, <2>3, SentFitting
  <2> QED BY <1>1, <1>2, <1>3, <2>2, <2>4 DEF WholePage, Sent
<1>4. CASE Files[f].newline
  <2>1. /\ out.data = Files[f].lines[n] \/ out.data.words = {}
        /\ Fits(out.data, Files[f].lines[n], injections, text, since[conn])
        /\ Sent(received[conn], f, n, injections, text, since[conn])
    BY <1>1, <1>4, LineFacts DEF HalfSent
  <2>2. item \in Items
        /\ Fits(item, Files[f].lines[n], injections, text, since[conn])
    BY <1>1, <2>1, LineFacts, InjectedAgain DEF LineSending
  <2>3. /\ received[conn] \in Seq(Items) /\ Len(received[conn]) = n + 1
        /\ received'[conn] \in Seq(Items)
        /\ Len(received'[conn]) = n + 2
        /\ received'[conn][n + 2] = item
        /\ \A i \in 1..(n + 1) : received'[conn][i] = received[conn][i]
    <3>1. Len(received[conn]) = n + 1
      BY <2>1 DEF Sent
    <3>2. /\ received[conn] \in Seq(Items) /\ received'[conn] \in Seq(Items)
          /\ Len(received'[conn]) = Len(received[conn]) + 1
          /\ received'[conn][Len(received[conn]) + 1] = item
          /\ \A i \in 1..Len(received[conn]) : received'[conn][i] = received[conn][i]
      BY <2>2, LineFacts, Added DEF LineSending
    <3>3. (n + 1) + 1 = n + 2
      BY <1>1
    <3> QED BY <3>1, <3>2, <3>3
  <2>4. ASSUME NEW i \in 1..(n + 1)
        PROVE  Fits(received'[conn][i + 1], Lines(f)[i], injections, text, since[conn])
    <3>1. CASE i = n + 1
      <4>1. i + 1 = n + 2
        BY <1>1, <3>1
      <4>2. received'[conn][i + 1] = item /\ Lines(f)[i] = Files[f].lines[n]
        BY <1>2, <1>4, <2>3, <3>1, <4>1
      <4> QED BY <2>2, <4>2
    <3>2. CASE i \in 1..n
      <4>1. i + 1 \in 1..(n + 1)
        BY <1>1, <3>2
      <4>2. /\ received'[conn][i + 1] = received[conn][i + 1]
            /\ Lines(f)[i] = Files[f].lines[i]
        BY <1>2, <2>3, <3>2, <4>1
      <4>3. Fits(received[conn][i + 1], Files[f].lines[i], injections, text, since[conn])
        BY <2>1, <3>2 DEF Sent
      <4> QED BY <4>2, <4>3
    <3>3. i = n + 1 \/ i \in 1..n
      BY <1>1
    <3> QED BY <3>1, <3>2, <3>3
  <2>5. /\ received'[conn][1] = StatusOf(f) /\ Len(received'[conn]) = Len(Lines(f)) + 1
    BY <1>1, <1>2, <1>4, <2>1, <2>3 DEF Sent
  <2>6. Len(Lines(f)) = n + 1
    BY <1>2, <1>4
  <2> QED BY <1>1, <2>2, <2>4, <2>5, <2>6 DEF WholePage
<1> QED BY <1>1, <1>3, <1>4

LEMMA LastKeeps ==
  ASSUME LineSending, PageIsWhole, Asked, SendLast
  PROVE  Ends' /\ Sending' /\ PageIsWhole' /\ Asked'
<1> DEFINE item == do_html_inject(out.data)
<1>1. /\ out.eof /\ at' = "accept" /\ out' = None /\ buffer' = "clean"
      /\ received' = [received EXCEPT ![conn] = Append(@, item)]
      /\ EndConnection("whole")
      /\ UNCHANGED <<injections, text, since, backlog, request>>
  BY DEF SendLast, CloseFile, EndConnection
<1>2. item \in Items /\ WholePage(received'[conn], injections, text, since[conn])
  BY <1>1, LastIsWhole
<1> HIDE DEF item
<1>3. /\ conn \in Clients /\ received' \in [Clients -> Seq(Items)]
      /\ \A c \in Clients : c # conn => received'[c] = received[c]
  BY <1>1, <1>2, LineFacts, Added DEF LineSending
<1>4. Ends'
  BY <1>1, <1>3, EndsAtEnd DEF LineSending, Answers
<1>5. Sending'
  BY <1>1 DEF Sending, InPage
<1>6. PageIsWhole'
  <2>1. ASSUME NEW c \in Clients, answer'[c] = "whole"
        PROVE  WholePage(received'[c], injections', text', since'[c])
    <3>1. CASE c = conn
      BY <1>1, <1>2, <3>1
    <3>2. CASE c # conn
      <4>1. answer[c] = "whole" /\ received'[c] = received[c]
        BY <1>1, <1>3, <2>1, <3>2 DEF EndConnection, LineSending, Ends, EndTypes
      <4>2. WholePage(received[c], injections, text, since[c])
        BY <4>1, PageIsWholePage
      <4> QED BY <1>1, <4>1, <4>2
    <3> QED BY <3>1, <3>2
  <2> QED BY <2>1 DEF PageIsWhole, WholePage, Stands, Fits
<1>7. Asked'
  <2>1. AskedFile'
    BY <1>1 DEF AskedFile, LeftOver, StartPlaces
  <2> QED BY <1>1, <1>2, <2>1, LineAsked DEF Asked
<1> QED BY <1>4, <1>5, <1>6, <1>7

(* The other steps of the server: those that end a connection early, ...   *)
LEMMA CutKeeps ==
  ASSUME Texts, Ends, Sending, PageIsWhole, Asked,
         Refuse \/ SendFails \/ (ReadFails /\ conn # None)
  PROVE  Ends' /\ Sending' /\ PageIsWhole' /\ Asked'
<1>1. /\ conn \in Clients
      /\ \E how \in {"refused", "cut"} : EndConnection(how)
      /\ out' = None
      /\ UNCHANGED <<text, injections, backlog, request, since, received>>
  <2>1. CASE Refuse
    BY <2>1, InHandFacts DEF Refuse, InHand, Sending, InPage
  <2>2. CASE SendFails
    BY <2>2, InHandFacts DEF SendFails, CloseFile, InHand
  <2>3. CASE ReadFails /\ conn # None
    BY <2>3 DEF ReadFails, Ends, EndTypes, Sending, InPage
  <2> QED BY <2>1, <2>2, <2>3
<1>2. PICK how \in {"refused", "cut"} : EndConnection(how)
  BY <1>1
<1>3. Ends'
  <2>1. how \in Answers /\ received' \in [Clients -> Seq(Items)]
    BY <1>1 DEF Answers, Ends, EndTypes
  <2> QED BY <1>1, <1>2, <2>1, EndsAtEnd
<1>4. at' = "accept" /\ answer' = [answer EXCEPT ![conn] = how]
  BY <1>2 DEF EndConnection
<1>5. Sending'
  BY <1>1, <1>4 DEF Sending, InPage
<1>6. \A c \in Clients : answer'[c] = "whole" => answer[c] = "whole"
  BY <1>4 DEF Ends, EndTypes
<1>7. PageIsWhole'
  BY <1>1, <1>6, Quiet, PagesKept DEF Ends
<1>8. buffer' = "clean" \/ (buffer' = "one_word" /\ refused')
  <2>1. CASE Refuse
    BY <2>1 DEF Refuse, EndConnection, NoPath
  <2>2. CASE SendFails
    BY <2>2 DEF SendFails, CloseFile
  <2>3. CASE ReadFails /\ conn # None
    BY <2>3 DEF ReadFails, EndConnection, Asked, AskedFile, LeftOver
  <2> QED BY <2>1, <2>2, <2>3
<1>9. Asked'
  BY <1>4, <1>8 DEF Asked, AskedFile, LeftOver, AnsweredAsAsked, StartPlaces
<1> QED BY <1>3, <1>5, <1>7, <1>9

(* ... and those that neither send nor end anything.                       *)
LEMMA OthersKeep ==
  ASSUME Texts, Ends, Sending, PageIsWhole, Asked,
         \/ Accept \/ AcceptFails \/ ReadRequest \/ ReadNothing \/ Parse
         \/ Open \/ OpenFails \/ (ReadFails /\ conn = None)
  PROVE  Ends' /\ Sending' /\ PageIsWhole' /\ Asked'
<1> USE DEF Step
<1>1. UNCHANGED <<text, injections, clientVars>>
  BY DEF Accept, AcceptFails, ReadRequest, ReadNothing, Parse, Open, OpenFails,
         ReadFails, serverVars
<1>2. Ends'
  BY EndsServes
<1>3. PageIsWhole'
  BY <1>1, Quiet, PagesKept DEF Ends, clientVars
<1>4. AnsweredAsAsked'
  <2>1. at' # "line"
    BY DEF Accept, AcceptFails, ReadRequest, ReadNothing, Parse, Open, OpenFails,
           ReadFails
  <2> QED BY <2>1 DEF AnsweredAsAsked
<1>5. Sending' /\ AskedFile'
  <2>1. CASE Accept \/ AcceptFails \/ ReadRequest \/ ReadNothing
             \/ (ReadFails /\ conn = None)
    <3>1. /\ at \in {"accept", "read"} /\ at' \in {"read", "parse", "accept"}
          /\ out' = out /\ UNCHANGED <<request, refused>>
          /\ at' # "parse" => buffer' = buffer
      BY <2>1 DEF Accept, AcceptFails, ReadRequest, ReadNothing, ReadFails,
                  serverVars, clientVars
    <3>2. buffer = "clean" \/ (buffer = "one_word" /\ refused)
      BY <3>1 DEF Asked, AskedFile, LeftOver
    <3>3. at' = "parse" =>
            /\ conn' = conn
            /\ \/ request[conn] = "nothing" /\ buffer' = buffer
               \/ /\ request[conn] \in Requests
                  /\ buffer' \in Overwritten(buffer, request[conn])
      <4>1. conn # None => request[conn] \in Requests \cup {"nothing"}
        BY DEF Ends, EndTypes
      <4> QED BY <2>1, <4>1 DEF Accept, AcceptFails, ReadRequest, ReadNothing,
                                ReadFails, serverVars
    <3>4. AskedFile'
      <4>1. CASE at' # "parse"
        BY <3>1, <3>2, <4>1 DEF AskedFile, LeftOver, StartPlaces
      <4>2. CASE at' = "parse" /\ request[conn] = "nothing" /\ buffer' = buffer
        BY <3>1, <3>2, <3>3, <4>2 DEF AskedFile, LeftOver, NoPath, StartPlaces
      <4>3. CASE at' = "parse" /\ request[conn] \in Requests
                 /\ buffer' \in Overwritten(buffer, request[conn])
        BY <3>1, <3>2, <3>3, <4>3
           DEF AskedFile, LeftOver, Altered, Overwritten, StartPlaces
      <4> QED BY <3>3, <4>1, <4>2, <4>3
    <3> QED BY <3>1, <3>4 DEF Sending, InPage
  <2>2. CASE Parse
    <3>1. /\ at = "parse" /\ at' = "open" /\ ~ NoPath(buffer)
          /\ UNCHANGED <<conn, request, refused>>
          /\ out' = [file |-> get_filename(buffer), pos |-> 0, eof |-> FALSE,
                     data |-> None]
      BY <2>2 DEF Parse, clientVars
    <3>2. get_filename(buffer) \in DOMAIN Files
      BY HttpdAssumption DEF get_filename
    <3>3. Len(Files[get_filename(buffer)].lines) \in Nat
      BY <3>2, FileLine
    <3>4. /\ out' \in OutRecords /\ out'.file = get_filename(buffer)
          /\ out'.pos = 0 /\ ~ out'.eof
      BY <3>1, <3>2 DEF OutRecords
    <3>5. Sending'
      BY <3>1, <3>3, <3>4 DEF Sending, InPage
    <3>6. AskedFile'
      <4>1. \/ /\ request[conn] \in {"home", "home_at_end", "other"}
               /\ buffer = request[conn]
            \/ Altered
        BY <3>1 DEF Asked, AskedFile, NoPath, Requests
      <4> QED BY <3>1, <3>4, <4>1 DEF AskedFile, LeftOver, Altered, StartPlaces
    <3> QED BY <3>5, <3>6
  <2>3. CASE Open \/ OpenFails
    <3>1. /\ at = "open" /\ at' \in {"header", "crashed"}
          /\ UNCHANGED <<conn, request, refused, out>>
      BY <2>3 DEF Open, OpenFails, serverVars, clientVars
    <3> QED BY <3>1 DEF Sending, InPage, Asked, AskedFile, LeftOver, Altered, StartPlaces
  <2> QED BY <2>1, <2>2, <2>3
<1> QED BY <1>2, <1>3, <1>4, <1>5 DEF Asked

-----------------------------------------------------------------------------
(* The invariant: its parts hold each other up, and only together are they *)
(* inductive.                                                              *)
NoneWhole == at \in StartPlaces => \A c \in Clients : answer[c] = "none"

PageInv ==
  /\ StartOrder /\ Texts /\ Ends
  /\ NoneWhole /\ Sending /\ PageIsWhole /\ Asked

LEMMA PageInvInit == Init => PageInv
<1> SUFFICES ASSUME Init PROVE PageInv
  OBVIOUS
<1>1. StartOrder /\ Texts /\ Ends
  BY StartOrderInit, TextsInit, EndsInit
<1>2. NoneWhole /\ Sending /\ PageIsWhole /\ Asked
  BY DEF Init, HttpdInit, NoneWhole, Sending, InPage, PageIsWhole, Asked,
         AskedFile, LeftOver, StartPlaces, AnsweredAsAsked
<1> QED BY <1>1, <1>2 DEF PageInv

LEMMA PageInvServing == PageInv /\ http_perform /\ StartOrder' => PageInv'
<1> SUFFICES ASSUME PageInv, http_perform, StartOrder' PROVE PageInv'
  OBVIOUS
<1>1. at \in HttpdPlaces \ {"crashed"} /\ at' \in HttpdPlaces /\ UNCHANGED injections
  BY StaysServing
<1>2. NoneWhole' /\ BothRegistered(injections)
  BY <1>1 DEF NoneWhole, StartPlaces, HttpdPlaces, PageInv, StartOrder, Made
<1>3. UNCHANGED <<text, since>>
  BY DEF http_perform, Accept, AcceptFails, ReadRequest, ReadNothing, ReadFails,
         Refuse, Parse, Open, OpenFails, SendHeader, SendLine, SendLast,
         SendFails, EndConnection, clientVars
<1>4. Texts' /\ TextsGrow
  BY <1>3, Quiet DEF PageInv
<1>5. Ends' /\ Sending' /\ PageIsWhole' /\ Asked'
  <2>1. CASE SendHeader
    <3>1. Ends' /\ Sending' /\ Asked'
      BY <2>1, HeaderKeeps DEF PageInv
    <3>2. answer' = answer
          /\ \A c \in Clients : c # conn => received'[c] = received[c]
      BY <2>1 DEF SendHeader, PageInv, Ends, EndTypes
    <3>3. answer[conn] = "none" /\ conn \in Clients
      BY <2>1, InHandFacts DEF SendHeader, Step, InHand, PageInv
    <3> QED BY <1>1, <1>3, <1>4, <3>1, <3>2, <3>3, PagesKept DEF PageInv, Ends
  <2>2. CASE SendLine
    <3>1. LineSending
      BY <1>2, <2>2 DEF LineSending, SendLine, PageInv
    <3>2. Ends' /\ Sending' /\ Asked'
      BY <2>2, <3>1, LineKeeps DEF PageInv
    <3>3. answer' = answer
          /\ \A c \in Clients : c # conn => received'[c] = received[c]
      BY <2>2 DEF SendLine, PageInv, Ends, EndTypes
    <3>4. answer[conn] = "none" /\ conn \in Clients
      BY <2>2, InHandFacts DEF SendLine, InHand, PageInv
    <3> QED BY <1>1, <1>3, <1>4, <3>2, <3>3, <3>4, PagesKept DEF PageInv, Ends
  <2>3. CASE SendLast
    <3>1. LineSending
      BY <1>2, <2>3 DEF LineSending, SendLast, PageInv
    <3> QED BY <2>3, <3>1, LastKeeps DEF PageInv
  <2>4. CASE Refuse \/ SendFails \/ (ReadFails /\ conn # None)
    BY <2>4, CutKeeps DEF PageInv
  <2>5. CASE \/ Accept \/ AcceptFails \/ ReadRequest \/ ReadNothing \/ Parse
             \/ Open \/ OpenFails \/ (ReadFails /\ conn = None)
    BY <2>5, OthersKeep DEF PageInv
  <2> QED BY <2>1, <2>2, <2>3, <2>4, <2>5 DEF http_perform
<1> QED BY <1>2, <1>4, <1>5 DEF PageInv

LEMMA PageInvStarting == PageInv /\ StartStep => NoneWhole' /\ Ends' /\ Sending'
                                                  /\ PageIsWhole' /\ Asked'
<1> SUFFICES ASSUME PageInv, StartStep
             PROVE  NoneWhole' /\ Ends' /\ Sending' /\ PageIsWhole' /\ Asked'
  OBVIOUS
<1>1. /\ UNCHANGED <<clientVars, text, backlog, conn, buffer, out>>
      /\ at \in StartPlaces
      /\ at' \in StartPlaces \cup {"accept", "exited", "undefined"}
  BY StartFrame
<1>2. \A c \in Clients : answer'[c] = "none"
  BY <1>1 DEF PageInv, NoneWhole, clientVars
<1>3. Ends'
  <2>1. /\ at \notin InHand \cup {"read", "crashed", "line"}
        /\ at' \notin InHand \cup {"read", "crashed", "line"}
    BY <1>1 DEF StartPlaces, InHand
  <2> QED BY <1>1, <2>1, EndsKept DEF PageInv
<1>4. Sending' /\ AskedFile'
  BY <1>1 DEF PageInv, Sending, InPage, Asked, AskedFile, LeftOver, StartPlaces
<1>5. AnsweredAsAsked'
  BY <1>1 DEF AnsweredAsAsked, StartPlaces
<1> QED BY <1>2, <1>3, <1>4, <1>5 DEF NoneWhole, PageIsWhole, Asked

(* A client's step leaves the one that is served alone, but for hanging    *)
(* up: it has asked, or gone.                                              *)
LEMMA PageInvClients == PageInv /\ ClientAction => NoneWhole' /\ Ends' /\ Sending'
                                                     /\ PageIsWhole' /\ Asked'
<1> SUFFICES ASSUME PageInv, ClientAction
             PROVE  NoneWhole' /\ Ends' /\ Sending' /\ PageIsWhole' /\ Asked'
  OBVIOUS
<1>1. UNCHANGED <<at, text, injections, conn, buffer, out, refused>>
  BY DEF ClientAction, Connect, Send, HangUp, serverVars
<1>2. Texts' /\ TextsGrow
  <2>1. ASSUME NEW c \in Clients, NEW r \in Requests, Send(c, r)
        PROVE  Texts' /\ TextsGrow
    <3>1. since' = [since EXCEPT ![c] = [w \in Words |-> text[w].version]]
      BY <2>1 DEF Send
    <3> QED BY <1>1, <3>1 DEF PageInv, Texts, TextsGrow
  <2>2. CASE \E c \in Clients : Connect(c) \/ HangUp(c)
    BY <2>2, Quiet DEF Connect, HangUp, PageInv
  <2> QED BY <2>1, <2>2 DEF ClientAction
<1>3. Ends'
  BY EndsClients DEF PageInv
<1>4. ASSUME NEW c \in Clients, Connect(c)
      PROVE  /\ \A d \in Clients : d # c =>
                  /\ answer'[d] = answer[d] /\ received'[d] = received[d]
                  /\ since'[d] = since[d] /\ request'[d] = request[d]
             /\ answer'[c] = "none" /\ received'[c] = <<>>
             /\ at \in InHand => c # conn
  <2>1. /\ client[c] = "away"
        /\ request' = [request EXCEPT ![c] = "nothing"]
        /\ received' = [received EXCEPT ![c] = <<>>]
        /\ answer' = [answer EXCEPT ![c] = "none"]
        /\ since' = since
    BY <1>4 DEF Connect
  <2>2. at \in InHand => c # conn
    BY <2>1, InHandFacts DEF PageInv
  <2>3. /\ request \in [Clients -> Requests \cup {"nothing"}]
        /\ received \in [Clients -> Seq(Items)]
        /\ answer \in [Clients -> Answers]
    BY DEF PageInv, Ends, EndTypes
  <2> QED BY <2>1, <2>2, <2>3
<1>5. ASSUME NEW c \in Clients, NEW r \in Requests, Send(c, r)
      PROVE  /\ \A d \in Clients : d # c =>
                  /\ answer'[d] = answer[d] /\ received'[d] = received[d]
                  /\ since'[d] = since[d] /\ request'[d] = request[d]
             /\ answer'[c] = "none" /\ received'[c] = <<>>
             /\ at \in InHand => c # conn
  <2>1. /\ client[c] = "connected" /\ request[c] = "nothing"
        /\ request' = [request EXCEPT ![c] = r]
        /\ since' = [since EXCEPT ![c] = [w \in Words |-> text[w].version]]
        /\ answer' = answer /\ received' = received
    BY <1>5 DEF Send
  <2>2. at \in InHand => c # conn
    BY <2>1 DEF PageInv, Ends, Serves
  <2>3. answer[c] = "none" /\ received[c] = <<>>
    BY <2>1, <2>2 DEF PageInv, Ends, Unanswered, InHand
  <2>4. request \in [Clients -> Requests \cup {"nothing"}]
        /\ since \in [Clients -> [Words -> Nat]]
    BY DEF PageInv, Ends, EndTypes, Texts
  <2> QED BY <2>1, <2>2, <2>3, <2>4
<1>6. \/ \E c \in Clients :
           /\ \A d \in Clients : d # c =>
                /\ answer'[d] = answer[d] /\ received'[d] = received[d]
                /\ since'[d] = since[d] /\ request'[d] = request[d]
           /\ answer'[c] = "none" /\ received'[c] = <<>>
           /\ at \in InHand => c # conn
      \/ UNCHANGED <<answer, received, since, request>>
  <2>1. (\E c \in Clients : HangUp(c)) => UNCHANGED <<answer, received, since, request>>
    BY DEF HangUp
  <2> QED BY <1>4, <1>5, <2>1 DEF ClientAction
<1>7. \A c \in Clients :
        /\ answer'[c] # "none" =>
             answer'[c] = answer[c] /\ received'[c] = received[c] /\ since'[c] = since[c]
        /\ received'[c] # <<>> =>
             received'[c] = received[c] /\ request'[c] = request[c]
  BY <1>6
<1>8. at \in InHand => /\ received'[conn] = received[conn] /\ since'[conn] = since[conn]
                       /\ request'[conn] = request[conn]
  BY <1>6, InHandFacts DEF PageInv
<1>9. Sending'
  BY <1>1, <1>2, <1>8, SendingKept DEF PageInv, InHand
<1>10. PageIsWhole'
  BY <1>1, <1>2, <1>7, PagesKept DEF PageInv, Ends
<1>11. NoneWhole'
  BY <1>1, <1>7 DEF PageInv, NoneWhole
<1>12. Asked'
  BY <1>1, <1>8
     DEF PageInv, Asked, AskedFile, LeftOver, Altered, AnsweredAsAsked, InHand
<1> QED BY <1>3, <1>9, <1>10, <1>11, <1>12

LEMMA PageInvNext == PageInv /\ [Next]_vars => PageInv'
<1> SUFFICES ASSUME PageInv, [Next]_vars PROVE PageInv'
  OBVIOUS
<1>1. StartOrder' /\ Texts' /\ (Restart \/ TextsGrow)
  BY StartOrderNext, TextsNext DEF PageInv
<1>2. CASE StartStep
  BY <1>1, <1>2, PageInvStarting DEF PageInv
<1>3. CASE http_perform
  BY <1>1, <1>3, PageInvServing
<1>4. CASE ClientAction
  BY <1>1, <1>4, PageInvClients DEF PageInv
<1>5. CASE (WorldStep \/ UNCHANGED vars) /\ TextsGrow
  <2>1. UNCHANGED <<at, clientVars, serverVars>>
    BY <1>5, WorldFrame DEF vars, httpdVars
  <2>2. UNCHANGED <<at, injections, backlog, conn, buffer, out>>
        /\ UNCHANGED <<client, request, since, received, answer, refused>>
    BY <2>1 DEF clientVars, serverVars
  <2>3. Ends'
    BY <2>1, <2>2, EndsKept DEF PageInv
  <2>4. Sending'
    BY <1>1, <1>5, <2>2, SendingKept DEF PageInv
  <2>5. PageIsWhole'
    BY <1>1, <1>5, <2>2, PagesKept DEF PageInv, Ends
  <2>6. NoneWhole' /\ Asked'
    BY <2>2 DEF PageInv, NoneWhole, Asked, AskedFile, LeftOver, Altered,
                AnsweredAsAsked
  <2> QED BY <1>1, <2>3, <2>4, <2>5, <2>6 DEF PageInv
<1>6. CASE Restart
  <2>1. /\ at' = "config" /\ backlog' = <<>> /\ conn' = None /\ out' = None
        /\ buffer' = "clean"
        /\ client' = [c \in Clients |-> "away"]
        /\ request' = [c \in Clients |-> "nothing"]
        /\ received' = [c \in Clients |-> <<>>]
        /\ answer' = [c \in Clients |-> "none"]
    BY <1>6 DEF Restart
  <2>2. Ends'
    BY <2>1, NoneIsNoClient
       DEF Ends, EndTypes, Queueing, Serves, Unanswered, Answers, InHand
  <2>3. NoneWhole' /\ Sending' /\ PageIsWhole' /\ Asked'
    BY <2>1 DEF NoneWhole, Sending, InPage, PageIsWhole, Asked, AskedFile,
                LeftOver, AnsweredAsAsked
  <2> QED BY <1>1, <2>2, <2>3 DEF PageInv
<1> QED BY <1>1, <1>2, <1>3, <1>4, <1>5, <1>6, Steps

LEMMA PageInvariant == Spec => []PageInv
BY PageInvInit, PageInvNext, PTL DEF Spec

(* A page that was sent to the end is the file that was opened, line for   *)
(* line, each marked line replaced by a text that is no older than the     *)
(* request, although the list goes on changing between two lines           *)
(* (httpd.c:257-265): for files of any length and any number of clients.   *)
THEOREM PagesAreWhole == Spec => []PageIsWhole
BY PageInvariant, PTL DEF PageInv

(* The buffer keeps what a refused connection has left (httpd.c:146-168),  *)
(* and a recv ends nothing: whoever asks for the home page or for another  *)
(* is sent the file he asks for, in whichever order clients come, ask and  *)
(* go, and who names no path is sent none.  Only a request that ends in    *)
(* the path or before can be answered otherwise, and only when the         *)
(* connection before it was refused: any page clears the buffer.           *)
THEOREM EverybodyAnsweredAsAsked == Spec => []AnsweredAsAsked
BY PageInvariant, PTL DEF PageInv, Asked

-----------------------------------------------------------------------------
(* The types: what the invariants above leave.                             *)
Ranges ==
  /\ at \in StartPlaces \cup HttpdPlaces \cup Dead
  /\ handle \in {"unset", "made"}
  /\ engine \in {"none", "runs", "watches"}
  /\ qlist \in {"none", "made"}
  /\ blive \in {"none", "runs"}
  /\ restarts \in 0..MaxRestarts
  /\ injections \in Seq(Words)
  /\ lingering \in BOOLEAN
  /\ refused \in BOOLEAN
  /\ buffer \in Buffers
  /\ used <= Descriptors
  /\ Len(backlog) <= Backlog

LEMMA RangesInit == Init => Ranges
<1> SUFFICES ASSUME Init PROVE Ranges
  OBVIOUS
<1>1. /\ at = "config" /\ handle = "unset" /\ injections = <<>> /\ used = 0
      /\ backlog = <<>> /\ buffer = "clean" /\ lingering = FALSE /\ refused = FALSE
      /\ engine = "none" /\ qlist = "none" /\ blive = "none" /\ restarts = 0
  BY DEF Init, HttpdInit
<1>2. restarts \in 0..MaxRestarts
  BY <1>1, ProgramAssumption
<1>3. used <= Descriptors /\ Len(backlog) <= Backlog
  BY <1>1, HttpdAssumption
<1>4. injections \in Seq(Words)
  BY <1>1
<1> QED BY <1>1, <1>2, <1>3, <1>4 DEF Ranges, StartPlaces, Buffers

LEMMA RangesStarting ==
  ASSUME Ranges, StartStep, StartOrder'
  PROVE  Ranges'
<1>1. UNCHANGED <<backlog, buffer, used, refused>>
      /\ at' \in StartPlaces \cup {"accept", "exited", "undefined"}
  BY StartFrame DEF clientVars
<1>2. injections' = injections \/ BothRegistered(injections') \/ injections' = <<>>
  <2>1. CASE Inject
    BY <2>1 DEF Inject, Step, StartOrder, Made
  <2>2. CASE ParseConfig \/ StartEngine \/ http_create \/ MakeSocketPair
             \/ MakeQlist \/ WatchSocket \/ StartBlive
    BY <2>2 DEF ParseConfig, StartEngine, http_create, MakeSocketPair, MakeQlist,
                WatchSocket, StartBlive, serverVars
  <2> QED BY <2>1, <2>2 DEF StartStep
<1>3. /\ handle' \in {"unset", "made"} /\ lingering' \in BOOLEAN
      /\ engine' \in {"none", "runs", "watches"} /\ qlist' \in {"none", "made"}
      /\ blive' \in {"none", "runs"} /\ restarts' = restarts
  <2>1. CASE ParseConfig \/ StartEngine \/ http_create \/ MakeSocketPair
    BY <2>1 DEF ParseConfig, StartEngine, http_create, MakeSocketPair, ExitOn,
                threadVars, Ranges
  <2>2. CASE MakeQlist \/ WatchSocket \/ Inject \/ StartBlive
    BY <2>2 DEF MakeQlist, WatchSocket, Inject, StartBlive, ExitOn, threadVars,
                Ranges
  <2> QED BY <2>1, <2>2 DEF StartStep
<1>4. injections' \in Seq(Words)
  <2>1. CASE injections' = injections
    BY <2>1 DEF Ranges
  <2>2. CASE BothRegistered(injections')
    BY <2>2 DEF BothRegistered
  <2>3. CASE injections' = <<>>
    BY <2>3
  <2> QED BY <1>2, <2>1, <2>2, <2>3
<1>5. at' \in StartPlaces \cup HttpdPlaces \cup Dead
  BY <1>1 DEF HttpdPlaces, Dead
<1> QED BY <1>1, <1>3, <1>4, <1>5 DEF Ranges

LEMMA RangesServing ==
  ASSUME Ranges, Counters, Ends, http_perform, UNCHANGED <<threadVars, restarts>>
  PROVE  Ranges'
<1> USE DEF Step
<1>1. at' \in HttpdPlaces /\ UNCHANGED injections
  BY StaysServing
<1>2. UNCHANGED <<engine, qlist, blive, restarts>>
  BY DEF threadVars
<1>3. used' <= Descriptors
  <2>1. used \in Nat /\ used <= Descriptors /\ Descriptors \in Nat
    BY HttpdAssumption DEF Ranges, Counters
  <2>2. CASE Accept \/ Open
    BY <2>1, <2>2 DEF Accept, Open
  <2>3. CASE SendLast \/ SendFails
    BY <2>1, <2>3 DEF SendLast, SendFails, CloseFile
  <2>4. CASE \/ AcceptFails \/ ReadRequest \/ ReadNothing \/ ReadFails \/ Refuse
             \/ Parse \/ OpenFails \/ SendHeader \/ SendLine
    BY <2>1, <2>4 DEF AcceptFails, ReadRequest, ReadNothing, ReadFails, Refuse,
                      Parse, OpenFails, SendHeader, SendLine, serverVars
  <2> QED BY <2>2, <2>3, <2>4 DEF http_perform
<1>4. Len(backlog') <= Backlog
  <2>1. Len(backlog) \in Nat /\ Len(backlog) <= Backlog /\ Backlog \in Nat
    BY HttpdAssumption DEF Ranges, Ends, EndTypes
  <2>2. CASE Accept
    <3>1. Len(backlog') = Len(backlog) - 1
      BY <2>2 DEF Accept, Ends, EndTypes
    <3> QED BY <2>1, <3>1
  <2>3. CASE ~ Accept
    <3>1. UNCHANGED backlog
      BY <2>3 DEF http_perform, AcceptFails, ReadRequest, ReadNothing, ReadFails,
                  Refuse, Parse, Open, OpenFails, SendHeader, SendLine, SendLast,
                  SendFails, serverVars
    <3> QED BY <2>1, <3>1
  <2> QED BY <2>2, <2>3
<1>5. buffer' \in Buffers
  <2>1. CASE ReadRequest
    <3>1. conn \in Clients /\ request[conn] \in Requests
      BY <2>1 DEF ReadRequest, Ends, EndTypes
    <3> QED BY <2>1, <3>1 DEF ReadRequest, Overwritten, Buffers, Requests
  <2>2. CASE SendLast \/ SendFails
    BY <2>2 DEF SendLast, SendFails, CloseFile, Buffers
  <2>3. CASE \/ Accept \/ AcceptFails \/ ReadNothing \/ ReadFails \/ Refuse
             \/ Parse \/ Open \/ OpenFails \/ SendHeader \/ SendLine
    BY <2>3 DEF Accept, AcceptFails, ReadNothing, ReadFails, Refuse, Parse, Open,
                OpenFails, SendHeader, SendLine, serverVars, Ranges
  <2> QED BY <2>1, <2>2, <2>3 DEF http_perform
<1>6. handle' \in {"unset", "made"} /\ lingering' \in BOOLEAN /\ refused' \in BOOLEAN
  <2>1. CASE OpenFails
    BY <2>1 DEF OpenFails, clientVars, Ranges
  <2>2. CASE ReadFails \/ Refuse \/ SendLast \/ SendFails
    BY <2>2 DEF ReadFails, Refuse, SendLast, SendFails, EndConnection, clientVars,
                Ranges
  <2>3. CASE \/ Accept \/ AcceptFails \/ ReadRequest \/ ReadNothing
             \/ Parse \/ Open \/ SendHeader \/ SendLine
    BY <2>3 DEF Accept, AcceptFails, ReadRequest, ReadNothing, Parse, Open,
                SendHeader, SendLine, clientVars, Ranges
  <2> QED BY <2>1, <2>2, <2>3 DEF http_perform
<1> QED BY <1>1, <1>2, <1>3, <1>4, <1>5, <1>6 DEF Ranges

LEMMA RangesClients ==
  ASSUME Ranges, Ends, ClientAction, UNCHANGED <<threadVars, restarts>>
  PROVE  Ranges'
<1>1. UNCHANGED <<at, handle, injections, lingering, refused, buffer, used, engine,
                  qlist, blive, restarts>>
  BY DEF ClientAction, Connect, Send, HangUp, serverVars, threadVars
<1>2. Len(backlog') <= Backlog
  <2>1. Len(backlog) \in Nat /\ Len(backlog) <= Backlog /\ Backlog \in Nat
    BY HttpdAssumption DEF Ranges, Ends, EndTypes
  <2>2. ASSUME NEW c \in Clients, Connect(c) PROVE Len(backlog') <= Backlog
    <3>1. Len(backlog) < Backlog /\ Len(backlog') = Len(backlog) + 1
      BY <2>2 DEF Connect, Ends, EndTypes
    <3> QED BY <2>1, <3>1
  <2>3. CASE UNCHANGED backlog
    BY <2>1, <2>3
  <2> QED BY <2>2, <2>3 DEF ClientAction, Send, HangUp, serverVars
<1> QED BY <1>1, <1>2 DEF Ranges

LEMMA RangesNext ==
  Ranges /\ Counters /\ Ends /\ StartOrder' /\ [Next]_vars => Ranges'
<1> SUFFICES ASSUME Ranges, Counters, Ends, StartOrder', [Next]_vars PROVE Ranges'
  OBVIOUS
<1>1. CASE StartStep
  BY <1>1, RangesStarting
<1>2. CASE http_perform /\ UNCHANGED <<threadVars, restarts>>
  BY <1>2, RangesServing
<1>3. CASE ClientAction /\ UNCHANGED <<threadVars, restarts>>
  BY <1>3, RangesClients
<1>4. CASE WorldStep \/ UNCHANGED vars
  <2>1. UNCHANGED <<at, handle, serverVars, threadVars, restarts>>
        /\ lingering' \in BOOLEAN /\ refused' \in BOOLEAN
    BY <1>4 DEF WorldStep, ListChanges, Expire, vars, httpdVars, clientVars, Ranges
  <2> QED BY <2>1 DEF serverVars, threadVars, Ranges
<1>5. CASE Restart
  <2>1. /\ at' = "config" /\ handle' = "unset" /\ injections' = <<>> /\ used' = 0
        /\ backlog' = <<>> /\ buffer' = "clean" /\ lingering' = lingering
        /\ engine' = "none" /\ qlist' = "none" /\ blive' = "none"
        /\ restarts < MaxRestarts /\ restarts' = restarts + 1
    BY <1>5 DEF Restart
  <2>2. restarts' \in 0..MaxRestarts
    BY <2>1, ProgramAssumption DEF Ranges
  <2>3. refused' \in BOOLEAN
    BY <1>5 DEF Restart
  <2> QED BY <2>1, <2>2, <2>3, HttpdAssumption DEF Ranges, StartPlaces, Buffers
<1> QED BY <1>1, <1>2, <1>3, <1>4, <1>5, Steps

(* The types of the whole program, with the limits of its queue of         *)
(* connections and of its descriptors (httpd.c:100, 143, 231).              *)
THEOREM TypesHold == Spec => []TypeOK
<1>1. Spec => []Ranges
  <2>1. PageInv /\ Ranges /\ Counters /\ [Next]_vars => Ranges'
    BY RangesNext, StartOrderNext DEF PageInv
  <2> QED BY RangesInit, PageInvariant, CountersInvariant, <2>1, PTL DEF Spec
<1>2. PageInv /\ Counters /\ Ranges => TypeOK
  <2> SUFFICES ASSUME PageInv, Counters, Ranges PROVE TypeOK
    OBVIOUS
  <2>1. \A w \in Words : text[w].words = {} /\ text[w].version \in Nat
    BY TextFields DEF PageInv, Texts
  <2>2. out # None => /\ out.file \in DOMAIN Files
                      /\ out.pos \in 0..Len(Files[out.file].lines)
                      /\ out.eof \in BOOLEAN
    BY FileLine DEF PageInv, Sending, InPage, OutRecords
  <2>3. used \in 0..Descriptors
    BY HttpdAssumption DEF Counters, Ranges
  <2>4. HttpdTypeOK
    BY <2>1, <2>2, <2>3 DEF HttpdTypeOK, PageInv, Ends, EndTypes, Counters, Ranges
  <2> QED BY <2>4 DEF TypeOK, Ranges
<1> QED BY <1>1, <1>2, PageInvariant, CountersInvariant, PTL
=============================================================================
