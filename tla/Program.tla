------------------------------ MODULE Program ------------------------------
(***************************************************************************)
(* The start of blive-queue (main, callbacks_init) and what runs from then *)
(* on: the main thread, which ends up in the HTTP server of module Httpd,  *)
(* and the blive and engine threads, seen here as those that change the    *)
(* waiting list the page shows (LiveQueue has the details).  The user      *)
(* starts the program again when it has come to an end.                    *)
(***************************************************************************)
EXTENDS Httpd

CONSTANTS
  Browsers,      \* the clients that show the page all the time: they reload
                 \* it and do not hang up
  CanFail,       \* the calls that may fail: see Faults
  MaxVersion,    \* bound on the changes of the waiting list
  MaxRestarts    \* bound on the restarts

refresh == "__refresh_injection__"
queuelist == "__queuelist_injection__"

Faults == {"parse_config", "bind", "_socketpair", "qlist_create"}

ASSUME ProgramAssumption ==
  /\ Words = {refresh, queuelist} /\ MAX_INJECTION_NUM >= 2
  /\ Browsers \subseteq Clients
  /\ CanFail \subseteq Faults
  /\ MaxVersion \in Nat /\ MaxRestarts \in Nat

VARIABLES
  engine,     \* the engine's thread: "none", "runs", "watches" qlist_fd
  qlist,      \* the waiting list: "none" or "made"
  blive,      \* the blive thread: "none" or "runs"
  restarts    \* history: how often the program was started again

threadVars == <<engine, qlist, blive>>
vars == <<httpdVars, threadVars, restarts>>

StartPlaces == {"config", "engine", "httpd", "socketpair", "qlist", "watch",
                "inject", "blive"}
Dead == {"crashed", "exited", "undefined"}

TypeOK ==
  /\ HttpdTypeOK
  /\ at \in StartPlaces \cup HttpdPlaces \cup Dead
  /\ engine \in {"none", "runs", "watches"}
  /\ qlist \in {"none", "made"}
  /\ blive \in {"none", "runs"}
  /\ restarts \in 0..MaxRestarts

(* What refresh_html and liveroom_qlist_make_text write. *)
TextOf(w, version) == [what |-> <<"text", w>>, words |-> {}, version |-> version]

Init ==
  /\ at = "config"
  /\ HttpdInit
  /\ engine = "none" /\ qlist = "none" /\ blive = "none"
  /\ text = [w \in Words |-> TextOf(w, 0)]
  /\ lingering = FALSE
  /\ restarts = 0

-----------------------------------------------------------------------------
(* main, up to http_perform *)

Fails(call, from) == call \in CanFail /\ Step(from, "exited")

ParseConfig ==
  /\ Step("config", "engine") \/ Fails("parse_config", "config")
  /\ UNCHANGED <<handle, text, lingering, clientVars, serverVars, threadVars,
                 restarts>>

StartEngine ==
  /\ Step("engine", "httpd")
  /\ engine' = "runs"
  /\ UNCHANGED <<handle, text, lingering, clientVars, serverVars, qlist,
                 blive, restarts>>

(* http_create: the address may be used again only when nothing lingers,   *)
(* SO_REUSEADDR being set after bind.  main does not look at the result.   *)
http_create ==
  /\ Step("httpd", "socketpair")
  /\ \/ ~ lingering /\ handle' = "made"
     \/ (lingering \/ "bind" \in CanFail) /\ handle' = "unset"
  /\ UNCHANGED <<text, lingering, clientVars, serverVars, threadVars,
                 restarts>>

(* An exit ends every connection. *)
ExitOn(call, from) ==
  /\ Fails(call, from)
  /\ handle' = "unset"
  /\ lingering' = (lingering \/ \E c \in Clients : client[c] = "connected")

(* callbacks_init *)
MakeSocketPair ==
  /\ \/ Step("socketpair", "qlist") /\ UNCHANGED <<handle, lingering>>
     \/ ExitOn("_socketpair", "socketpair")
  /\ UNCHANGED <<text, clientVars, serverVars, threadVars, restarts>>

(* Mutation: the start goes on without a list. *)
MakeQlistGoesOn ==
  /\ \/ Step("qlist", "watch") /\ qlist' = "made"
     \/ "qlist_create" \in CanFail /\ Step("qlist", "watch") /\ UNCHANGED qlist
  /\ UNCHANGED <<handle, lingering, text, clientVars, serverVars, engine, blive,
                 restarts>>

MakeQlist ==
  /\ \/ Step("qlist", "watch") /\ qlist' = "made" /\ UNCHANGED <<handle, lingering>>
     \/ ExitOn("qlist_create", "qlist") /\ UNCHANGED qlist
  /\ UNCHANGED <<text, clientVars, serverVars, engine, blive, restarts>>

WatchSocket ==
  /\ Step("watch", "inject")
  /\ engine' = "watches"
  /\ UNCHANGED <<handle, text, lingering, clientVars, serverVars, qlist,
                 blive, restarts>>

(* The handle that a failed http_create has left unset is used. *)
Inject ==
  /\ IF handle = "made"
     THEN /\ Step("inject", "blive")
          /\ injections' = http_html_injection(
                             http_html_injection(injections, refresh), queuelist)
     ELSE Step("inject", "undefined") /\ UNCHANGED injections
  /\ UNCHANGED <<handle, text, lingering, used, backlog, conn, buffer, out,
                 accepted, clientVars, threadVars, restarts>>

(* The commands' callbacks are set before the thread is started. *)
StartBlive ==
  /\ Step("blive", "accept")
  /\ blive' = "runs"
  /\ UNCHANGED <<handle, text, lingering, clientVars, serverVars, engine,
                 qlist, restarts>>

MainStep ==
  \/ ParseConfig \/ StartEngine \/ http_create
  \/ MakeSocketPair \/ MakeQlist \/ WatchSocket \/ Inject \/ StartBlive
  \/ http_perform /\ UNCHANGED <<threadVars, restarts>>

-----------------------------------------------------------------------------
(* A danmu goes from the blive thread to the engine and changes the list.  *)
ListChanges ==
  /\ at \notin Dead
  /\ blive = "runs" /\ engine = "watches" /\ qlist = "made"
  /\ text[queuelist].version < MaxVersion
  /\ text' = [text EXCEPT ![queuelist].version = @ + 1]
  /\ UNCHANGED <<at, handle, lingering, clientVars, serverVars, threadVars,
                 restarts>>

(* The world: what was left of old connections is forgotten, and the user  *)
(* starts the program again.                                               *)
Expire ==
  /\ lingering
  /\ lingering' = FALSE
  /\ UNCHANGED <<at, handle, text, clientVars, serverVars, threadVars,
                 restarts>>

Restart ==
  /\ at \in Dead /\ restarts < MaxRestarts
  /\ restarts' = restarts + 1
  /\ at' = "config"
  /\ handle' = "unset" /\ injections' = <<>>
  /\ used' = 0 /\ accepted' = 0
  /\ backlog' = <<>> /\ conn' = None /\ buffer' = "clean" /\ out' = None
  /\ client' = [c \in Clients |-> "away"]
  /\ request' = [c \in Clients |-> "nothing"]
  /\ since' = [c \in Clients |-> [w \in Words |-> 0]]
  /\ received' = [c \in Clients |-> <<>>]
  /\ answer' = [c \in Clients |-> "none"]
  /\ refused' = FALSE
  /\ text' = [w \in Words |-> TextOf(w, 0)]
  /\ engine' = "none" /\ qlist' = "none" /\ blive' = "none"
  /\ UNCHANGED lingering

ClientStep ==
  /\ \E c \in Clients :
       \/ Connect(c)
       \/ \E r \in IF c \in Browsers THEN {"home"} ELSE Requests : Send(c, r)
       \/ c \notin Browsers /\ HangUp(c)
  /\ UNCHANGED <<threadVars, restarts>>

Next == MainStep \/ ListChanges \/ ClientStep \/ Expire \/ Restart

(* The main thread goes on as long as it can, and a page that is shown     *)
(* asks for itself again (callbacks.c:201).                                *)
Reload(b) == Connect(b) /\ UNCHANGED <<threadVars, restarts>>
Ask(b) == Send(b, "home") /\ UNCHANGED <<threadVars, restarts>>

Fairness ==
  /\ WF_vars(MainStep)
  /\ \A b \in Browsers : WF_vars(Reload(b)) /\ WF_vars(Ask(b))

Spec == Init /\ [][Next]_vars /\ Fairness

-----------------------------------------------------------------------------
(* Whenever a page is made there is a waiting list to walk, the engine     *)
(* watches the socket that feeds it, and both words of index.html are      *)
(* registered, whichever calls have failed at this start or an earlier one.*)
Serving == at \in HttpdPlaces \ {"crashed"}

ReadyWhenServing ==
  Serving =>
    /\ qlist = "made" /\ engine = "watches" /\ blive = "runs"
    /\ Range(injections) = Words

(* Nobody is left without an answer: unless the server waits for ever for  *)
(* one that has connected and says nothing, every connection that has sent *)
(* something is ended, or the program has no descriptor left.              *)
Blocked ==
  /\ at = "read" /\ conn # None
  /\ client[conn] = "connected" /\ request[conn] = "nothing"

Asks(c) == client[c] = "connected" /\ request[c] # "nothing"
Out == used = Descriptors \/ at \in Dead

EventuallyAnswered ==
  []<> ~ Blocked => \A c \in Clients : Asks(c) ~> (~ Asks(c) \/ Out)

(* The page is refreshed every two seconds (comment at callbacks.c:191).   *)
KeepsRefreshing == \A b \in Browsers : []<>(at = "line" /\ conn = b)
=============================================================================
