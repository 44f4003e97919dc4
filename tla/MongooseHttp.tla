----------------------------- MODULE MongooseHttp -----------------------------
(***************************************************************************)
(* The mongoose glue, src/src/mongoose/mongoose_process.c, and the HTTP    *)
(* server built on it, src/src/protocols/http_server.c.                    *)
(*                                                                         *)
(* mongoose_process.c owns the event manager `mgr` and a poll task that   *)
(* runs mg_mgr_poll for ever.  http_server.c keeps its listening           *)
(* connection in a static pointer `nc` and a table of API tokens; the poll *)
(* task calls its handler `fn` for each HTTP request, which answers from   *)
(* the first token whose route "/api/<name>#" matches the URI.  The        *)
(* application task calls the Init and Deinit functions of both and adds  *)
(* tokens.                                                                 *)
(*                                                                         *)
(* The mongoose library is not in this repository; its calls are taken as *)
(* documented: mg_http_listen allocates a connection and links it into    *)
(* mgr (or returns NULL), mg_mgr_poll frees the connections marked         *)
(* is_closing, mg_mgr_free closes and frees every connection of mgr, and  *)
(* in mg_match '#' matches any run of characters, '/' included.  A call   *)
(* on mgr from the application task is one step, as in MqttApp.  Deleting *)
(* the poll task (osal_task_delete, vTaskDelete on ESP) is immediate.     *)
(* mg_mgr_init memsets mgr: connections still linked into an earlier      *)
(* manager are orphaned, allocated but reachable by no poll or free.      *)
(* A URI below "/api/" is the sequence of characters after that prefix;   *)
(* any other URI is NotApi.                                                *)
(***************************************************************************)
EXTENDS Naturals, Sequences, SequencesExt

CONSTANTS Conns,       \* connection blocks mg_http_listen may allocate
          Null,        \* NULL
          Names,       \* api_name strings of the tokens, as sequences
          Uris,        \* request URIs: sequences after "/api/", or NotApi
          NotApi,      \* a URI outside "/api/"
          Slash,       \* the character '/'
          TOKENS_LEN,  \* ARRAY_SIZE(tokens)
          MaxTokens    \* bound: HTTPServer_AddApiToken calls

ASSUME /\ Null \notin Conns /\ MaxTokens <= TOKENS_LEN

VARIABLES running,  \* mongooseProcessRunning
          mgr,      \* the manager: "zero" (static storage), "init", "freed"
          poll,     \* the poll task: "none", "polling", "deleted"
          conn,     \* each connection block: "unused", "open", "closing",
                    \*   "freed", "orphan" (leaked by mg_mgr_init)
          nc,       \* http_server.c's listener pointer
          tokens,   \* tokens[0 .. tokens_size-1], their api_name
          served    \* ghost: <<URI, token index or 0 for the 400 reply>>
                    \*   of the last request answered

vars == <<running, mgr, poll, conn, nc, tokens, served>>

InMgr == {c \in Conns : conn[c] \in {"open", "closing"}}

TypeOK ==
    /\ running \in BOOLEAN
    /\ mgr \in {"zero", "init", "freed"}
    /\ poll \in {"none", "polling", "deleted"}
    /\ conn \in [Conns -> {"unused", "open", "closing", "freed", "orphan"}]
    /\ nc \in Conns \cup {Null}
    /\ tokens \in Seq(Names) /\ Len(tokens) <= MaxTokens
    /\ served \in (Uris \X (0 .. MaxTokens)) \cup {<<>>}

(* Static storage: nothing created, nothing listening.                    *)
Init ==
    /\ running = FALSE /\ mgr = "zero" /\ poll = "none"
    /\ conn = [c \in Conns |-> "unused"] /\ nc = Null
    /\ tokens = <<>> /\ served = <<>>

(* mg_mgr_free: every connection of the manager is closed and freed.     *)
MgrFree ==
    /\ mgr' = IF mgr = "zero" THEN "zero" ELSE "freed"
    /\ conn' = [c \in Conns |-> IF c \in InMgr THEN "freed" ELSE conn[c]]

(* mg_mgr_init: a fresh, empty manager; what was linked is orphaned.      *)
MgrInit ==
    conn' = [c \in Conns |-> IF c \in InMgr THEN "orphan" ELSE conn[c]]

(* MongooseProcess_Init: nothing if already running; else mg_mgr_init    *)
(* and osal_task_create of the poll task, whose failure is followed by    *)
(* mg_mgr_free of the fresh (empty) manager.                              *)
ProcInit ==
    /\ ~running
    /\ MgrInit
    /\ \/ running' = TRUE /\ mgr' = "init" /\ poll' = "polling"
       \/ mgr' = "freed" /\ UNCHANGED <<running, poll>>
    /\ UNCHANGED <<nc, tokens, served>>

(* MongooseProcess_Deinit: delete the poll task if it runs, then          *)
(* mg_mgr_free whether or not the manager was ever initialised.           *)
ProcDeinit ==
    /\ IF running THEN poll' = "deleted" ELSE UNCHANGED poll
    /\ running' = FALSE
    /\ MgrFree
    /\ UNCHANGED <<nc, tokens, served>>

(* HTTPServer_Init: only when nc is NULL, mg_http_listen, whose result    *)
(* becomes nc (a new connection linked into mgr, or NULL).  Nothing checks *)
(* that mgr was initialised: on the zero or a freed manager the listener  *)
(* is linked into it all the same.                                        *)
HttpInit ==
    /\ IF nc = Null
       THEN \/ \E c \in Conns :
                 /\ conn[c] = "unused"
                 /\ conn' = [conn EXCEPT ![c] = "open"] /\ nc' = c
            \/ UNCHANGED <<conn, nc>>
       ELSE UNCHANGED <<conn, nc>>
    /\ UNCHANGED <<running, mgr, poll, tokens, served>>

(* HTTPServer_Deinit: if nc is not NULL, nc->is_closing = 1; nc = NULL.   *)
HttpDeinit ==
    /\ IF nc # Null /\ conn[nc] = "open"
       THEN conn' = [conn EXCEPT ![nc] = "closing"]
       ELSE UNCHANGED conn
    /\ nc' = Null
    /\ UNCHANGED <<running, mgr, poll, tokens, served>>

(* HTTPServer_AddApiToken: assert(tokens_size < 16), copy, count.  The   *)
(* bound keeps the model below the assert.                                *)
AddApiToken(n) ==
    /\ Len(tokens) < MaxTokens
    /\ tokens' = Append(tokens, n)
    /\ UNCHANGED <<running, mgr, poll, conn, nc, served>>

(* mg_match(uri, "/api/<name>#"): the name followed by anything.          *)
RouteMatches(name, u) == u # NotApi /\ IsPrefix(name, u)

(* The loop of fn: the index of the first token whose route matches, or  *)
(* 0 for the "Unknown API" 400 reply.                                     *)
Route(u) == SelectInSeq(tokens, LAMBDA name : RouteMatches(name, u))

(* The poll task: a request reaches an open listener and fn answers it.  *)
Serve(u) ==
    /\ poll = "polling"
    /\ \E c \in Conns : conn[c] = "open"
    /\ served' = <<u, Route(u)>>
    /\ UNCHANGED <<running, mgr, poll, conn, nc, tokens>>

(* The poll task: mg_mgr_poll frees a connection marked is_closing.       *)
Reap ==
    /\ poll = "polling"
    /\ \E c \in Conns :
          /\ conn[c] = "closing"
          /\ conn' = [conn EXCEPT ![c] = "freed"]
    /\ UNCHANGED <<running, mgr, poll, nc, tokens, served>>

Next ==
    \/ ProcInit \/ ProcDeinit \/ HttpInit \/ HttpDeinit
    \/ \E n \in Names : AddApiToken(n)
    \/ \E u \in Uris : Serve(u)
    \/ Reap

Spec == Init /\ [][Next]_vars

-----------------------------------------------------------------------------
(* HTTPServer_Deinit writes nc->is_closing only into a connection that is *)
(* still allocated.  Fails when MongooseProcess_Deinit has freed every     *)
(* connection of mgr, the listener included, while http_server.c still     *)
(* holds nc: the write goes to freed memory (and a later HTTPServer_Init  *)
(* sees nc set and never listens again).                                  *)
NoWriteToFreedListener ==
    [][HttpDeinit /\ nc # Null => conn[nc] # "freed"]_vars

(* The first segment of a URI below "/api/": up to the first '/'.         *)
FirstSegment(u) ==
    LET k == SelectInSeq(u, LAMBDA ch : ch = Slash)
    IN  IF k = 0 THEN u ELSE SubSeq(u, 1, k - 1)

(* A request for "/api/<name>" or "/api/<name>/..." is answered by the    *)
(* token registered under that name (http_server.h: api_name is the "API  *)
(* name after /api/"), whatever else is registered.  Fails when an        *)
(* earlier token's name is a prefix of it: its route "/api/<prefix>#"     *)
(* matches first.                                                         *)
RouteReachesOwnHandler ==
    [][\A u \in Uris :
         /\ served' # served /\ served'[1] = u /\ u # NotApi
         /\ \E i \in 1 .. Len(tokens) : tokens[i] = FirstSegment(u)
         => tokens[served'[2]] = FirstSegment(u)]_vars
=============================================================================
