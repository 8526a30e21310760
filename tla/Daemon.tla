--------------------------------- MODULE Daemon ---------------------------------
(***************************************************************************)
(* The life of the Linux daemon around its engine: main() restores the      *)
(* session, starts the engine and the control server, and saves the session *)
(* on exit; yamy-ctl processes connect to the server, which serves one of   *)
(* them at a time; EngineAdapter starts the engine on a thread of its own   *)
(* and does not wait for longer than 100 ms.                                *)
(*                                                                         *)
(* Engine::start and Engine::stop are coarse here (InputQueue has their     *)
(* steps): start() installs the hook, then creates the handler.             *)
(***************************************************************************)
EXTENDS Naturals, Sequences

CONSTANTS
  Client,     \* yamy-ctl processes, one command each
  Path,       \* paths of configuration files
  NoPath,     \* the empty path
  Absolute,   \* the paths that validateSession accepts: they begin with / or ~
  Broken,     \* files that do not exist or do not parse
  SlowStart,  \* may Engine::start take longer than 100 ms?
  NoClient,   \* the server serves nobody
  Changer     \* bound: clients that only reload from an absolute path, stop or start

ASSUME DaemonAssumption ==
  /\ NoPath \notin Path /\ Absolute \subseteq Path /\ Broken \subseteq Path
  /\ SlowStart \in BOOLEAN /\ NoClient \notin Client /\ Changer \subseteq Client

VARIABLES
  main,      \* where main() is
  sessionFile, \* session.json: its form and what it says
  data,      \* SessionManager::m_data
  promised,  \* history: engineWasRunning in the file that this process read
  config,    \* EngineAdapter::m_configPath
  thread,    \* m_engineThread: not joinable ("none"), or where start() is
  engine,    \* m_state
  hook,      \* is the input hook installed?
  handler,   \* is the keyboard handler thread alive?
  running,   \* IPCControlServer::m_running; the socket is open while it is set
  spc,       \* where the server thread is
  cur,       \* the client that it serves
  backlog,   \* connections that wait for accept()
  cpc,       \* where each client is
  request,   \* its command and the path that goes with it
  link,      \* its connection: "none", "open", "closed", or the answer
  exit,      \* its exit code
  executed   \* history: clients whose command was carried out

sessionVars == <<sessionFile, data, promised>>
engineVars  == <<config, thread, engine, hook, handler>>
serverVars  == <<running, spc, cur, backlog>>
clientVars  == <<cpc, request, link, exit>>
vars == <<main, sessionVars, engineVars, serverVars, clientVars, executed>>

Session  == [path : Path \cup {NoPath}, running : BOOLEAN]
NoData   == [path |-> NoPath, running |-> FALSE]
Whole(d) == [form |-> "whole", path |-> d.path, running |-> d.running]
Torn     == [form |-> "torn", path |-> NoPath, running |-> FALSE]
Absent   == [form |-> "absent", path |-> NoPath, running |-> FALSE]
Query    == {"status", "config", "keymaps", "metrics"}
Command  == {"reload", "stop", "start"} \cup Query
Request  == [cmd : {"reload"}, path : Path \cup {NoPath}] \cup [cmd : Command \ {"reload"}, path : {NoPath}]
NoRequest == [cmd |-> "none", path |-> NoPath]

\* The requests that a client may make.
Changes == [cmd : {"reload"}, path : Absolute] \cup [cmd : {"stop", "start"}, path : {NoPath}]
Ask(c)  == IF c \in Changer THEN Changes ELSE Request
Exit     == {"SUCCESS", "ENGINE_NOT_RUNNING", "COMMAND_FAILED"}

Init ==
  /\ main = "down" /\ sessionFile = Absent /\ data = NoData /\ promised = FALSE
  /\ config = NoPath
  /\ thread = "none" /\ engine = "Stopped" /\ hook = FALSE /\ handler = FALSE
  /\ running = FALSE /\ spc = "off" /\ cur = NoClient /\ backlog = <<>>
  /\ cpc = [c \in Client |-> "idle"] /\ request = [c \in Client |-> NoRequest]
  /\ link = [c \in Client |-> "none"] /\ exit = [c \in Client |-> "none"]
  /\ executed = {}

(* ------------------------------- The wire --------------------------------- *)

\* handleClient: the type of the answer.
Response(cmd, success) ==
  CASE ~success                  -> "RspError"
    [] success /\ cmd = "status"  -> "RspStatus"
    [] success /\ cmd = "config"  -> "RspConfig"
    [] success /\ cmd = "keymaps" -> "RspKeymaps"
    [] success /\ cmd = "metrics" -> "RspMetrics"
    [] success /\ cmd \notin Query -> "RspOk"

\* cmdReload, cmdStop, cmdStart, cmdStatus: which answers they take for a success.
AcceptedByControl(cmd) == IF cmd = "status" THEN {"RspStatus", "RspOk"} ELSE {"RspOk"}

\* cmdConfig, cmdKeymaps, cmdMetrics.
AcceptedByQuery(cmd) ==
  {"RspOk", CASE cmd = "config" -> "RspConfig" [] cmd = "keymaps" -> "RspKeymaps" [] OTHER -> "RspMetrics"}

ExitCode(cmd, rsp) ==
  IF rsp \in IF cmd \in {"config", "keymaps", "metrics"} THEN AcceptedByQuery(cmd) ELSE AcceptedByControl(cmd)
  THEN "SUCCESS" ELSE "COMMAND_FAILED"

(* ------------------------------- yamy-ctl --------------------------------- *)

Leave(c, code) == cpc' = [cpc EXCEPT ![c] = "done"] /\ exit' = [exit EXCEPT ![c] = code]

\* connectToEngine.
Connect(c, q) ==
  /\ cpc[c] = "idle"
  /\ IF running
     THEN /\ cpc' = [cpc EXCEPT ![c] = "connected"] /\ link' = [link EXCEPT ![c] = "open"]
          /\ request' = [request EXCEPT ![c] = q] /\ backlog' = Append(backlog, c)
          /\ UNCHANGED exit
     ELSE Leave(c, "ENGINE_NOT_RUNNING") /\ UNCHANGED <<request, link, backlog>>
  /\ UNCHANGED <<main, sessionVars, engineVars, running, spc, cur, executed>>

\* sendMessage; on a connection that the server has closed it fails.
Send(c) ==
  /\ cpc[c] = "connected"
  /\ IF link[c] = "closed" THEN Leave(c, "COMMAND_FAILED")
                           ELSE cpc' = [cpc EXCEPT ![c] = "waiting"] /\ UNCHANGED exit
  /\ UNCHANGED <<main, sessionVars, engineVars, serverVars, request, link, executed>>

\* Mutant: the end of the connection is not noticed, and there is no timeout then.
ReceiveAnswer(c) ==
  /\ cpc[c] = "waiting" /\ link[c] \notin {"open", "closed"}
  /\ Leave(c, ExitCode(request[c].cmd, link[c]))
  /\ link' = [link EXCEPT ![c] = "none"] /\ request' = [request EXCEPT ![c] = NoRequest]
  /\ UNCHANGED <<main, sessionVars, engineVars, serverVars, executed>>

\* receiveResponse: an answer, or "Connection closed by engine".
Receive(c) ==
  /\ cpc[c] = "waiting" /\ link[c] # "open"
  /\ Leave(c, ExitCode(request[c].cmd, link[c]))
  /\ link' = [link EXCEPT ![c] = "none"] /\ request' = [request EXCEPT ![c] = NoRequest]
  /\ UNCHANGED <<main, sessionVars, engineVars, serverVars, executed>>

\* receiveResponse: no answer in five seconds.
Timeout(c) ==
  /\ cpc[c] = "waiting" /\ link[c] = "open"
  /\ Leave(c, "COMMAND_FAILED")
  /\ UNCHANGED <<main, sessionVars, engineVars, serverVars, request, link, executed>>

\* The user ends yamy-ctl; its end of the connection is closed.
Interrupt(c) ==
  /\ cpc[c] \in {"connected", "waiting"}
  /\ cpc' = [cpc EXCEPT ![c] = IF cpc[c] = "waiting" THEN "done" ELSE "gone"]
  /\ UNCHANGED <<main, sessionVars, engineVars, serverVars, request, link, exit, executed>>

(* ------------------------- The engine and its thread ----------------------- *)

\* Engine::start up to install(), and the exception that install() may throw.
StartInstall ==
  /\ thread = "starting"
  /\ engine' = "Loading"
  /\ \/ hook' = TRUE /\ thread' = "installed"
     \/ hook' = hook /\ thread' = "done"
  /\ UNCHANGED <<main, sessionVars, config, handler, serverVars, clientVars, executed>>

\* The rest of Engine::start.
StartFinish ==
  /\ thread = "installed"
  /\ handler' = TRUE /\ engine' = "Running" /\ thread' = "done"
  /\ UNCHANGED <<main, sessionVars, config, hook, serverVars, clientVars, executed>>

\* Engine::stop, called from EngineAdapter::stop.
StopEngine == hook' = FALSE /\ handler' = FALSE /\ engine' = "Stopped"

Joinable == thread # "none"
\* EngineAdapter::start sleeps for 100 ms and returns.
Slept    == SlowStart \/ thread \in {"none", "done"}

(* ---------------------------- The control server --------------------------- *)

Accept ==
  /\ spc = "poll" /\ running /\ backlog # <<>>
  /\ cur' = Head(backlog) /\ backlog' = Tail(backlog) /\ spc' = "read"
  /\ UNCHANGED <<main, sessionVars, engineVars, running, clientVars, executed>>

\* serverLoop tests m_running after every client and every 500 ms; it also ends when
\* poll() or accept() fails, and then nobody serves any more.
LeaveLoop ==
  /\ spc = "poll"
  /\ spc' = "exited"
  /\ UNCHANGED <<main, sessionVars, engineVars, running, cur, backlog, clientVars, executed>>

\* handleClient: the request, or the end of a client that went without one.
ReadRequest ==
  /\ spc = "read"
  /\ \/ /\ cpc[cur] \in {"waiting", "done"}
        /\ spc' = "execute" /\ UNCHANGED <<link, cur>>
     \/ /\ cpc[cur] = "gone"
        /\ spc' = "poll" /\ cur' = NoClient /\ link' = [link EXCEPT ![cur] = "closed"]
  /\ UNCHANGED <<main, sessionVars, engineVars, running, backlog, cpc, request, exit, executed>>

\* The connection gets an answer, if the client is still there, and is closed.
Answer(success) ==
  /\ link' = [link EXCEPT ![cur] = IF cpc[cur] = "done" THEN "none" ELSE Response(request[cur].cmd, success)]
  /\ request' = [request EXCEPT ![cur] = IF cpc[cur] = "done" THEN NoRequest ELSE @]
  /\ cur' = NoClient /\ spc' = "poll"

Asked == IF request[cur].path = NoPath THEN config ELSE request[cur].path

\* The Reload case of the callback, through EngineAdapter::loadConfig; saveSession
\* has opened, and thereby emptied, the file.
Reload ==
  /\ spc = "execute" /\ request[cur].cmd = "reload"
  /\ IF Asked \in Path \ Broken
     THEN /\ config' = Asked /\ data' = [path |-> Asked, running |-> Joinable]
          /\ sessionFile' = Torn /\ spc' = "save" /\ UNCHANGED <<link, request, cur>>
     ELSE Answer(FALSE) /\ UNCHANGED <<config, sessionFile, data>>
  /\ executed' = executed \cup {cur}
  /\ UNCHANGED <<main, promised, thread, engine, hook, handler, running, backlog, cpc, exit>>

\* saveSession has written the file.
ReloadSaved ==
  /\ spc = "save"
  /\ sessionFile' = Whole(data) /\ Answer(TRUE)
  /\ UNCHANGED <<main, data, promised, engineVars, running, backlog, cpc, exit, executed>>

\* Mutant: the engine is told to stop after the answer.
StopAnswersFirst ==
  /\ spc = "execute" /\ request[cur].cmd = "stop"
  /\ StopEngine /\ Answer(TRUE)
  /\ executed' = executed \cup {cur}
  /\ UNCHANGED <<main, sessionVars, config, thread, running, backlog, cpc, exit>>

\* The Stop case: Engine::stop, then the join of the thread that started it.
Stop ==
  /\ spc = "execute" /\ request[cur].cmd = "stop"
  /\ StopEngine /\ spc' = "join"
  /\ executed' = executed \cup {cur}
  /\ UNCHANGED <<main, sessionVars, config, thread, running, cur, backlog, clientVars>>

StopJoined ==
  /\ spc = "join" /\ thread \in {"none", "done"}
  /\ thread' = "none" /\ Answer(TRUE)
  /\ UNCHANGED <<main, sessionVars, config, engine, hook, handler, running, backlog,
                 cpc, exit, executed>>

\* The Start case: nothing if a thread is joinable, even that of a failed start.
Start ==
  /\ spc = "execute" /\ request[cur].cmd = "start"
  /\ thread' = IF Joinable THEN thread ELSE "starting"
  /\ spc' = "sleep"
  /\ executed' = executed \cup {cur}
  /\ UNCHANGED <<main, sessionVars, config, engine, hook, handler, running, cur, backlog, clientVars>>

StartSlept ==
  /\ spc = "sleep" /\ Slept
  /\ Answer(TRUE)
  /\ UNCHANGED <<main, sessionVars, engineVars, running, backlog, cpc, exit, executed>>

\* getStatusJson, getConfigJson, getKeymapsJson, getMetricsJson.
Get ==
  /\ spc = "execute" /\ request[cur].cmd \in Query
  /\ Answer(TRUE) /\ executed' = executed \cup {cur}
  /\ UNCHANGED <<main, sessionVars, engineVars, running, backlog, cpc, exit>>

(* --------------------------------- main() ---------------------------------- *)

\* restoreSession: parseJson and validateSession.  A file that a crash cut short has
\* no timestamp and is stale.
ValidSession(f) == f.form = "whole" /\ f.path \in Absolute \cup {NoPath}

\* restoreSessionState up to the end of loadConfig.  `data' is a reference: it
\* reads what loadConfig stored, and loadConfig stores that nothing is running.
Boot ==
  /\ main = "down"
  /\ promised' = (ValidSession(sessionFile) /\ sessionFile.running)
  /\ IF ValidSession(sessionFile) /\ sessionFile.path \in Path \ Broken
     THEN /\ data' = [path |-> sessionFile.path, running |-> Joinable]
          /\ config' = sessionFile.path /\ sessionFile' = Torn
     ELSE /\ data' = [path |-> sessionFile.path,
                       running |-> ValidSession(sessionFile) /\ sessionFile.running]
          /\ UNCHANGED <<config, sessionFile>>
  /\ main' = "restored"
  /\ UNCHANGED <<thread, engine, hook, handler, serverVars, clientVars, executed>>

\* The session is saved; the engine is started if the session says so, or if there
\* was nothing to restore.
BootStart ==
  /\ main = "restored"
  /\ sessionFile' = IF config = NoPath THEN sessionFile ELSE Whole(data)
  /\ thread' = IF data.running \/ config = NoPath THEN "starting" ELSE thread
  /\ main' = "starting"
  /\ UNCHANGED <<data, promised, config, engine, hook, handler, serverVars, clientVars, executed>>

\* IPCControlServer::start, which may fail, and the event loop.
Serve ==
  /\ main = "starting" /\ Slept
  /\ \/ running' = TRUE /\ spc' = "poll"
     \/ UNCHANGED <<running, spc>>
  /\ main' = "serving" /\ promised' = FALSE
  /\ UNCHANGED <<sessionFile, data, engineVars, cur, backlog, clientVars, executed>>

\* The event loop ends; IPCControlServer::stop closes the socket, and with it the
\* connections that nobody accepted.
Quit ==
  /\ main = "serving"
  /\ main' = "stopping" /\ running' = FALSE /\ backlog' = <<>>
  /\ link' = [c \in Client |-> IF \E i \in DOMAIN backlog : backlog[i] = c THEN "closed" ELSE link[c]]
  /\ UNCHANGED <<sessionVars, engineVars, spc, cur, cpc, request, exit, executed>>

\* The server thread is joined; the session is about to be saved.  The GUI may have
\* disabled the engine, which is of no other consequence here.
SaveOnExit(enabled) ==
  /\ main = "stopping" /\ spc \in {"off", "exited"}
  /\ spc' = "off"
  /\ data' = [path |-> config, running |-> Joinable /\ enabled]
  /\ sessionFile' = Torn /\ main' = "saving"
  /\ UNCHANGED <<promised, engineVars, running, cur, backlog, clientVars, executed>>

\* The session is saved, and the destructor of the adapter stops the engine.
Destroy ==
  /\ main = "saving"
  /\ sessionFile' = Whole(data) /\ StopEngine /\ main' = "destroying"
  /\ UNCHANGED <<data, promised, config, thread, serverVars, clientVars, executed>>

\* A new process begins with fresh objects; a start() that outlived stop() dies
\* with the old one.
Fresh ==
  /\ main' = "down" /\ data' = NoData /\ promised' = FALSE
  /\ config' = NoPath
  /\ thread' = "none" /\ engine' = "Stopped" /\ hook' = FALSE /\ handler' = FALSE
  /\ running' = FALSE /\ spc' = "off" /\ cur' = NoClient /\ backlog' = <<>>

Exited ==
  /\ main = "destroying" /\ thread \in {"none", "done"}
  /\ Fresh
  /\ UNCHANGED <<sessionFile, clientVars, executed>>

\* The process is killed; open connections are closed.
Crash ==
  /\ main # "down"
  /\ Fresh
  /\ link' = [c \in Client |-> IF link[c] = "open" THEN "closed" ELSE link[c]]
  /\ UNCHANGED <<sessionFile, cpc, request, exit, executed>>

Server ==
  \/ Accept \/ LeaveLoop \/ ReadRequest
  \/ Reload \/ ReloadSaved \/ Stop \/ StopJoined \/ Start \/ StartSlept \/ Get

Ctl(c) ==
  \/ \E q \in Ask(c) : Connect(c, q)
  \/ Send(c) \/ Receive(c) \/ Timeout(c) \/ Interrupt(c)

Ending == (\E enabled \in BOOLEAN : SaveOnExit(enabled)) \/ Destroy \/ Exited

Next ==
  \/ \E c \in Client : Ctl(c)
  \/ StartInstall \/ StartFinish
  \/ Server
  \/ Boot \/ BootStart \/ Serve \/ Quit \/ Ending \/ Crash

Spec == Init /\ [][Next]_vars

\* The server has something to do: a client, or the end that stop() waits for.  That
\* poll() fails is never due.
Busy == spc = "poll" => ~running \/ backlog # <<>>

\* Threads that are ready run, and a yamy-ctl that has connected sends its request
\* and waits no longer than five seconds.  Nobody has to quit the daemon.
Fairness ==
  /\ WF_vars(Busy /\ Server) /\ WF_vars(StartInstall \/ StartFinish)
  /\ WF_vars(Ending)
  /\ \A c \in Client : WF_vars(Send(c)) /\ WF_vars(Receive(c) \/ Timeout(c))

FairSpec == Spec /\ Fairness

(* -------------------------------- Properties ------------------------------- *)

TypeOK ==
  /\ main \in {"down", "restored", "starting", "serving", "stopping", "saving", "destroying"}
  /\ sessionFile \in {Absent, Torn} \cup {Whole(d) : d \in Session}
  /\ data \in Session /\ promised \in BOOLEAN
  /\ config \in Path \cup {NoPath}
  /\ thread \in {"none", "starting", "installed", "done"}
  /\ engine \in {"Stopped", "Loading", "Running"} /\ hook \in BOOLEAN /\ handler \in BOOLEAN
  /\ running \in BOOLEAN
  /\ spc \in {"off", "poll", "read", "execute", "save", "join", "sleep", "exited"}
  /\ cur \in Client \cup {NoClient} /\ backlog \in Seq(Client)
  /\ cpc \in [Client -> {"idle", "connected", "waiting", "done", "gone"}]
  /\ request \in [Client -> Request \cup {NoRequest}]
  /\ link \in [Client -> {"none", "open", "closed", "RspOk", "RspError", "RspStatus", "RspConfig",
                          "RspKeymaps", "RspMetrics"}]
  /\ exit \in [Client -> Exit \cup {"none"}] /\ executed \subseteq Client

\* Exit code 0 of yamy-ctl means that the daemon carried the command out, exit
\* code 1 that it did not and never will.
ExitCodeHonest ==
  \A c \in Client :
    /\ exit[c] = "SUCCESS" => c \in executed
    /\ exit[c] = "ENGINE_NOT_RUNNING" => c \notin executed

\* yamy-ctl understands what the daemon answers: the two tables of message types
\* agree, and a command that went well is not reported as failed.
AnswerUnderstood ==
  [][\A c \in Client : Receive(c) /\ link[c] \notin {"closed", "RspError"} => exit'[c] = "SUCCESS"]_vars

\* What "status" reports is so: the engine is Running only with its hook and its
\* handler, and Stopped only without them.
StateHonest ==
  /\ engine = "Running" => hook /\ handler
  /\ engine = "Stopped" => ~hook /\ ~handler

\* "Engine stopped": when a stop is answered, nothing of the engine is left.
StopAnswered ==
  [][\A c \in Client : request[c].cmd = "stop" /\ link[c] = "open" /\ link'[c] = "RspOk" =>
       engine' = "Stopped" /\ ~hook' /\ ~handler' /\ thread' = "none"]_vars

\* "Engine started": when a start is answered, the engine runs.
StartAnswered ==
  [][\A c \in Client : request[c].cmd = "start" /\ link[c] = "open" /\ link'[c] = "RspOk" =>
       engine' = "Running"]_vars

\* A daemon that comes up does something, whatever the session file looks like: it
\* has restored a configuration or started the engine.
BootUseful == [][main # "serving" /\ main' = "serving" => config # NoPath \/ Joinable]_vars

\* The session brings back the engine's state: an engine that was running when the
\* daemon was ended runs again after the next start.
EngineRestored == [][main # "serving" /\ main' = "serving" => (promised => Joinable)]_vars

\* A yamy-ctl that got through to the daemon ends, whatever becomes of the daemon.
ClientEnds == \A c \in Client : cpc[c] = "connected" ~> cpc[c] \in {"done", "gone"}

\* The daemon exits once its event loop has ended, though a client may be connected.
QuitCompletes == (main = "stopping") ~> (main = "down")

\* What yamy-ctl and the user are told is so: exit codes, the state that "status" reports,
\* the answers to commands and a stop; and a daemon that boots does something.
DaemonHonest == [](TypeOK /\ ExitCodeHonest /\ StateHonest) /\ AnswerUnderstood /\ StopAnswered /\ BootUseful

\* Neither side waits forever for the other.
DaemonEnds == ClientEnds /\ QuitCompletes
=============================================================================
