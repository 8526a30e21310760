------------------------------- MODULE GuiChannel -------------------------------
(***************************************************************************)
(* The GUI and the engine: IPCChannelQt at both ends, IPCClientGUI with its *)
(* poll and reconnect timers, MainWindowGUI, the list of configurations in  *)
(* DialogSettingsQt, and Engine::handleIpcMessage.                          *)
(*                                                                         *)
(* Every command is answered to all clients with a status and the list.     *)
(* A configuration is known by its path and by its name; the status gives   *)
(* the one and the list the other.  A message crosses the socket in two     *)
(* pieces.  QMessageBox runs an event loop inside the handler of a message. *)
(***************************************************************************)
EXTENDS Naturals, Sequences

CONSTANTS
  Gui,          \* running GUIs
  Path,         \* configuration files
  kMaxAttempts, \* 3 in the code
  Eager,        \* may Reconnect be chosen while the window shows a connection?
  MaxCommands,  \* bound: what users do
  MaxDeaths     \* bound: how often the daemon ends

ASSUME GuiChannelAssumption ==
  kMaxAttempts \in Nat /\ Eager \in BOOLEAN /\ MaxCommands \in Nat /\ MaxDeaths \in Nat

VARIABLES
  listening,                   \* is there a daemon?
  engineEnabled, listed, chosen, locks, \* the engine: enabled, list, active configuration, a lock
  sock,      \* the GUI's socket: "off", "on", or "closing" when the daemon has gone
  toServer,  \* commands on the way
  toClient,  \* pieces of messages on the way
  buffer,    \* m_receiveBuffer
  client,    \* m_lastConnected, m_shouldReconnect, m_reconnectAttempts, is m_reconnectTimer active
  ui,        \* what the main window remembers and shows
  boxes,     \* handlers of a status that wait for their message box, innermost last
  commands, deaths

guiVars == <<listening, engineEnabled, listed, chosen, locks, sock, toServer, toClient, buffer, client, ui,
             boxes, commands, deaths>>
engineVars == <<engineEnabled, listed, chosen, locks>>

Name(c) == <<"name", c>>
PathOf(c) == <<"path", c>>
Empty == <<"", "">>

\* IPCChannelQt::isConnected in client mode.
IsConnected(g) == sock[g] # "off"

Blank == [hasStatus |-> FALSE, enabled |-> FALSE, active |-> Empty, label |-> "Enable", toggle |-> FALSE,
          reload |-> FALSE, select |-> FALSE, names |-> <<>>, current |-> Empty, connected |-> FALSE,
          lastError |-> FALSE, lock |-> FALSE]

GuiInit ==
  /\ listening \in BOOLEAN /\ engineEnabled = TRUE /\ listed = <<>> /\ chosen = Empty /\ locks = FALSE
  /\ sock = [g \in Gui |-> "off"] /\ toServer = [g \in Gui |-> <<>>]
  /\ toClient = [g \in Gui |-> <<>>] /\ buffer = [g \in Gui |-> <<>>]
  /\ client = [g \in Gui |-> [last |-> FALSE, should |-> FALSE, attempts |-> 0, timer |-> FALSE]]
  /\ ui = [g \in Gui |-> Blank] /\ boxes = [g \in Gui |-> <<>>] /\ commands = 0 /\ deaths = 0

(* --------------------------------- Main window --------------------------------- *)

\* handleConnectionChange.
ConnectionChange(u, connected) ==
  LET v == [u EXCEPT !.connected = connected, !.toggle = connected /\ u.hasStatus, !.reload = FALSE,
                     !.select = FALSE, !.lastError = FALSE] IN
  IF connected THEN v
  ELSE [v EXCEPT !.hasStatus = FALSE, !.active = Empty, !.names = <<>>, !.current = Empty, !.label = "Enable"]

\* handleStatusReceived up to the message box, ...
StatusBegin(u, m) == [u EXCEPT !.hasStatus = TRUE, !.enabled = m.enabled, !.active = m.active]

\* ... and after it.
StatusEnd(u, m, on) ==
  [u EXCEPT !.lastError = m.error, !.label = IF m.enabled THEN "Disable" ELSE "Enable", !.toggle = on,
            !.select = on /\ u.names # <<>>, !.reload = on /\ u.names # <<>>]

\* handleConfigListReceived: the active configuration is looked up in the list.
ListReceived(u, m, on) ==
  LET found == {i \in DOMAIN m.names : m.names[i] = u.active}
      usable == m.names # <<>> /\ on IN
  [u EXCEPT !.names = m.names, !.select = usable, !.reload = usable,
            !.current = IF m.names = <<>> THEN Empty
                        ELSE m.names[IF found = {} THEN 1 ELSE CHOOSE i \in found : TRUE]]

(* ------------------------------ Channel and client ------------------------------ *)

\* IPCChannelQt::send of the client.
Post(g, c) == toServer' = [toServer EXCEPT ![g] = IF sock[g] = "on" THEN @ \o c ELSE @]

\* pollConnectionState, for a socket that is then connected or not: it tells the window of
\* a change, which then asks for the status, and schedules an attempt to reconnect.
Poll(g, cl, connected) ==
  LET changed == connected # cl.last
      known == [cl EXCEPT !.last = connected, !.attempts = IF changed /\ connected THEN 0 ELSE @,
                          !.timer = IF changed /\ connected THEN FALSE ELSE @]
      try == ~connected /\ known.should /\ ~known.timer /\ known.attempts < kMaxAttempts
  IN /\ client' = [client EXCEPT ![g] = [known EXCEPT !.attempts = IF try THEN @ + 1 ELSE @, !.timer = @ \/ try]]
     /\ ui' = [ui EXCEPT ![g] = IF changed THEN ConnectionChange(@, connected) ELSE @]
     /\ IF changed /\ connected
        THEN toServer' = [toServer EXCEPT ![g] = IF sock'[g] = "on" THEN @ \o <<[cmd |-> "status"], [cmd |-> "lock"]>> ELSE @]
        ELSE UNCHANGED toServer

\* IPCChannelQt::connect: a connection is given up first.  connectToServer of a local
\* socket succeeds or fails at once.
Connect(g) ==
  /\ sock' = [sock EXCEPT ![g] = IF listening THEN "on" ELSE "off"]
  /\ toClient' = [toClient EXCEPT ![g] = <<>>]
  /\ buffer' = [buffer EXCEPT ![g] = IF sock[g] = "off" THEN @ ELSE <<>>]

\* connectToDaemon.
ConnectToDaemon(g) ==
  /\ Connect(g)
  /\ Poll(g, [client[g] EXCEPT !.should = TRUE, !.attempts = 0, !.timer = FALSE], listening)

Start(g) ==
  /\ ~client[g].should /\ ConnectToDaemon(g)
  /\ UNCHANGED <<listening, engineVars, boxes, commands, deaths>>

\* A message box of the window takes the clicks.
User(g) ==
  /\ client[g].should /\ boxes[g] = <<>> /\ commands < MaxCommands /\ commands' = commands + 1

Reconnect(g) ==
  /\ User(g) /\ (Eager \/ ~ui[g].connected) /\ ConnectToDaemon(g)
  /\ UNCHANGED <<listening, engineVars, boxes, deaths>>

\* The timer of 500 ms.
PollTimer(g) ==
  /\ client[g].should /\ UNCHANGED sock /\ Poll(g, client[g], IsConnected(g))
  /\ UNCHANGED <<listening, engineVars, toClient, buffer, boxes, commands, deaths>>

\* attemptReconnect.
ReconnectTimer(g) ==
  /\ client[g].timer /\ client' = [client EXCEPT ![g].timer = FALSE] /\ Connect(g)
  /\ UNCHANGED <<listening, engineVars, toServer, ui, boxes, commands, deaths>>

\* Mutant: the pieces that were read stay.
OnDisconnectedKeeps(g) ==
  /\ sock[g] = "closing" /\ toClient[g] = <<>>
  /\ sock' = [sock EXCEPT ![g] = "off"]
  /\ UNCHANGED <<listening, engineVars, toServer, toClient, buffer, client, ui, boxes, commands, deaths>>

\* onDisconnected, onError: the socket has been read to its end.
OnDisconnected(g) ==
  /\ sock[g] = "closing" /\ toClient[g] = <<>>
  /\ sock' = [sock EXCEPT ![g] = "off"] /\ buffer' = [buffer EXCEPT ![g] = <<>>]
  /\ UNCHANGED <<listening, engineVars, toServer, toClient, client, ui, boxes, commands, deaths>>

\* IPCClientGUI::handleMessage.  The type of a lock status is ipc::LockStatusUpdate here and
\* yamy::LockStatusUpdate, another number, in the engine.
Handle(g, m) ==
  CASE m.type = "status" ->
         IF m.error /\ ~ui[g].lastError
         THEN boxes' = [boxes EXCEPT ![g] = Append(@, m)] /\ ui' = [ui EXCEPT ![g] = StatusBegin(@, m)]
         ELSE ui' = [ui EXCEPT ![g] = StatusEnd(StatusBegin(@, m), m, IsConnected(g))] /\ UNCHANGED boxes
    [] m.type = "list" ->
         ui' = [ui EXCEPT ![g] = ListReceived(@, m, IsConnected(g))] /\ UNCHANGED boxes
    [] m.type = "ipc::lock" ->
         ui' = [ui EXCEPT ![g].lock = m.lock] /\ UNCHANGED boxes
    [] OTHER -> UNCHANGED <<ui, boxes>>

\* onReadyRead and processReceiveBuffer: a piece is appended, and a message that is complete
\* is handled.
OnReadyRead(g) ==
  /\ sock[g] # "off" /\ toClient[g] # <<>>
  /\ LET data == Append(buffer[g], Head(toClient[g])) IN
     IF Len(data) = 2
     THEN buffer' = [buffer EXCEPT ![g] = <<>>] /\ Handle(g, data[2].msg)
     ELSE buffer' = [buffer EXCEPT ![g] = data] /\ UNCHANGED <<ui, boxes>>
  /\ toClient' = [toClient EXCEPT ![g] = Tail(@)]
  /\ UNCHANGED <<listening, engineVars, sock, toServer, client, commands, deaths>>

\* The message box is closed.
CloseBox(g) ==
  /\ boxes[g] # <<>>
  /\ ui' = [ui EXCEPT ![g] = StatusEnd(@, boxes[g][Len(boxes[g])], IsConnected(g))]
  /\ boxes' = [boxes EXCEPT ![g] = SubSeq(@, 1, Len(@) - 1)]
  /\ UNCHANGED <<listening, engineVars, sock, toServer, toClient, buffer, client, commands, deaths>>

(* ----------------------------------- The user ----------------------------------- *)

Click(g, u, c) ==
  /\ User(g) /\ ui' = [ui EXCEPT ![g] = u] /\ Post(g, <<c>>)
  /\ UNCHANGED <<listening, engineVars, sock, toClient, buffer, client, boxes, deaths>>

\* handleToggleClicked.
Toggle(g) ==
  /\ ui[g].toggle /\ ui[g].hasStatus /\ IsConnected(g)
  /\ Click(g, [ui[g] EXCEPT !.toggle = FALSE, !.label = "busy"], [cmd |-> "enable", on |-> ~ui[g].enabled])

\* handleReloadClicked: what the selector shows, or the active configuration.
ReloadTarget(u) == IF u.current = Empty THEN u.active ELSE u.current
ReloadClicked(g) ==
  /\ ui[g].reload /\ ui[g].hasStatus /\ IsConnected(g)
  /\ Click(g, [ui[g] EXCEPT !.toggle = FALSE, !.reload = FALSE, !.select = FALSE],
           [cmd |-> "switch", target |-> ReloadTarget(ui[g])])

\* handleConfigSelectionChanged.
Select(g, n) ==
  /\ ui[g].select /\ n # ui[g].current /\ ui[g].hasStatus /\ IsConnected(g) /\ n # ui[g].active
  /\ Click(g, [ui[g] EXCEPT !.current = n, !.toggle = FALSE, !.reload = FALSE, !.select = FALSE],
           [cmd |-> "switch", target |-> n])

\* DialogSettingsQt: onAddKeymap with a path, onRemoveKeymap with what its list shows.
AddKeymap(g, c) == Click(g, ui[g], [cmd |-> "add", target |-> c])
RemoveKeymap(g, n) == Click(g, ui[g], [cmd |-> "remove", target |-> n])

\* ~MainWindowGUI: disconnectFromDaemon.
CloseWindow(g) ==
  /\ User(g)
  /\ sock' = [sock EXCEPT ![g] = "off"] /\ toClient' = [toClient EXCEPT ![g] = <<>>]
  /\ buffer' = [buffer EXCEPT ![g] = <<>>] /\ ui' = [ui EXCEPT ![g] = Blank]
  /\ client' = [client EXCEPT ![g] = [last |-> FALSE, should |-> FALSE, attempts |-> 0, timer |-> FALSE]]
  /\ UNCHANGED <<listening, engineVars, toServer, boxes, deaths>>

(* ---------------------------------- The engine ---------------------------------- *)

Pieces(m) == <<[msg |-> m, part |-> "head"], [msg |-> m, part |-> "tail"]>>

\* IPCChannelQt::send of the server: to every client that is connected.
Broadcast(ms) == toClient' = [g \in Gui |-> IF sock[g] = "on" THEN toClient[g] \o ms ELSE toClient[g]]

\* sendGuiStatus and sendGuiConfigList.
Answer(error) ==
  Broadcast(Pieces([type |-> "status", enabled |-> engineEnabled', active |-> chosen', error |-> error])
            \o Pieces([type |-> "list", names |-> [i \in DOMAIN listed' |-> Name(listed'[i])]]))

\* CmdSwitchConfig and CmdReloadConfig: an entry is found by its name or its path;
\* switchConfiguration may fail.
Switch(target) ==
  LET found == {c \in Path : (\E i \in DOMAIN listed : listed[i] = c) /\ target \in {Name(c), PathOf(c)}} IN
  /\ UNCHANGED <<engineEnabled, listed, locks>>
  /\ \/ \E c \in found : chosen' = PathOf(c) /\ Answer(FALSE)
     \/ UNCHANGED chosen /\ Answer(TRUE)

Without(s, i) == SubSeq(s, 1, i - 1) \o SubSeq(s, i + 1, Len(s))

\* handleIpcMessage.
Serve(g) ==
  /\ listening /\ toServer[g] # <<>> /\ toServer' = [toServer EXCEPT ![g] = Tail(@)]
  /\ LET c == Head(toServer[g]) IN
     \/ c.cmd = "status" /\ UNCHANGED engineVars /\ Answer(FALSE)
     \/ /\ c.cmd = "lock" /\ UNCHANGED engineVars
        /\ Broadcast(Pieces([type |-> "yamy::lock", lock |-> locks]))
     \/ c.cmd = "enable" /\ engineEnabled' = c.on /\ UNCHANGED <<listed, chosen, locks>> /\ Answer(FALSE)
     \/ c.cmd = "switch" /\ Switch(c.target)
     \/ /\ c.cmd = "add" /\ UNCHANGED <<engineEnabled, chosen, locks>>
        /\ LET new == \A i \in DOMAIN listed : listed[i] # c.target IN
           listed' = (IF new THEN Append(listed, c.target) ELSE listed) /\ Answer(~new)
     \/ /\ c.cmd = "remove" /\ UNCHANGED <<engineEnabled, locks>>
        /\ LET found == {i \in DOMAIN listed : PathOf(listed[i]) = c.target} IN
           /\ listed' = (IF found = {} THEN listed ELSE Without(listed, CHOOSE i \in found : TRUE))
           /\ chosen' = (IF chosen = c.target THEN Empty ELSE chosen)
           /\ Answer(found = {})
  /\ UNCHANGED <<listening, sock, buffer, client, ui, boxes, commands, deaths>>

\* toggleLock and notifyGUILocks.
ToggleLock ==
  /\ listening /\ commands < MaxCommands /\ commands' = commands + 1
  /\ locks' = ~locks /\ Broadcast(Pieces([type |-> "yamy::lock", lock |-> locks']))
  /\ UNCHANGED <<listening, engineEnabled, listed, chosen, sock, toServer, buffer, client, ui, boxes, deaths>>

\* The daemon ends, with what it has not written yet.
DaemonEnds ==
  /\ listening /\ deaths < MaxDeaths /\ deaths' = deaths + 1 /\ listening' = FALSE
  /\ sock' = [g \in Gui |-> IF sock[g] = "on" THEN "closing" ELSE sock[g]]
  /\ toServer' = [g \in Gui |-> <<>>]
  /\ \E n \in 0..1 : toClient' = [g \in Gui |-> SubSeq(toClient[g], 1, Len(toClient[g]) - n)]
  /\ UNCHANGED <<engineVars, buffer, client, ui, boxes, commands>>

\* A daemon starts.  The list of configurations is that of the file.
DaemonStarts ==
  /\ ~listening /\ listening' = TRUE /\ engineEnabled' = TRUE /\ locks' = FALSE
  /\ UNCHANGED <<listed, chosen, sock, toServer, toClient, buffer, client, ui, boxes, commands, deaths>>

GuiNext ==
  \/ \E g \in Gui :
       \/ Start(g) \/ Reconnect(g) \/ PollTimer(g) \/ ReconnectTimer(g) \/ OnDisconnected(g) \/ OnReadyRead(g)
       \/ CloseBox(g) \/ Toggle(g) \/ ReloadClicked(g) \/ CloseWindow(g) \/ Serve(g)
       \/ \E c \in Path : Select(g, Name(c)) \/ AddKeymap(g, c)
       \/ \E i \in DOMAIN ui[g].names : RemoveKeymap(g, ui[g].names[i])
  \/ ToggleLock \/ DaemonEnds \/ DaemonStarts

GuiSpec == GuiInit /\ [][GuiNext]_guiVars

\* The event loops deliver what is there; nobody has to click or to start a daemon.
GuiFairness ==
  \A g \in Gui : /\ WF_guiVars(PollTimer(g)) /\ WF_guiVars(ReconnectTimer(g)) /\ WF_guiVars(OnDisconnected(g))
                 /\ WF_guiVars(OnReadyRead(g)) /\ WF_guiVars(Serve(g))

(* ---------------------------------- Properties ---------------------------------- *)

GuiTypeOK ==
  /\ {listening, engineEnabled, locks} \subseteq BOOLEAN
  /\ \A g \in Gui : /\ sock[g] \in {"off", "on", "closing"} /\ client[g].attempts \in 0..kMaxAttempts
                    /\ Len(buffer[g]) < 2 /\ ui[g].label \in {"Enable", "Disable", "busy"}

\* A message is put together from pieces of one message, also across connections that end
\* in its middle.
FramesWhole ==
  \A g \in Gui : /\ buffer[g] # <<>> => buffer[g][1].part = "head"
                 /\ buffer[g] # <<>> /\ toClient[g] # <<>> => toClient[g][1] = [buffer[g][1] EXCEPT !.part = "tail"]

Quiet(g) == sock[g] = "on" /\ ui[g].connected /\ \A h \in Gui : toServer[h] = <<>> /\ toClient[h] = <<>> /\ buffer[h] = <<>> /\ boxes[h] = <<>>

\* When all is answered, the window takes the engine for what it is: the state it
\* inverts with a click, and the configuration that is active, also after the daemon was
\* replaced by another.
GuiHonest ==
  \A g \in Gui : Quiet(g) /\ ui[g].hasStatus => ui[g].enabled = engineEnabled /\ ui[g].active = chosen

\* ... and the button says what a click will do.
ButtonHonest ==
  \A g \in Gui : Quiet(g) /\ ui[g].toggle => ui[g].label = IF ui[g].enabled THEN "Disable" ELSE "Enable"

\* The window shows the locks of the engine.
LockShown == \A g \in Gui : Quiet(g) /\ ui[g].hasStatus => ui[g].lock = locks

\* Reload loads the active configuration again, until another is selected.
ReloadActive ==
  \A g \in Gui : Quiet(g) /\ ui[g].reload /\ chosen # Empty => ReloadTarget(ui[g]) \in {chosen, Name(chosen[2])}

\* A button that is disabled for the time of a command is usable again, unless the
\* connection is lost or an error waits for the user.
ButtonsBack ==
  \A g \in Gui : ui[g].connected /\ ~ui[g].toggle ~> ui[g].toggle \/ ~ui[g].connected \/ boxes[g] # <<>>

\* While the attempts last, a GUI finds a daemon that is there.
Reconnects ==
  \A g \in Gui : listening /\ client[g].should /\ client[g].attempts < kMaxAttempts
                 ~> sock[g] # "off" \/ ~listening \/ ~client[g].should

\* Messages stay whole across connections, and the window shows the engine as it is.
GuiSafe == GuiTypeOK /\ FramesWhole /\ GuiHonest
=============================================================================
