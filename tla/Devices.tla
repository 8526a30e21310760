------------------------------- MODULE Devices -------------------------------
(***************************************************************************)
(* DeviceManager and InputHookLinux: which event devices are taken for          *)
(* keyboards, and the life of their descriptors and reader threads through      *)
(* install, cleanup and uninstall, with m_readerThreadsMutex, while devices are *)
(* plugged and unplugged.                                                      *)
(***************************************************************************)
EXTENDS Naturals, FiniteSets

CONSTANTS
  Device,          \* event devices
  KeyBits(_),      \* device -> the key codes it says it has (EVIOCGBIT)
  Skipped(_),      \* device -> is it YAMY's own output, or does its name say mouse, trackball or touchpad
  MaxPlugs,        \* bound: devices plugged or unplugged
  MaxHooks         \* bound: installs

ASSUME DeviceAssumption == MaxPlugs \in Nat /\ MaxHooks \in Nat

VARIABLES
  plugged,     \* devices in /dev/input
  hook,        \* where install or uninstall is, and the keyboards install has still to open
  mutex,       \* who has m_readerThreadsMutex
  installed,   \* m_isInstalled
  opened,      \* m_openDevices
  threads,     \* m_readerThreads
  reading,     \* devices whose thread is in its loop
  stopping,    \* devices whose thread has m_stopRequested
  leaked,      \* history variable: did a thread fail to start, which throws out of install
  counts_      \* installs and plugs so far

deviceVars == <<plugged, hook, mutex, installed, opened, threads, reading, stopping, leaked, counts_>>

AtRest == [at |-> "idle", todo |-> {}]
Count(what, max) == counts_[what] < max /\ counts_' = [counts_ EXCEPT ![what] = @ + 1]

\* test_bit divides by 8 as for bytes and indexes an array of 64-bit words.
TestBit(bit, bits) == (64 * (bit \div 8) + (bit % 8)) \in bits

\* isKeyboardDevice: A, Z, Enter, Space, Esc, 1, 2 or Tab.
IsKeyboard(d) == \E bit \in {30, 44, 28, 57, 1, 2, 3, 15} : TestBit(bit, KeyBits(d))

\* enumerateDevices, enumerateKeyboards.
EnumerateKeyboards == {d \in plugged : IsKeyboard(d)}

DevicesInit ==
  /\ plugged \in SUBSET Device /\ hook = AtRest /\ mutex = "free" /\ installed = FALSE
  /\ opened = {} /\ threads = {} /\ reading = {} /\ stopping = {} /\ leaked = FALSE /\ counts_ = [hooks |-> 0, plugs |-> 0]

(* ------------------------------------ install ------------------------------------ *)

\* install: throws when there is no keyboard.
Install_ ==
  /\ hook = AtRest /\ ~installed /\ mutex = "free" /\ Count("hooks", MaxHooks)
  /\ IF EnumerateKeyboards = {} THEN UNCHANGED <<hook, mutex>>
     ELSE hook' = [at |-> "install", todo |-> EnumerateKeyboards] /\ mutex' = "install"
  /\ UNCHANGED <<plugged, installed, opened, threads, reading, stopping, leaked>>

\* One turn of its loop: skip, fail to open, open and start a reader; a thread that cannot start throws out of install.
InstallDevice(d) ==
  /\ hook.at = "install" /\ d \in hook.todo
  /\ \/ hook' = [hook EXCEPT !.todo = @ \ {d}] /\ UNCHANGED <<opened, threads, reading, mutex, leaked>>
     \/ /\ ~Skipped(d) /\ d \in plugged /\ hook' = [hook EXCEPT !.todo = @ \ {d}] /\ UNCHANGED <<mutex, leaked>>
        /\ opened' = opened \cup {d} /\ threads' = threads \cup {d} /\ reading' = reading \cup {d}
     \/ /\ ~Skipped(d) /\ d \in plugged /\ hook' = AtRest /\ mutex' = "free"
        /\ opened' = opened \cup {d} /\ leaked' = TRUE /\ UNCHANGED <<threads, reading>>
  /\ UNCHANGED <<plugged, installed, stopping, counts_>>

\* Without a reader it calls cleanup, which waits for the mutex that install holds.
InstallEnds_ ==
  /\ hook.at = "install" /\ hook.todo = {}
  /\ IF threads = {} THEN hook' = [AtRest EXCEPT !.at = "cleanup"] /\ UNCHANGED <<mutex, installed>>
     ELSE hook' = AtRest /\ mutex' = "free" /\ installed' = TRUE
  /\ UNCHANGED <<plugged, opened, threads, reading, stopping, leaked, counts_>>

(* ------------------------------------ uninstall ------------------------------------ *)

\* uninstall reads m_isInstalled and calls cleanup.
Uninstall_ ==
  /\ hook = AtRest /\ installed /\ hook' = [AtRest EXCEPT !.at = "cleanup"]
  /\ UNCHANGED <<plugged, mutex, installed, opened, threads, reading, stopping, leaked, counts_>>

Cleanup ==
  /\ hook.at = "cleanup" /\ mutex = "free" /\ mutex' = "cleanup" /\ hook' = [AtRest EXCEPT !.at = "stop"]
  /\ UNCHANGED <<plugged, installed, opened, threads, reading, stopping, leaked, counts_>>

\* stop: m_stopRequested, then join, one thread after the other.
StopReader(d) ==
  /\ hook.at = "stop" /\ d \in threads /\ stopping = {} /\ stopping' = {d}
  /\ UNCHANGED <<plugged, hook, mutex, installed, opened, threads, reading, leaked, counts_>>
JoinReaderHasty(d) ==
  /\ hook.at = "stop" /\ d \in stopping /\ stopping' = {} /\ threads' = threads \ {d}
  /\ UNCHANGED <<plugged, hook, mutex, installed, opened, reading, leaked, counts_>>
JoinReader(d) ==
  /\ hook.at = "stop" /\ d \in stopping /\ d \notin reading /\ stopping' = {} /\ threads' = threads \ {d}
  /\ UNCHANGED <<plugged, hook, mutex, installed, opened, reading, leaked, counts_>>

CloseDevices ==
  /\ hook.at = "stop" /\ threads = {} /\ opened' = {} /\ hook' = AtRest /\ mutex' = "free" /\ installed' = FALSE
  /\ UNCHANGED <<plugged, threads, reading, stopping, leaked, counts_>>

(* ------------------------------------ Readers ------------------------------------ *)

\* A key that ends the blocking read of a thread that is told to stop, or ENODEV.
ReaderEnds(d) ==
  /\ d \in reading /\ (d \in stopping \/ d \notin plugged) /\ reading' = reading \ {d}
  /\ UNCHANGED <<plugged, hook, mutex, installed, opened, threads, stopping, leaked, counts_>>

Plug(d) ==
  /\ d \notin plugged /\ Count("plugs", MaxPlugs) /\ plugged' = plugged \cup {d}
  /\ UNCHANGED <<hook, mutex, installed, opened, threads, reading, stopping, leaked>>
Unplug(d) ==
  /\ d \in plugged /\ Count("plugs", MaxPlugs) /\ plugged' = plugged \ {d}
  /\ UNCHANGED <<hook, mutex, installed, opened, threads, reading, stopping, leaked>>

HookSteps == InstallEnds_ \/ Cleanup \/ CloseDevices \/ \E d \in Device : InstallDevice(d)

DevicesNext ==
  \/ HookSteps \/ Install_ \/ Uninstall_
  \/ \E d \in Device : StopReader(d) \/ JoinReader(d) \/ ReaderEnds(d) \/ Plug(d) \/ Unplug(d)

\* The thread that is in install runs on.
DevicesFairness == WF_deviceVars(HookSteps)

DevicesSpec == DevicesInit /\ [][DevicesNext]_deviceVars /\ DevicesFairness

(* ------------------------------------ Properties ------------------------------------ *)

DevicesTypeOK ==
  /\ threads \subseteq Device /\ reading \subseteq Device /\ stopping \subseteq threads /\ installed \in BOOLEAN
  /\ hook.at \in {"idle", "install", "cleanup", "stop"} /\ mutex \in {"free", "install", "cleanup"}

\* A thread reads from an open descriptor, of a device whose events are not YAMY's own or a pointer's: the number of
\* a closed one may be another file's by then, and the own output would come back as input.
ReadsOwn == \A d \in reading : d \in opened /\ ~Skipped(d)

\* Between calls: no descriptor and no thread when the hook is not installed, a thread for every one when it is,
\* unless a thread could not be started.
HookHonest == (hook = AtRest /\ ~leaked) => IF installed THEN threads # {} /\ threads = opened ELSE opened = {} /\ reading = {}

\* A device that has the letters, digits and the common keys is taken for a keyboard, a pointer with buttons only is not.
KeyboardsFound ==
  \A d \in plugged : /\ {1, 2, 3, 15, 28, 30, 44, 57} \subseteq KeyBits(d) => d \in EnumerateKeyboards
                     /\ KeyBits(d) \subseteq 272..279 => d \notin EnumerateKeyboards

\* Refuted: the same without the exception: install that throws from its loop leaves its descriptors and threads.
HookAlways == hook = AtRest => (installed \/ opened = {})

\* Refuted: install returns or throws.  When it hooks no device it calls cleanup with the mutex held.
InstallReturns == hook.at = "install" ~> hook.at = "idle"

\* Refuted: a device without a keyboard key is not taken for a keyboard; TestBit reads the bits of others.
OnlyKeyboards == \A d \in EnumerateKeyboards : KeyBits(d) \cap {30, 44, 28, 57, 1, 2, 3, 15} # {}

\* Refuted: a keyboard plugged in while the hook is installed is read.
PluggedRead == (installed /\ hook = AtRest) => \A d \in EnumerateKeyboards : Skipped(d) \/ d \in threads
=============================================================================
