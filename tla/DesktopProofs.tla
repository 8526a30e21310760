----------------------------- MODULE DesktopProofs -----------------------------
(***************************************************************************)
(* Proofs about the desktop around the daemon: the GUIs and their channel  *)
(* to the engine, the metrics, the tray icons, the crash reports, the      *)
(* plugins and the commands that reach other threads.                      *)
(***************************************************************************)
EXTENDS DesktopMC, ProofBasics, FiniteSetTheorems

(* -------------------------------- The GUI's channel -------------------------------- *)

Ident == {Empty} \cup {Name(c) : c \in Path} \cup {PathOf(c) : c \in Path}

Message ==
  [type : {"status"}, enabled : BOOLEAN, active : Ident, error : BOOLEAN]
    \cup [type : {"list"}, names : Seq(Ident)] \cup [type : {"yamy::lock"}, lock : BOOLEAN]
Statuses == {m \in Message : m.type = "status"}

Piece == [msg : Message, part : {"head", "tail"}]

WindowCommand ==
  [cmd : {"status", "lock"}] \cup [cmd : {"enable"}, on : BOOLEAN]
    \cup [cmd : {"switch", "remove"}, target : Ident] \cup [cmd : {"add"}, target : Path]

ClientState == [last : BOOLEAN, should : BOOLEAN, attempts : 0..kMaxAttempts, timer : BOOLEAN]

Window ==
  [hasStatus : BOOLEAN, enabled : BOOLEAN, active : Ident, label : {"Enable", "Disable", "busy"}, toggle : BOOLEAN,
   reload : BOOLEAN, select : BOOLEAN, names : Seq(Ident), current : Ident, connected : BOOLEAN,
   lastError : BOOLEAN, lock : BOOLEAN]

GuiTypes ==
  /\ listening \in BOOLEAN /\ engineEnabled \in BOOLEAN /\ locks \in BOOLEAN /\ chosen \in Ident /\ listed \in Seq(Path)
  /\ sock \in [Gui -> {"off", "on", "closing"}] /\ toServer \in [Gui -> Seq(WindowCommand)]
  /\ toClient \in [Gui -> Seq(Piece)] /\ buffer \in [Gui -> Seq(Piece)]
  /\ client \in [Gui -> ClientState] /\ ui \in [Gui -> Window] /\ boxes \in [Gui -> Seq(Statuses)]

\* What the client cl believes of its connection is what the window u shows; a timer runs
\* only without one.
ClientKnown(cl, u) ==
  /\ cl.last <=> u.connected
  /\ cl.timer => ~cl.last
  /\ ~cl.should => ~cl.last

\* Pieces come in pairs; only the end may lack one.
Framed(s) ==
  \A i \in 1..Len(s) :
    /\ i = 1 => s[i].part = "head"
    /\ i < Len(s) /\ s[i].part = "head" => s[i + 1].part = "tail" /\ s[i + 1].msg = s[i].msg
    /\ i < Len(s) /\ s[i].part = "tail" => s[i + 1].part = "head"
Ended(s) == s # <<>> => s[Len(s)].part = "tail"

\* A socket in state so, with b read and t on the way.
FramesKnown(so, b, t, l) ==
  /\ Len(b) < 2 /\ Framed(b \o t)
  /\ so = "on" => Ended(b \o t) /\ l
  /\ so = "off" => b = <<>> /\ t = <<>>

StatusPiece == {x \in Piece : x.part = "tail" /\ x.msg.type = "status"}
Telling(e, a) == {x \in Piece : x.msg.type = "status" /\ x.msg.enabled = e /\ x.msg.active = a}
AskStatus == {c \in WindowCommand : c.cmd = "status"}

\* The window u has the engine's state, or the last status on its way to it does.
Heard(s, u, e, a) ==
  \/ NoneIn(s, StatusPiece) /\ (u.hasStatus => u.enabled = e /\ u.active = a)
  \/ EndsIn(s, StatusPiece, Telling(e, a))

\* A question about the status is on its way.
Asked(c) == \E i \in 1..Len(c) : c[i] \in AskStatus

EngineKnown(so, u, s, c, e, a) == so = "on" /\ u.connected => Heard(s, u, e, a) \/ Asked(c)

GuiKnown(g) ==
  /\ ClientKnown(client[g], ui[g])
  /\ FramesKnown(sock[g], buffer[g], toClient[g], listening)
  /\ EngineKnown(sock[g], ui[g], buffer[g] \o toClient[g], toServer[g], engineEnabled, chosen)

GuiInv == GuiTypes /\ \A g \in Gui : GuiKnown(g)

LEMMA ConnectionTyped ==
  ASSUME NEW u \in Window, NEW b \in BOOLEAN
  PROVE  ConnectionChange(u, b) \in Window
<1> DEFINE v == [u EXCEPT !.connected = b, !.toggle = b /\ u.hasStatus, !.reload = FALSE,
                     !.select = FALSE, !.lastError = FALSE]
<1>1. v \in Window
  BY DEF Window
<1>2. Empty \in Ident /\ <<>> \in Seq(Ident)
  BY DEF Ident
<1>3. [v EXCEPT !.hasStatus = FALSE, !.active = Empty, !.names = <<>>, !.current = Empty, !.label = "Enable"] \in Window
  <2> HIDE DEF v
  <2> QED
    BY <1>1, <1>2 DEF Window
<1> QED
  BY <1>1, <1>3 DEF ConnectionChange

LEMMA ConnectionIs ==
  ASSUME NEW u \in Window, NEW b \in BOOLEAN
  PROVE  /\ ConnectionChange(u, b).connected = b
         /\ b => /\ ConnectionChange(u, b).hasStatus = u.hasStatus
                 /\ ConnectionChange(u, b).enabled = u.enabled
                 /\ ConnectionChange(u, b).active = u.active
BY DEF ConnectionChange, Window

LEMMA BeginIs ==
  ASSUME NEW u \in Window, NEW m \in Statuses
  PROVE  /\ StatusBegin(u, m) \in Window /\ StatusBegin(u, m).connected = u.connected
         /\ StatusBegin(u, m).enabled = m.enabled /\ StatusBegin(u, m).active = m.active
<1>1. m.enabled \in BOOLEAN /\ m.active \in Ident /\ m.error \in BOOLEAN
  BY DEF Statuses, Message
<1> QED
  BY <1>1 DEF StatusBegin, Window

LEMMA EndIs ==
  ASSUME NEW u \in Window, NEW m \in Statuses, NEW linked \in BOOLEAN
  PROVE  /\ StatusEnd(u, m, linked) \in Window /\ StatusEnd(u, m, linked).connected = u.connected
         /\ StatusEnd(u, m, linked).enabled = u.enabled /\ StatusEnd(u, m, linked).active = u.active
         /\ StatusEnd(u, m, linked).hasStatus = u.hasStatus
<1>1. m.enabled \in BOOLEAN /\ m.active \in Ident /\ m.error \in BOOLEAN
  BY DEF Statuses, Message
<1> QED
  BY <1>1, ZenonT(40) DEF StatusEnd, Window

LEMMA ListIs ==
  ASSUME NEW u \in Window, NEW m \in Message, m.type = "list", NEW linked \in BOOLEAN
  PROVE  /\ ListReceived(u, m, linked) \in Window /\ ListReceived(u, m, linked).connected = u.connected
         /\ ListReceived(u, m, linked).enabled = u.enabled /\ ListReceived(u, m, linked).active = u.active
         /\ ListReceived(u, m, linked).hasStatus = u.hasStatus
<1> DEFINE found == {i \in DOMAIN m.names : m.names[i] = u.active}
           usable == m.names # <<>> /\ linked
           cur == IF m.names = <<>> THEN Empty ELSE m.names[IF found = {} THEN 1 ELSE CHOOSE i \in found : TRUE]
<1>1. m.names \in Seq(Ident)
  BY DEF Message
<1>2. cur \in Ident
  <2>1. CASE m.names = <<>>
    BY <2>1 DEF Ident
  <2>2. CASE m.names # <<>>
    BY <1>1, <2>2
  <2> QED
    BY <2>1, <2>2
<1>3. usable \in BOOLEAN
  OBVIOUS
<1>4. ListReceived(u, m, linked) = [u EXCEPT !.names = m.names, !.select = usable, !.reload = usable, !.current = cur]
  BY DEF ListReceived
<1> HIDE DEF found, usable, cur
<1> QED
  BY <1>1, <1>2, <1>3, <1>4, ZenonT(40) DEF Window

(* What happens to the pieces on the way. *)

LEMMA FramedBoth ==
  ASSUME NEW s \in Seq(Piece), NEW t \in Seq(Piece), Framed(s), Ended(s), Framed(t), Ended(t)
  PROVE  Framed(s \o t) /\ Ended(s \o t)
<1> DEFINE r == s \o t
<1>1. /\ Len(r) = Len(s) + Len(t) /\ Len(s) \in Nat /\ Len(t) \in Nat
      /\ \A i \in 1..Len(s) + Len(t) : r[i] = IF i <= Len(s) THEN s[i] ELSE t[i - Len(s)]
  BY ConcatProperties
<1> HIDE DEF r
<1>2. ASSUME NEW i \in 1..Len(r)
      PROVE  /\ i = 1 => r[i].part = "head"
             /\ i < Len(r) /\ r[i].part = "head" => r[i + 1].part = "tail" /\ r[i + 1].msg = r[i].msg
             /\ i < Len(r) /\ r[i].part = "tail" => r[i + 1].part = "head"
  <2>1. CASE i < Len(s)
    <3>1. i \in 1..Len(s) /\ r[i] = s[i] /\ r[i + 1] = s[i + 1]
      BY <1>1, <2>1
    <3> QED
      BY <2>1, <3>1 DEF Framed
  <2>2. CASE i = Len(s)
    <3>1. s[Len(s)].part = "tail" /\ r[i] = s[i]
      BY <1>1, <2>2 DEF Ended
    <3>2. i < Len(r) => r[i + 1] = t[1] /\ 1 \in 1..Len(t)
      BY <1>1, <2>2
    <3> QED
      BY <1>1, <2>2, <3>1, <3>2 DEF Framed
  <2>3. CASE i > Len(s)
    <3>1. i - Len(s) \in 1..Len(t) /\ r[i] = t[i - Len(s)]
      BY <1>1, <2>3
    <3>2. i < Len(r) => r[i + 1] = t[(i - Len(s)) + 1] /\ i - Len(s) < Len(t)
      BY <1>1, <2>3
    <3>3. i = 1 => i - Len(s) = 1
      BY <1>1, <2>3
    <3> QED
      BY <3>1, <3>2, <3>3 DEF Framed
  <2> QED
    BY <1>1, <2>1, <2>2, <2>3
<1>3. r # <<>> => r[Len(r)].part = "tail"
  <2>1. CASE Len(t) = 0
    BY <1>1, <2>1 DEF Ended
  <2>2. CASE Len(t) # 0
    BY <1>1, <2>2 DEF Ended
  <2> QED
    BY <2>1, <2>2
<1> QED
  BY <1>2, <1>3 DEF Framed, Ended, r

LEMMA PiecesFramed ==
  ASSUME NEW m \in Message
  PROVE  /\ Pieces(m) \in Seq(Piece) /\ Framed(Pieces(m)) /\ Ended(Pieces(m))
         /\ m.type # "status" => NoneIn(Pieces(m), StatusPiece)
         /\ \A e, a : m.type = "status" /\ m.enabled = e /\ m.active = a =>
              EndsIn(Pieces(m), StatusPiece, Telling(e, a))
<1>1. [msg |-> m, part |-> "head"] \in Piece /\ [msg |-> m, part |-> "tail"] \in Piece
  BY DEF Piece
<1>2. /\ Len(Pieces(m)) = 2 /\ Pieces(m)[1] = [msg |-> m, part |-> "head"] /\ Pieces(m)[2] = [msg |-> m, part |-> "tail"]
      /\ Pieces(m) \in Seq(Piece)
  BY <1>1 DEF Pieces
<1>3. Framed(Pieces(m)) /\ Ended(Pieces(m))
  BY <1>2 DEF Framed, Ended
<1>4. m.type # "status" => NoneIn(Pieces(m), StatusPiece)
  BY <1>2 DEF NoneIn, StatusPiece
<1>5. ASSUME NEW e, NEW a, m.type = "status", m.enabled = e, m.active = a
      PROVE  EndsIn(Pieces(m), StatusPiece, Telling(e, a))
  BY <1>1, <1>2, <1>5 DEF EndsIn, StatusPiece, Telling
<1> QED
  BY <1>2, <1>3, <1>4, <1>5

LEMMA FramedPrefix ==
  ASSUME NEW s \in Seq(Piece), NEW t \in Seq(Piece), Framed(s), Len(t) <= Len(s), \A i \in 1..Len(t) : t[i] = s[i]
  PROVE  Framed(t)
<1>1. Len(s) \in Nat /\ Len(t) \in Nat
  OBVIOUS
<1> QED
  BY <1>1 DEF Framed

\* The first message is read.
LEMMA FramedNext ==
  ASSUME NEW s \in Seq(Piece), Framed(s), Len(s) > 1
  PROVE  /\ Tail(Tail(s)) \in Seq(Piece) /\ Framed(Tail(Tail(s))) /\ (Ended(s) => Ended(Tail(Tail(s))))
         /\ s[1].part = "head" /\ s[2].part = "tail" /\ s[2].msg = s[1].msg
<1> DEFINE t == Tail(Tail(s))
<1>1. /\ t \in Seq(Piece) /\ Len(t) = Len(s) - 2 /\ Len(s) \in Nat /\ Len(t) \in Nat
      /\ \A i \in 1..Len(t) : t[i] = s[i + 2]
  <2>1. Tail(s) \in Seq(Piece) /\ Len(Tail(s)) = Len(s) - 1 /\ \A i \in 1..Len(Tail(s)) : Tail(s)[i] = s[i + 1]
    BY HeadTailProperties
  <2>2. Len(s) \in Nat /\ Len(Tail(s)) > 0
    BY <2>1
  <2>3. t \in Seq(Piece) /\ Len(t) = Len(Tail(s)) - 1 /\ \A i \in 1..Len(t) : t[i] = Tail(s)[i + 1]
    <3> DEFINE r == Tail(s)
    <3>1. r \in Seq(Piece) /\ r # <<>>
      <4>1. Len(<<>>) = 0 /\ ~(0 > 0)
        OBVIOUS
      <4> QED
        BY <2>1, <2>2, <4>1
    <3> HIDE DEF r
    <3>2. Tail(r) \in Seq(Piece) /\ Len(Tail(r)) = Len(r) - 1 /\ \A i \in 1..Len(Tail(r)) : Tail(r)[i] = r[i + 1]
      BY <3>1, HeadTailProperties
    <3> QED
      BY <3>2 DEF r
  <2> QED
    BY <2>1, <2>2, <2>3
<1> HIDE DEF t
<1>2. s[1].part = "head" /\ s[2].part = "tail" /\ s[2].msg = s[1].msg /\ (Len(s) > 2 => s[3].part = "head")
  BY <1>1 DEF Framed
<1>3. ASSUME NEW i \in 1..Len(t)
      PROVE  /\ i = 1 => t[i].part = "head"
             /\ i < Len(t) /\ t[i].part = "head" => t[i + 1].part = "tail" /\ t[i + 1].msg = t[i].msg
             /\ i < Len(t) /\ t[i].part = "tail" => t[i + 1].part = "head"
  <2>1. t[i] = s[i + 2] /\ i + 2 \in 1..Len(s) /\ (i < Len(t) => t[i + 1] = s[(i + 2) + 1] /\ i + 2 < Len(s))
    BY <1>1
  <2>2. i = 1 => s[i + 2].part = "head"
    BY <1>1, <1>2
  <2> QED
    BY <2>1, <2>2 DEF Framed
<1>4. Ended(s) => Ended(t)
  BY <1>1 DEF Ended
<1> QED
  BY <1>1, <1>2, <1>3, <1>4 DEF t, Framed

\* A piece is read: it ends a message, or it stays in the buffer and nothing is lost.
LEMMA ReadIs ==
  ASSUME NEW b \in Seq(Piece), NEW t \in Seq(Piece), Len(b) < 2, t # <<>>
  PROVE  LET d == Append(b, Head(t))  s == b \o t IN
         /\ d \in Seq(Piece) /\ s \in Seq(Piece) /\ Tail(t) \in Seq(Piece)
         /\ Len(d) = 2 => Len(s) > 1 /\ d[2] = s[2] /\ <<>> \o Tail(t) = Tail(Tail(s))
         /\ Len(d) # 2 => Len(d) < 2 /\ d \o Tail(t) = s
<1> DEFINE d == Append(b, Head(t))
           s == b \o t
<1>1. Len(b) \in Nat /\ Len(t) \in Nat \ {0} /\ Head(t) = t[1] /\ Head(t) \in Piece
  BY HeadTailProperties
<1>2. /\ Tail(t) \in Seq(Piece) /\ Len(Tail(t)) = Len(t) - 1 /\ \A i \in 1..Len(Tail(t)) : Tail(t)[i] = t[i + 1]
  BY HeadTailProperties
<1>3. /\ s \in Seq(Piece) /\ Len(s) = Len(b) + Len(t)
      /\ \A i \in 1..Len(b) + Len(t) : s[i] = IF i <= Len(b) THEN b[i] ELSE t[i - Len(b)]
  BY ConcatProperties
<1>4. d \in Seq(Piece) /\ Len(d) = Len(b) + 1 /\ (\A i \in 1..Len(b) : d[i] = b[i]) /\ d[Len(b) + 1] = t[1]
  BY <1>1
<1>5. CASE Len(b) = 1
  <2>1. d[2] = s[2] /\ Len(s) > 1
    BY <1>1, <1>3, <1>4, <1>5
  <2> DEFINE r == Tail(s)
             q == Tail(r)
  <2>2. r \in Seq(Piece) /\ Len(r) = Len(s) - 1 /\ \A i \in 1..Len(r) : r[i] = s[i + 1]
    <3> HIDE DEF s
    <3>1. s # <<>>
      BY <1>1, <1>3, <1>5, EmptySeq
    <3> QED
      BY <1>3, <3>1, HeadTailProperties
  <2>3. q \in Seq(Piece) /\ Len(q) = Len(r) - 1 /\ \A i \in 1..Len(q) : q[i] = r[i + 1]
    <3> HIDE DEF r
    <3>1. r # <<>>
      BY <1>1, <1>3, <1>5, <2>2, EmptySeq
    <3> QED
      BY <2>2, <3>1, HeadTailProperties
  <2>4. Len(q) = Len(Tail(t)) /\ \A i \in 1..Len(q) : q[i] = Tail(t)[i]
    <3> HIDE DEF q, r, s
    <3>1. Len(s) = Len(t) + 1 /\ Len(q) = Len(Tail(t)) /\ Len(q) = Len(t) - 1 /\ Len(r) = Len(t)
      <4>1. Len(s) = Len(t) + 1
        BY <1>1, <1>3, <1>5
      <4>2. Len(r) = Len(t)
        BY <1>1, <2>2, <4>1
      <4>3. Len(q) = Len(t) - 1
        BY <1>1, <2>3, <4>2
      <4> QED
        BY <1>2, <4>1, <4>2, <4>3
    <3>2. ASSUME NEW i \in 1..Len(q) PROVE q[i] = Tail(t)[i]
      <4>1. q[i] = r[i + 1] /\ i + 1 \in 1..Len(r) /\ Tail(t)[i] = t[i + 1]
        BY <1>1, <1>2, <2>3, <3>1
      <4>2. r[i + 1] = s[(i + 1) + 1] /\ (i + 1) + 1 \in 1..Len(b) + Len(t) /\ i \in Nat
        BY <1>1, <1>5, <2>2, <3>1, <4>1
      <4>3. s[(i + 1) + 1] = t[((i + 1) + 1) - 1]
        BY <1>3, <1>5, <4>2
      <4>4. ((i + 1) + 1) - 1 = i + 1
        OBVIOUS
      <4> QED
        BY <4>1, <4>2, <4>3, <4>4
    <3> QED
      BY <3>1, <3>2
  <2>5. q = Tail(t)
    <3> HIDE DEF q
    <3> QED
      BY <1>2, <2>3, <2>4, SeqEqual
  <2>6. <<>> \o Tail(t) = Tail(t)
    BY <1>2, ConcatEmptySeq
  <2> QED
    BY <1>2, <1>3, <1>4, <1>5, <2>1, <2>5, <2>6
<1>6. CASE Len(b) = 0
  <2> DEFINE r == d \o Tail(t)
  <2>1. /\ r \in Seq(Piece) /\ Len(r) = Len(d) + Len(Tail(t))
        /\ \A i \in 1..Len(d) + Len(Tail(t)) : r[i] = IF i <= Len(d) THEN d[i] ELSE Tail(t)[i - Len(d)]
    <3> HIDE DEF d
    <3> QED
      BY <1>2, <1>4, ConcatProperties
  <2>2. Len(r) = Len(s) /\ \A i \in 1..Len(r) : r[i] = s[i]
    <3> HIDE DEF r, s, d
    <3> QED
      BY <1>1, <1>2, <1>3, <1>4, <1>6, <2>1
  <2>3. r = s
    <3> HIDE DEF r, s
    <3> QED
      BY <1>3, <2>1, <2>2, SeqEqual
  <2> QED
    BY <1>2, <1>3, <1>4, <1>6, <2>3
<1> QED
  BY <1>1, <1>5, <1>6, SMTT(30)

\* The window takes a status, or leaves what it knows of the engine alone.
LEMMA HeardNext ==
  ASSUME NEW s \in Seq(Piece), Framed(s), Len(s) > 1, NEW u, NEW v, NEW e, NEW a, Heard(s, u, e, a),
         IF s[2].msg.type = "status" THEN v.enabled = s[2].msg.enabled /\ v.active = s[2].msg.active
         ELSE v.hasStatus = u.hasStatus /\ v.enabled = u.enabled /\ v.active = u.active
  PROVE  Heard(Tail(Tail(s)), v, e, a)
<1> DEFINE r == Tail(s)
<1>1. /\ Len(s) \in Nat /\ s # <<>> /\ r \in Seq(Piece) /\ r # <<>> /\ Head(s) = s[1] /\ Head(r) = s[2]
      /\ s[2] \in Piece
  <2>1. Len(s) \in Nat /\ s # <<>>
    BY EmptySeq
  <2>2. r \in Seq(Piece) /\ Len(r) = Len(s) - 1 /\ (\A i \in 1..Len(r) : r[i] = s[i + 1]) /\ Head(s) = s[1]
    BY <2>1, HeadTailProperties
  <2> HIDE DEF r
  <2>3. r # <<>> /\ r[1] = s[2]
    BY <2>1, <2>2, EmptySeq
  <2>4. Head(r) = r[1]
    BY <2>2, <2>3, HeadTailProperties
  <2> QED
    BY <2>1, <2>2, <2>3, <2>4
<1>2. s[1].part = "head" /\ s[2].part = "tail"
  BY FramedNext
<1>3. Head(s) \notin StatusPiece
  BY <1>1, <1>2 DEF StatusPiece
<1>4. Head(r) \in StatusPiece <=> s[2].msg.type = "status"
  BY <1>1, <1>2 DEF StatusPiece
<1> HIDE DEF r
<1>5. CASE NoneIn(s, StatusPiece) /\ (u.hasStatus => u.enabled = e /\ u.active = a)
  <2>1. NoneIn(r, StatusPiece)
    BY <1>1, <1>5, NoneNext DEF r
  <2>2. NoneIn(Tail(r), StatusPiece) /\ Head(r) \notin StatusPiece
    BY <1>1, <2>1, NoneNext
  <2> QED
    BY <1>4, <1>5, <2>2 DEF Heard, r
<1>6. CASE EndsIn(s, StatusPiece, Telling(e, a))
  <2>1. EndsIn(r, StatusPiece, Telling(e, a))
    BY <1>1, <1>3, <1>6, EndsNext DEF r
  <2>2. \/ EndsIn(Tail(r), StatusPiece, Telling(e, a))
        \/ Head(r) \in StatusPiece /\ Head(r) \in Telling(e, a) /\ NoneIn(Tail(r), StatusPiece)
    BY <1>1, <2>1, EndsNext
  <2>3. Head(r) \in Telling(e, a) => s[2].msg.enabled = e /\ s[2].msg.active = a
    BY <1>1 DEF Telling
  <2> QED
    BY <1>4, <2>2, <2>3 DEF Heard, r
<1> QED
  BY <1>5, <1>6 DEF Heard

LEMMA AskedBoth ==
  ASSUME NEW c \in Seq(WindowCommand), NEW d \in Seq(WindowCommand), Asked(c) \/ Asked(d)
  PROVE  Asked(c \o d)
<1>1. /\ Len(c \o d) = Len(c) + Len(d) /\ Len(c) \in Nat /\ Len(d) \in Nat
      /\ \A i \in 1..Len(c) + Len(d) : (c \o d)[i] = IF i <= Len(c) THEN c[i] ELSE d[i - Len(c)]
  BY ConcatProperties
<1>2. ASSUME NEW i \in 1..Len(c), c[i] \in AskStatus PROVE Asked(c \o d)
  BY <1>1, <1>2 DEF Asked
<1>3. ASSUME NEW i \in 1..Len(d), d[i] \in AskStatus PROVE Asked(c \o d)
  <2>1. Len(c) + i \in 1..Len(c \o d) /\ (c \o d)[Len(c) + i] = d[i]
    BY <1>1
  <2> QED
    BY <1>3, <2>1 DEF Asked
<1> QED
  BY <1>2, <1>3 DEF Asked

LEMMA AskedNext ==
  ASSUME NEW c \in Seq(WindowCommand), c # <<>>, Asked(c), Head(c) \notin AskStatus
  PROVE  Asked(Tail(c))
<1>1. /\ Len(c) \in Nat \ {0} /\ Len(Tail(c)) = Len(c) - 1 /\ Head(c) = c[1]
      /\ \A i \in 1..Len(Tail(c)) : Tail(c)[i] = c[i + 1]
  BY HeadTailProperties
<1>2. PICK i \in 1..Len(c) : c[i] \in AskStatus
  BY DEF Asked
<1>3. i # 1
  BY <1>1, <1>2
<1>4. i - 1 \in 1..Len(Tail(c)) /\ Tail(c)[i - 1] = c[i]
  BY <1>1, <1>2, <1>3
<1> QED
  BY <1>2, <1>4 DEF Asked

\* pollConnectionState: the client's state, and the window.
Polled(cl, linked) ==
  LET changed == linked # cl.last
      known == [cl EXCEPT !.last = linked, !.attempts = IF changed /\ linked THEN 0 ELSE @,
                          !.timer = IF changed /\ linked THEN FALSE ELSE @]
      try == ~linked /\ known.should /\ ~known.timer /\ known.attempts < kMaxAttempts
  IN [known EXCEPT !.attempts = IF try THEN @ + 1 ELSE @, !.timer = @ \/ try]
Shown(cl, u, linked) == IF linked # cl.last THEN ConnectionChange(u, linked) ELSE u

LEMMA PolledIs ==
  ASSUME NEW cl \in ClientState, NEW u \in Window, ClientKnown(cl, u), cl.should, NEW linked \in BOOLEAN
  PROVE  /\ Polled(cl, linked) \in ClientState /\ Shown(cl, u, linked) \in Window
         /\ ClientKnown(Polled(cl, linked), Shown(cl, u, linked)) /\ Shown(cl, u, linked).connected = linked
<1> DEFINE changed == linked # cl.last
           tries == IF changed /\ linked THEN 0 ELSE cl.attempts
           ti == IF changed /\ linked THEN FALSE ELSE cl.timer
           known == [cl EXCEPT !.last = linked, !.attempts = tries, !.timer = ti]
           try == ~linked /\ known.should /\ ~known.timer /\ known.attempts < kMaxAttempts
           at2 == IF try THEN known.attempts + 1 ELSE known.attempts
           ti2 == known.timer \/ try
           n == [known EXCEPT !.attempts = at2, !.timer = ti2]
<1>0. /\ cl.last \in BOOLEAN /\ cl.timer \in BOOLEAN /\ cl.should \in BOOLEAN /\ cl.attempts \in 0..kMaxAttempts
      /\ kMaxAttempts \in Nat
  BY GuiChannelAssumption DEF ClientState
<1>1. /\ known \in ClientState /\ known.last = linked /\ known.should = cl.should /\ known.timer = ti
      /\ known.timer \in BOOLEAN /\ known.attempts \in 0..kMaxAttempts
  <2>1. tries \in 0..kMaxAttempts
    BY <1>0
  <2>2. ti \in BOOLEAN
    BY <1>0
  <2> HIDE DEF tries, ti
  <2> QED
    BY <2>1, <2>2 DEF ClientState
<1>2. Polled(cl, linked) = n
  BY DEF Polled
<1>3. n \in ClientState /\ n.last = linked /\ n.should = cl.should /\ (n.timer => ~linked)
  <2>1. at2 \in 0..kMaxAttempts
    <3> HIDE DEF known
    <3> QED
      BY <1>0, <1>1
  <2>2. ti2 \in BOOLEAN
    <3> HIDE DEF known
    <3> QED
      BY <1>0, <1>1
  <2>3. ti => ~linked
    BY <1>0 DEF ClientKnown
  <2>4. ti2 => ~linked
    <3> HIDE DEF known, ti
    <3> QED
      BY <1>1, <2>3
  <2> HIDE DEF at2, ti2, known
  <2>5. n \in ClientState /\ n.last = linked /\ n.should = cl.should /\ n.timer = ti2
    BY <1>1, <2>1, <2>2 DEF ClientState
  <2> QED
    BY <2>4, <2>5
<1>4. Shown(cl, u, linked) \in Window /\ Shown(cl, u, linked).connected = linked
  <2>1. CASE changed
    BY <2>1, ConnectionTyped, ConnectionIs DEF Shown
  <2>2. CASE ~changed
    <3>1. cl.last \in BOOLEAN /\ u.connected \in BOOLEAN
      BY DEF ClientState, Window
    <3> QED
      BY <2>2, <3>1 DEF Shown, ClientKnown
  <2> QED
    BY <2>1, <2>2
<1> HIDE DEF n
<1> QED
  BY <1>2, <1>3, <1>4 DEF ClientKnown

LEMMA PollIs ==
  ASSUME GuiTypes, NEW g \in Gui, NEW cl \in ClientState, ClientKnown(cl, ui[g]), cl.should, NEW linked \in BOOLEAN,
         Poll(g, cl, linked)
  PROVE  /\ client' \in [Gui -> ClientState] /\ ui' \in [Gui -> Window] /\ toServer' \in [Gui -> Seq(WindowCommand)]
         /\ ClientKnown(client'[g], ui'[g]) /\ ui'[g].connected = linked
         /\ linked # cl.last /\ linked /\ sock'[g] = "on" => Asked(toServer'[g])
         /\ linked = cl.last => ui'[g] = ui[g] /\ toServer'[g] = toServer[g]
         /\ \A h \in Gui \ {g} : client'[h] = client[h] /\ ui'[h] = ui[h] /\ toServer'[h] = toServer[h]
<1> DEFINE ask == <<[cmd |-> "status"], [cmd |-> "lock"]>>
<1>1. /\ client' = [client EXCEPT ![g] = Polled(cl, linked)] /\ ui' = [ui EXCEPT ![g] = Shown(cl, ui[g], linked)]
  BY DEF Poll, Polled, Shown
<1>2. ui[g] \in Window
  BY DEF GuiTypes
<1>3. /\ Polled(cl, linked) \in ClientState /\ Shown(cl, ui[g], linked) \in Window
      /\ ClientKnown(Polled(cl, linked), Shown(cl, ui[g], linked)) /\ Shown(cl, ui[g], linked).connected = linked
  BY <1>2, PolledIs
<1>4. ask \in Seq(WindowCommand) /\ Asked(ask)
  <2>1. [cmd |-> "status"] \in WindowCommand /\ [cmd |-> "lock"] \in WindowCommand
    BY DEF WindowCommand
  <2>2. Len(ask) = 2 /\ ask[1] = [cmd |-> "status"] /\ ask \in Seq(WindowCommand)
    BY <2>1
  <2> QED
    BY <2>1, <2>2 DEF Asked, AskStatus
<1>5. toServer[g] \in Seq(WindowCommand) /\ toServer \in [Gui -> Seq(WindowCommand)]
  BY DEF GuiTypes
<1>6. toServer[g] \o ask \in Seq(WindowCommand) /\ Asked(toServer[g] \o ask)
  <2> HIDE DEF ask
  <2> QED
    BY <1>4, <1>5, AskedBoth, ConcatProperties
<1>7. IF linked # cl.last /\ linked
      THEN toServer' = [toServer EXCEPT ![g] = IF sock'[g] = "on" THEN toServer[g] \o ask ELSE toServer[g]]
      ELSE toServer' = toServer
  BY DEF Poll
<1> HIDE DEF ask
<1>8. /\ toServer' \in [Gui -> Seq(WindowCommand)] /\ (linked # cl.last /\ linked /\ sock'[g] = "on" => Asked(toServer'[g]))
      /\ linked = cl.last => toServer'[g] = toServer[g]
      /\ \A h \in Gui \ {g} : toServer'[h] = toServer[h]
  BY <1>5, <1>6, <1>7
<1>9. /\ client' \in [Gui -> ClientState] /\ ui' \in [Gui -> Window] /\ client'[g] = Polled(cl, linked)
      /\ ui'[g] = Shown(cl, ui[g], linked)
      /\ \A h \in Gui \ {g} : client'[h] = client[h] /\ ui'[h] = ui[h]
  BY <1>1, <1>3 DEF GuiTypes
<1>10. linked = cl.last => ui'[g] = ui[g]
  BY <1>9 DEF Shown
<1> QED
  BY <1>3, <1>8, <1>9, <1>10

(* The actions. *)

\* A GUI that has no part in a step.
LEMMA OtherKeeps ==
  ASSUME NEW h \in Gui, GuiKnown(h), client'[h] = client[h], ui'[h] = ui[h], sock'[h] = sock[h],
         buffer'[h] = buffer[h], toClient'[h] = toClient[h], toServer'[h] = toServer[h],
         listening' = listening, engineEnabled' = engineEnabled, chosen' = chosen
  PROVE  GuiKnown(h)'
BY DEF GuiKnown

LEMMA NothingOnTheWay ==
  ASSUME NEW so, NEW l, so = "on" => l
  PROVE  FramesKnown(so, <<>>, <<>>, l)
<1>1. Len(<<>>) = 0 /\ <<>> \o <<>> = <<>>
  OBVIOUS
<1> QED
  BY <1>1 DEF FramesKnown, Framed, Ended

LEMMA ConnectIs ==
  ASSUME GuiInv, NEW g \in Gui, Connect(g)
  PROVE  /\ sock' \in [Gui -> {"off", "on", "closing"}] /\ toClient' \in [Gui -> Seq(Piece)] /\ buffer' \in [Gui -> Seq(Piece)]
         /\ sock'[g] = (IF listening THEN "on" ELSE "off") /\ toClient'[g] = <<>> /\ buffer'[g] = <<>>
         /\ \A h \in Gui \ {g} : sock'[h] = sock[h] /\ toClient'[h] = toClient[h] /\ buffer'[h] = buffer[h]
<1>1. <<>> \in Seq(Piece)
  OBVIOUS
<1>2. sock[g] = "off" => buffer[g] = <<>>
  BY DEF GuiInv, GuiKnown, FramesKnown
<1>3. buffer' = [buffer EXCEPT ![g] = <<>>]
  BY <1>2 DEF Connect, GuiInv, GuiTypes
<1> QED
  BY <1>1, <1>3 DEF Connect, GuiInv, GuiTypes

LEMMA ConnectToDaemonKeeps ==
  ASSUME GuiInv, NEW g \in Gui, ConnectToDaemon(g), ~ui[g].connected, UNCHANGED <<listening, engineVars, boxes>>
  PROVE  GuiInv'
<1> DEFINE cl == [client[g] EXCEPT !.should = TRUE, !.attempts = 0, !.timer = FALSE]
<1>0. GuiTypes /\ client[g] \in ClientState /\ listening \in BOOLEAN /\ GuiKnown(g)
  BY DEF GuiInv, GuiTypes
<1>1. cl \in ClientState /\ cl.last = client[g].last /\ cl.should = TRUE /\ cl.timer = FALSE
  <2>1. 0 \in 0..kMaxAttempts
    BY GuiChannelAssumption
  <2> QED
    BY <1>0, <2>1 DEF ClientState
<1>2. ClientKnown(cl, ui[g]) /\ ~cl.last /\ cl.last \in BOOLEAN
  <2>1. client[g].last <=> ui[g].connected
    BY <1>0 DEF GuiKnown, ClientKnown
  <2>2. cl.last \in BOOLEAN
    BY <1>1 DEF ClientState
  <2> HIDE DEF cl
  <2> QED
    BY <1>1, <2>1, <2>2 DEF ClientKnown
<1>3. Connect(g) /\ Poll(g, cl, listening)
  BY DEF ConnectToDaemon
<1> HIDE DEF cl
<1>4. /\ client' \in [Gui -> ClientState] /\ ui' \in [Gui -> Window] /\ toServer' \in [Gui -> Seq(WindowCommand)]
      /\ ClientKnown(client'[g], ui'[g]) /\ ui'[g].connected = listening
      /\ listening # cl.last /\ listening /\ sock'[g] = "on" => Asked(toServer'[g])
      /\ \A h \in Gui \ {g} : client'[h] = client[h] /\ ui'[h] = ui[h] /\ toServer'[h] = toServer[h]
  BY <1>0, <1>1, <1>2, <1>3, PollIs
<1>5. /\ sock' \in [Gui -> {"off", "on", "closing"}] /\ toClient' \in [Gui -> Seq(Piece)] /\ buffer' \in [Gui -> Seq(Piece)]
      /\ sock'[g] = (IF listening THEN "on" ELSE "off") /\ toClient'[g] = <<>> /\ buffer'[g] = <<>>
      /\ \A h \in Gui \ {g} : sock'[h] = sock[h] /\ toClient'[h] = toClient[h] /\ buffer'[h] = buffer[h]
  BY <1>3, ConnectIs
<1>6. GuiTypes'
  BY <1>0, <1>4, <1>5 DEF GuiTypes, engineVars
<1>7. FramesKnown(sock'[g], buffer'[g], toClient'[g], listening')
  <2>1. sock'[g] = "on" => listening'
    BY <1>5
  <2> QED
    BY <1>5, <2>1, NothingOnTheWay
<1>8. EngineKnown(sock'[g], ui'[g], buffer'[g] \o toClient'[g], toServer'[g], engineEnabled', chosen')
  BY <1>0, <1>2, <1>4, <1>5 DEF EngineKnown
<1>9. GuiKnown(g)'
  BY <1>4, <1>7, <1>8 DEF GuiKnown
<1>10. ASSUME NEW h \in Gui \ {g} PROVE GuiKnown(h)'
  BY <1>4, <1>5, OtherKeeps DEF GuiInv, engineVars
<1> QED
  BY <1>6, <1>9, <1>10 DEF GuiInv

LEMMA StartKeeps ==
  ASSUME GuiInv, NEW g \in Gui, Start(g)
  PROVE  GuiInv'
<1>1. ~ui[g].connected
  BY DEF GuiInv, GuiKnown, ClientKnown, Start
<1> QED
  BY <1>1, ConnectToDaemonKeeps DEF Start

LEMMA ReconnectKeeps ==
  ASSUME GuiInv, ~Eager, NEW g \in Gui, Reconnect(g)
  PROVE  GuiInv'
BY ConnectToDaemonKeeps DEF Reconnect

LEMMA PollTimerKeeps ==
  ASSUME GuiInv, NEW g \in Gui, PollTimer(g)
  PROVE  GuiInv'
<1> DEFINE cl == client[g]
           linked == IsConnected(g)
<1>0. GuiTypes /\ cl \in ClientState /\ GuiKnown(g) /\ cl.should /\ linked \in BOOLEAN
  BY DEF GuiInv, GuiTypes, IsConnected, PollTimer
<1>1. ClientKnown(cl, ui[g]) /\ Poll(g, cl, linked)
  BY <1>0 DEF GuiKnown, PollTimer
<1> HIDE DEF linked
<1>2. /\ client' \in [Gui -> ClientState] /\ ui' \in [Gui -> Window] /\ toServer' \in [Gui -> Seq(WindowCommand)]
      /\ ClientKnown(client'[g], ui'[g]) /\ ui'[g].connected = linked
      /\ linked # cl.last /\ linked /\ sock'[g] = "on" => Asked(toServer'[g])
      /\ linked = cl.last => ui'[g] = ui[g] /\ toServer'[g] = toServer[g]
      /\ \A h \in Gui \ {g} : client'[h] = client[h] /\ ui'[h] = ui[h] /\ toServer'[h] = toServer[h]
  BY <1>0, <1>1, PollIs
<1>3. UNCHANGED <<listening, engineEnabled, listed, chosen, locks, sock, toClient, buffer, boxes>>
  BY DEF PollTimer, engineVars
<1>4. GuiTypes'
  BY <1>0, <1>2, <1>3 DEF GuiTypes
<1>5. EngineKnown(sock'[g], ui'[g], buffer'[g] \o toClient'[g], toServer'[g], engineEnabled', chosen')
  <2>1. CASE linked = cl.last
    BY <1>0, <1>2, <1>3, <2>1 DEF GuiKnown, EngineKnown
  <2>2. CASE linked # cl.last
    BY <1>0, <1>2, <2>2 DEF EngineKnown
  <2> QED
    BY <2>1, <2>2
<1>6. GuiKnown(g)'
  BY <1>0, <1>2, <1>3, <1>5 DEF GuiKnown
<1>7. ASSUME NEW h \in Gui \ {g} PROVE GuiKnown(h)'
  BY <1>2, <1>3, OtherKeeps DEF GuiInv
<1> QED
  BY <1>4, <1>6, <1>7 DEF GuiInv

LEMMA ReconnectTimerKeeps ==
  ASSUME GuiInv, NEW g \in Gui, ReconnectTimer(g)
  PROVE  GuiInv'
<1>0. GuiTypes /\ client[g] \in ClientState /\ GuiKnown(g) /\ client[g].timer
  BY DEF GuiInv, GuiTypes, ReconnectTimer
<1>1. /\ sock' \in [Gui -> {"off", "on", "closing"}] /\ toClient' \in [Gui -> Seq(Piece)] /\ buffer' \in [Gui -> Seq(Piece)]
      /\ sock'[g] = (IF listening THEN "on" ELSE "off") /\ toClient'[g] = <<>> /\ buffer'[g] = <<>>
      /\ \A h \in Gui \ {g} : sock'[h] = sock[h] /\ toClient'[h] = toClient[h] /\ buffer'[h] = buffer[h]
  BY ConnectIs DEF ReconnectTimer
<1>2. UNCHANGED <<listening, engineEnabled, listed, chosen, locks, toServer, ui, boxes>>
  BY DEF ReconnectTimer, engineVars
<1>3. /\ client' \in [Gui -> ClientState] /\ client'[g].last = client[g].last /\ client'[g].should = client[g].should
      /\ client'[g].timer = FALSE /\ \A h \in Gui \ {g} : client'[h] = client[h]
  <2>1. client' = [client EXCEPT ![g] = [client[g] EXCEPT !.timer = FALSE]]
    BY DEF ReconnectTimer
  <2>2. /\ [client[g] EXCEPT !.timer = FALSE] \in ClientState /\ [client[g] EXCEPT !.timer = FALSE].last = client[g].last
        /\ [client[g] EXCEPT !.timer = FALSE].should = client[g].should /\ [client[g] EXCEPT !.timer = FALSE].timer = FALSE
    BY <1>0 DEF ClientState
  <2> QED
    BY <1>0, <2>1, <2>2 DEF GuiTypes
<1>4. GuiTypes'
  BY <1>0, <1>1, <1>2, <1>3 DEF GuiTypes
<1>5. ClientKnown(client'[g], ui'[g]) /\ ~ui'[g].connected
  BY <1>0, <1>2, <1>3 DEF GuiKnown, ClientKnown
<1>6. FramesKnown(sock'[g], buffer'[g], toClient'[g], listening')
  <2>1. sock'[g] = "on" => listening'
    BY <1>1, <1>2
  <2> QED
    BY <1>1, <2>1, NothingOnTheWay
<1>7. GuiKnown(g)'
  BY <1>5, <1>6 DEF GuiKnown, EngineKnown
<1>8. ASSUME NEW h \in Gui \ {g} PROVE GuiKnown(h)'
  BY <1>1, <1>2, <1>3, OtherKeeps DEF GuiInv
<1> QED
  BY <1>4, <1>7, <1>8 DEF GuiInv

LEMMA DisconnectedKeeps ==
  ASSUME GuiInv, NEW g \in Gui, OnDisconnected(g)
  PROVE  GuiInv'
<1>1. UNCHANGED <<listening, engineEnabled, listed, chosen, locks, toServer, toClient, client, ui, boxes>>
  BY DEF OnDisconnected, engineVars
<1>2. /\ sock' \in [Gui -> {"off", "on", "closing"}] /\ buffer' \in [Gui -> Seq(Piece)] /\ toClient'[g] = <<>>
      /\ sock'[g] = "off" /\ buffer'[g] = <<>> /\ \A h \in Gui \ {g} : sock'[h] = sock[h] /\ buffer'[h] = buffer[h]
  <2>1. <<>> \in Seq(Piece)
    OBVIOUS
  <2> QED
    BY <1>1, <2>1 DEF OnDisconnected, GuiInv, GuiTypes
<1>3. GuiTypes'
  BY <1>1, <1>2 DEF GuiInv, GuiTypes
<1>4. FramesKnown(sock'[g], buffer'[g], toClient'[g], listening')
  <2>1. sock'[g] = "on" => listening'
    BY <1>2
  <2> QED
    BY <1>2, <2>1, NothingOnTheWay
<1>5. GuiKnown(g)'
  BY <1>1, <1>2, <1>4 DEF GuiInv, GuiKnown, EngineKnown
<1>6. ASSUME NEW h \in Gui \ {g} PROVE GuiKnown(h)'
  BY <1>1, <1>2, OtherKeeps DEF GuiInv
<1> QED
  BY <1>3, <1>5, <1>6 DEF GuiInv

\* What the window shows or posts changes, and not what it knows of the engine.
LEMMA WindowKeeps ==
  ASSUME GuiInv, NEW g \in Gui, NEW u \in Window, ui' = [ui EXCEPT ![g] = u], u.connected = ui[g].connected,
         u.hasStatus = ui[g].hasStatus, u.enabled = ui[g].enabled, u.active = ui[g].active,
         toServer' \in [Gui -> Seq(WindowCommand)], Asked(toServer[g]) => Asked(toServer'[g]),
         \A h \in Gui \ {g} : toServer'[h] = toServer[h], boxes' \in [Gui -> Seq(Statuses)],
         UNCHANGED <<listening, engineVars, sock, toClient, buffer, client>>
  PROVE  GuiInv'
<1>1. UNCHANGED <<listening, engineEnabled, listed, chosen, locks, sock, toClient, buffer, client>>
  BY DEF engineVars
<1>2. ui' \in [Gui -> Window] /\ ui'[g] = u /\ \A h \in Gui \ {g} : ui'[h] = ui[h]
  BY DEF GuiInv, GuiTypes
<1>3. GuiTypes'
  BY <1>1, <1>2 DEF GuiInv, GuiTypes
<1>4. GuiKnown(g)
  BY DEF GuiInv
<1>5. ClientKnown(client'[g], ui'[g])
  BY <1>1, <1>2, <1>4 DEF GuiKnown, ClientKnown
<1>6. EngineKnown(sock'[g], ui'[g], buffer'[g] \o toClient'[g], toServer'[g], engineEnabled', chosen')
  BY <1>1, <1>2, <1>4 DEF GuiKnown, EngineKnown, Heard
<1>7. GuiKnown(g)'
  BY <1>1, <1>4, <1>5, <1>6 DEF GuiKnown
<1>8. ASSUME NEW h \in Gui \ {g} PROVE GuiKnown(h)'
  BY <1>1, <1>2, OtherKeeps DEF GuiInv
<1> QED
  BY <1>3, <1>7, <1>8 DEF GuiInv

LEMMA CloseBoxKeeps ==
  ASSUME GuiInv, NEW g \in Gui, CloseBox(g)
  PROVE  GuiInv'
<1> DEFINE m == boxes[g][Len(boxes[g])]
           u == StatusEnd(ui[g], m, IsConnected(g))
<1>1. boxes[g] \in Seq(Statuses) /\ boxes[g] # <<>> /\ ui[g] \in Window /\ boxes \in [Gui -> Seq(Statuses)]
  BY DEF GuiInv, GuiTypes, CloseBox
<1>2. m \in Statuses /\ SubSeq(boxes[g], 1, Len(boxes[g]) - 1) \in Seq(Statuses)
  BY <1>1
<1>3. IsConnected(g) \in BOOLEAN
  BY DEF IsConnected
<1> HIDE DEF m
<1>4. /\ u \in Window /\ u.connected = ui[g].connected /\ u.hasStatus = ui[g].hasStatus
      /\ u.enabled = ui[g].enabled /\ u.active = ui[g].active
  BY <1>1, <1>2, <1>3, EndIs
<1>5. ui' = [ui EXCEPT ![g] = u]
  BY DEF CloseBox, m
<1> HIDE DEF u
<1>6. boxes' \in [Gui -> Seq(Statuses)]
  BY <1>1, <1>2 DEF CloseBox
<1>7. toServer' \in [Gui -> Seq(WindowCommand)] /\ toServer' = toServer
  BY DEF CloseBox, GuiInv, GuiTypes
<1>8. UNCHANGED <<listening, engineVars, sock, toClient, buffer, client>>
  BY DEF CloseBox
<1> QED
  BY <1>4, <1>5, <1>6, <1>7, <1>8, WindowKeeps

LEMMA ClickKeeps ==
  ASSUME GuiInv, NEW g \in Gui, NEW u \in Window, u.connected = ui[g].connected, u.hasStatus = ui[g].hasStatus,
         u.enabled = ui[g].enabled, u.active = ui[g].active, NEW c \in WindowCommand, Click(g, u, c)
  PROVE  GuiInv'
<1>1. ui' = [ui EXCEPT ![g] = u]
  BY DEF Click
<1>2. toServer[g] \in Seq(WindowCommand) /\ toServer \in [Gui -> Seq(WindowCommand)] /\ <<c>> \in Seq(WindowCommand)
  BY DEF GuiInv, GuiTypes
<1>3. toServer[g] \o <<c>> \in Seq(WindowCommand) /\ (Asked(toServer[g]) => Asked(toServer[g] \o <<c>>))
  BY <1>2, AskedBoth, ConcatProperties
<1>4. toServer' = [toServer EXCEPT ![g] = IF sock[g] = "on" THEN toServer[g] \o <<c>> ELSE toServer[g]]
  BY DEF Click, Post
<1>5. /\ toServer' \in [Gui -> Seq(WindowCommand)] /\ (Asked(toServer[g]) => Asked(toServer'[g]))
      /\ \A h \in Gui \ {g} : toServer'[h] = toServer[h]
  BY <1>2, <1>3, <1>4
<1>6. boxes' \in [Gui -> Seq(Statuses)]
  BY DEF Click, GuiInv, GuiTypes
<1>7. UNCHANGED <<listening, engineVars, sock, toClient, buffer, client>>
  BY DEF Click
<1> QED
  BY <1>1, <1>5, <1>6, <1>7, WindowKeeps

LEMMA UserKeeps ==
  ASSUME GuiInv, NEW g \in Gui,
         \/ Toggle(g) \/ ReloadClicked(g) \/ \E c \in Path : Select(g, Name(c)) \/ AddKeymap(g, c)
         \/ \E i \in DOMAIN ui[g].names : RemoveKeymap(g, ui[g].names[i])
  PROVE  GuiInv'
<1>1. ui[g] \in Window
  BY DEF GuiInv, GuiTypes
<1>2. CASE Toggle(g)
  <2> DEFINE u == [ui[g] EXCEPT !.toggle = FALSE, !.label = "busy"]
             c == [cmd |-> "enable", on |-> ~ui[g].enabled]
  <2>1. /\ u \in Window /\ u.connected = ui[g].connected /\ u.hasStatus = ui[g].hasStatus
        /\ u.enabled = ui[g].enabled /\ u.active = ui[g].active
    BY <1>1 DEF Window
  <2>2. c \in WindowCommand
    BY DEF WindowCommand
  <2>3. Click(g, u, c)
    BY <1>2 DEF Toggle
  <2> HIDE DEF u, c
  <2> QED
    BY <2>1, <2>2, <2>3, ClickKeeps
<1>3. CASE ReloadClicked(g)
  <2> DEFINE u == [ui[g] EXCEPT !.toggle = FALSE, !.reload = FALSE, !.select = FALSE]
             c == [cmd |-> "switch", target |-> ReloadTarget(ui[g])]
  <2>1. /\ u \in Window /\ u.connected = ui[g].connected /\ u.hasStatus = ui[g].hasStatus
        /\ u.enabled = ui[g].enabled /\ u.active = ui[g].active
    BY <1>1 DEF Window
  <2>2. c \in WindowCommand
    <3>1. ReloadTarget(ui[g]) \in Ident
      BY <1>1 DEF ReloadTarget, Window
    <3> QED
      BY <3>1 DEF WindowCommand
  <2>3. Click(g, u, c)
    BY <1>3 DEF ReloadClicked
  <2> HIDE DEF u, c
  <2> QED
    BY <2>1, <2>2, <2>3, ClickKeeps
<1>4. ASSUME NEW p \in Path, Select(g, Name(p)) PROVE GuiInv'
  <2> DEFINE u == [ui[g] EXCEPT !.current = Name(p), !.toggle = FALSE, !.reload = FALSE, !.select = FALSE]
             c == [cmd |-> "switch", target |-> Name(p)]
  <2>1. Name(p) \in Ident
    BY DEF Ident
  <2>2. /\ u \in Window /\ u.connected = ui[g].connected /\ u.hasStatus = ui[g].hasStatus
        /\ u.enabled = ui[g].enabled /\ u.active = ui[g].active
    BY <1>1, <2>1 DEF Window
  <2>3. c \in WindowCommand
    BY <2>1 DEF WindowCommand
  <2>4. Click(g, u, c)
    BY <1>4 DEF Select
  <2> HIDE DEF u, c
  <2> QED
    BY <2>2, <2>3, <2>4, ClickKeeps
<1>5. ASSUME NEW p \in Path, AddKeymap(g, p) PROVE GuiInv'
  <2> DEFINE c == [cmd |-> "add", target |-> p]
  <2>1. c \in WindowCommand /\ Click(g, ui[g], c)
    BY <1>5 DEF WindowCommand, AddKeymap
  <2> HIDE DEF c
  <2> QED
    BY <1>1, <2>1, ClickKeeps
<1>6. ASSUME NEW i \in DOMAIN ui[g].names, RemoveKeymap(g, ui[g].names[i]) PROVE GuiInv'
  <2> DEFINE c == [cmd |-> "remove", target |-> ui[g].names[i]]
  <2>1. ui[g].names[i] \in Ident
    BY <1>1 DEF Window
  <2>2. c \in WindowCommand /\ Click(g, ui[g], c)
    BY <1>6, <2>1 DEF WindowCommand, RemoveKeymap
  <2> HIDE DEF c
  <2> QED
    BY <1>1, <2>2, ClickKeeps
<1> QED
  BY <1>2, <1>3, <1>4, <1>5, <1>6

LEMMA CloseWindowKeeps ==
  ASSUME GuiInv, NEW g \in Gui, CloseWindow(g)
  PROVE  GuiInv'
<1> DEFINE cl == [last |-> FALSE, should |-> FALSE, attempts |-> 0, timer |-> FALSE]
<1>1. UNCHANGED <<listening, engineEnabled, listed, chosen, locks, toServer, boxes>>
  BY DEF CloseWindow, engineVars
<1>2. <<>> \in Seq(Piece) /\ cl \in ClientState /\ Blank \in Window /\ ~Blank.connected
  <2>1. <<>> \in Seq(Ident) /\ Empty \in Ident /\ 0 \in 0..kMaxAttempts
    BY GuiChannelAssumption DEF Ident
  <2>2. Blank \in Window
    BY <2>1 DEF Blank, Window
  <2> QED
    BY <2>1, <2>2 DEF ClientState, Blank
<1>3. /\ sock' \in [Gui -> {"off", "on", "closing"}] /\ buffer' \in [Gui -> Seq(Piece)] /\ toClient' \in [Gui -> Seq(Piece)]
      /\ sock'[g] = "off" /\ buffer'[g] = <<>> /\ toClient'[g] = <<>>
      /\ \A h \in Gui \ {g} : sock'[h] = sock[h] /\ buffer'[h] = buffer[h] /\ toClient'[h] = toClient[h]
  BY <1>2 DEF CloseWindow, GuiInv, GuiTypes
<1>4. client' = [client EXCEPT ![g] = cl] /\ ui' = [ui EXCEPT ![g] = Blank]
  BY DEF CloseWindow
<1>5. ClientKnown(cl, Blank)
  BY DEF ClientKnown, Blank
<1> HIDE DEF cl
<1>6. /\ client' \in [Gui -> ClientState] /\ ui' \in [Gui -> Window] /\ client'[g] = cl /\ ui'[g] = Blank
      /\ \A h \in Gui \ {g} : client'[h] = client[h] /\ ui'[h] = ui[h]
  BY <1>2, <1>4 DEF GuiInv, GuiTypes
<1>7. GuiTypes'
  BY <1>1, <1>3, <1>6 DEF GuiInv, GuiTypes
<1>8. FramesKnown(sock'[g], buffer'[g], toClient'[g], listening')
  <2>1. sock'[g] = "on" => listening'
    BY <1>3
  <2> QED
    BY <1>3, <2>1, NothingOnTheWay
<1>9. GuiKnown(g)'
  BY <1>3, <1>5, <1>6, <1>8 DEF GuiKnown, EngineKnown
<1>10. ASSUME NEW h \in Gui \ {g} PROVE GuiKnown(h)'
  BY <1>1, <1>3, <1>6, OtherKeeps DEF GuiInv
<1> QED
  BY <1>7, <1>9, <1>10 DEF GuiInv

LEMMA HandleIs ==
  ASSUME GuiTypes, NEW g \in Gui, NEW m \in Message, Handle(g, m)
  PROVE  /\ ui' \in [Gui -> Window] /\ boxes' \in [Gui -> Seq(Statuses)] /\ ui'[g].connected = ui[g].connected
         /\ IF m.type = "status" THEN ui'[g].enabled = m.enabled /\ ui'[g].active = m.active
            ELSE ui'[g].hasStatus = ui[g].hasStatus /\ ui'[g].enabled = ui[g].enabled /\ ui'[g].active = ui[g].active
         /\ \A h \in Gui \ {g} : ui'[h] = ui[h]
<1>1. ui[g] \in Window /\ boxes[g] \in Seq(Statuses) /\ ui \in [Gui -> Window] /\ boxes \in [Gui -> Seq(Statuses)]
  BY DEF GuiTypes
<1>2. IsConnected(g) \in BOOLEAN
  BY DEF IsConnected
<1>3. m.type \in {"status", "list", "yamy::lock"}
  BY DEF Message
<1>4. CASE m.type = "status"
  <2> DEFINE u == StatusBegin(ui[g], m)
             v == StatusEnd(u, m, IsConnected(g))
  <2>1. m \in Statuses
    BY <1>4 DEF Statuses
  <2>2. u \in Window /\ u.connected = ui[g].connected /\ u.enabled = m.enabled /\ u.active = m.active
    BY <1>1, <2>1, BeginIs
  <2>3. v \in Window /\ v.connected = u.connected /\ v.enabled = u.enabled /\ v.active = u.active
    <3> HIDE DEF u
    <3> QED
      BY <1>2, <2>1, <2>2, EndIs
  <2>4. \/ ui' = [ui EXCEPT ![g] = u] /\ boxes' = [boxes EXCEPT ![g] = Append(boxes[g], m)]
        \/ ui' = [ui EXCEPT ![g] = v] /\ boxes' = boxes
    BY <1>4 DEF Handle
  <2>5. Append(boxes[g], m) \in Seq(Statuses)
    BY <1>1, <2>1
  <2> HIDE DEF u, v
  <2> QED
    BY <1>1, <1>4, <2>2, <2>3, <2>4, <2>5
<1>5. CASE m.type = "list"
  <2> DEFINE u == ListReceived(ui[g], m, IsConnected(g))
  <2>1. /\ u \in Window /\ u.connected = ui[g].connected /\ u.enabled = ui[g].enabled /\ u.active = ui[g].active
        /\ u.hasStatus = ui[g].hasStatus
    BY <1>1, <1>2, <1>5, ListIs
  <2>2. ui' = [ui EXCEPT ![g] = u] /\ boxes' = boxes
    BY <1>5 DEF Handle
  <2> HIDE DEF u
  <2> QED
    BY <1>1, <1>5, <2>1, <2>2
<1>6. CASE m.type = "yamy::lock"
  <2>1. ui' = ui /\ boxes' = boxes
    BY <1>6 DEF Handle
  <2> QED
    BY <1>1, <1>6, <2>1
<1> QED
  BY <1>3, <1>4, <1>5, <1>6

LEMMA OnReadyReadKeeps ==
  ASSUME GuiInv, NEW g \in Gui, OnReadyRead(g)
  PROVE  GuiInv'
<1> DEFINE b == buffer[g]
           t == toClient[g]
           d == Append(b, Head(t))
           s == b \o t
<1>1. UNCHANGED <<listening, engineEnabled, listed, chosen, locks, sock, toServer, client>>
  BY DEF OnReadyRead, engineVars
<1>2. /\ GuiTypes /\ GuiKnown(g) /\ b \in Seq(Piece) /\ t \in Seq(Piece) /\ t # <<>>
      /\ buffer \in [Gui -> Seq(Piece)] /\ toClient \in [Gui -> Seq(Piece)] /\ <<>> \in Seq(Piece)
  BY DEF GuiInv, GuiTypes, OnReadyRead
<1>3. /\ Len(b) < 2 /\ Framed(s) /\ (sock[g] = "on" => Ended(s) /\ listening) /\ sock[g] # "off"
  BY <1>2 DEF GuiKnown, FramesKnown, OnReadyRead
<1>4. toClient' = [toClient EXCEPT ![g] = Tail(t)]
  BY DEF OnReadyRead
<1>5. /\ d \in Seq(Piece) /\ s \in Seq(Piece) /\ Tail(t) \in Seq(Piece)
      /\ Len(d) = 2 => Len(s) > 1 /\ d[2] = s[2] /\ <<>> \o Tail(t) = Tail(Tail(s))
      /\ Len(d) # 2 => Len(d) < 2 /\ d \o Tail(t) = s
  BY <1>2, <1>3, ReadIs
<1>6. /\ toClient' \in [Gui -> Seq(Piece)] /\ toClient'[g] = Tail(t)
      /\ \A h \in Gui \ {g} : toClient'[h] = toClient[h]
  <2> HIDE DEF t
  <2> QED
    BY <1>2, <1>4, <1>5
<1>7. CASE Len(d) = 2
  <2> DEFINE m == d[2].msg
  <2>1. buffer' = [buffer EXCEPT ![g] = <<>>] /\ Handle(g, m)
    BY <1>7 DEF OnReadyRead
  <2>2. /\ buffer' \in [Gui -> Seq(Piece)] /\ buffer'[g] = <<>> /\ \A h \in Gui \ {g} : buffer'[h] = buffer[h]
    BY <1>2, <2>1
  <2>3. /\ Len(s) > 1 /\ m = s[2].msg /\ m \in Message /\ buffer'[g] \o toClient'[g] = Tail(Tail(s))
    <3> HIDE DEF d, s, t
    <3>1. d[2] \in Piece
      BY <1>5, <1>7
    <3> QED
      BY <1>5, <1>6, <1>7, <2>2, <3>1 DEF Piece
  <2> HIDE DEF m, d, s, t
  <2>4. /\ ui' \in [Gui -> Window] /\ boxes' \in [Gui -> Seq(Statuses)] /\ ui'[g].connected = ui[g].connected
        /\ IF m.type = "status" THEN ui'[g].enabled = m.enabled /\ ui'[g].active = m.active
           ELSE ui'[g].hasStatus = ui[g].hasStatus /\ ui'[g].enabled = ui[g].enabled /\ ui'[g].active = ui[g].active
        /\ \A h \in Gui \ {g} : ui'[h] = ui[h]
    BY <1>2, <2>1, <2>3, HandleIs
  <2>5. Framed(Tail(Tail(s))) /\ (Ended(s) => Ended(Tail(Tail(s))))
    BY <1>3, <1>5, <2>3, FramedNext
  <2>6. FramesKnown(sock'[g], buffer'[g], toClient'[g], listening')
    <3>1. Len(<<>>) < 2
      OBVIOUS
    <3> QED
      BY <1>1, <1>3, <2>2, <2>3, <2>5, <3>1 DEF FramesKnown
  <2>7. EngineKnown(sock'[g], ui'[g], buffer'[g] \o toClient'[g], toServer'[g], engineEnabled', chosen')
    <3>1. SUFFICES ASSUME sock[g] = "on", ui[g].connected, ~Asked(toServer[g])
                   PROVE  Heard(Tail(Tail(s)), ui'[g], engineEnabled, chosen)
      BY <1>1, <2>3, <2>4 DEF EngineKnown
    <3>2. Heard(s, ui[g], engineEnabled, chosen)
      BY <1>2, <3>1 DEF GuiKnown, EngineKnown, s, t
    <3>3. IF s[2].msg.type = "status" THEN ui'[g].enabled = s[2].msg.enabled /\ ui'[g].active = s[2].msg.active
          ELSE ui'[g].hasStatus = ui[g].hasStatus /\ ui'[g].enabled = ui[g].enabled /\ ui'[g].active = ui[g].active
      BY <2>3, <2>4
    <3> QED
      BY <1>3, <1>5, <2>3, <3>2, <3>3, HeardNext
  <2>8. ClientKnown(client'[g], ui'[g])
    BY <1>1, <1>2, <2>4 DEF GuiKnown, ClientKnown
  <2>9. ASSUME NEW h \in Gui \ {g} PROVE GuiKnown(h)'
    BY <1>1, <1>6, <2>2, <2>4, OtherKeeps DEF GuiInv
  <2>10. GuiTypes'
    BY <1>1, <1>2, <1>6, <2>2, <2>4 DEF GuiTypes
  <2>11. GuiKnown(g)'
    BY <2>6, <2>7, <2>8 DEF GuiKnown
  <2> QED
    BY <2>9, <2>10, <2>11 DEF GuiInv
<1>8. CASE Len(d) # 2
  <2>1. buffer' = [buffer EXCEPT ![g] = d] /\ ui' = ui /\ boxes' = boxes
    BY <1>8 DEF OnReadyRead
  <2> HIDE DEF d, s, t
  <2>2. /\ buffer' \in [Gui -> Seq(Piece)] /\ buffer'[g] = d /\ \A h \in Gui \ {g} : buffer'[h] = buffer[h]
    BY <1>2, <1>5, <2>1
  <2>3. buffer'[g] \o toClient'[g] = s /\ Len(d) < 2
    BY <1>5, <1>6, <1>8, <2>2
  <2>4. FramesKnown(sock'[g], buffer'[g], toClient'[g], listening')
    BY <1>1, <1>3, <2>2, <2>3 DEF FramesKnown
  <2>5. EngineKnown(sock'[g], ui'[g], buffer'[g] \o toClient'[g], toServer'[g], engineEnabled', chosen')
    BY <1>1, <1>2, <2>1, <2>3 DEF GuiKnown, s, t
  <2>6. GuiKnown(g)'
    BY <1>1, <1>2, <2>1, <2>4, <2>5 DEF GuiKnown
  <2>7. ASSUME NEW h \in Gui \ {g} PROVE GuiKnown(h)'
    BY <1>1, <1>6, <2>1, <2>2, OtherKeeps DEF GuiInv
  <2>8. GuiTypes'
    BY <1>1, <1>2, <1>6, <2>1, <2>2 DEF GuiTypes
  <2> QED
    BY <2>6, <2>7, <2>8 DEF GuiInv
<1> QED
  BY <1>7, <1>8

\* What the engine sends: it tells the engine's state, or changes nothing that was known of it.
LEMMA BroadcastKeeps ==
  ASSUME GuiInv, NEW ms \in Seq(Piece), Framed(ms), Ended(ms), Broadcast(ms),
         UNCHANGED <<sock, buffer, client, ui, boxes, listening>>,
         engineEnabled' \in BOOLEAN, chosen' \in Ident, listed' \in Seq(Path), locks' \in BOOLEAN,
         toServer' \in [Gui -> Seq(WindowCommand)],
         \/ EndsIn(ms, StatusPiece, Telling(engineEnabled', chosen'))
         \/ /\ NoneIn(ms, StatusPiece) /\ engineEnabled' = engineEnabled /\ chosen' = chosen
            /\ \A h \in Gui : Asked(toServer[h]) => Asked(toServer'[h])
  PROVE  GuiInv'
<1>1. ASSUME NEW h \in Gui
      PROVE  toClient'[h] = (IF sock[h] = "on" THEN toClient[h] \o ms ELSE toClient[h]) /\ toClient'[h] \in Seq(Piece)
  <2>1. toClient[h] \in Seq(Piece)
    BY DEF GuiInv, GuiTypes
  <2>2. toClient[h] \o ms \in Seq(Piece)
    BY <2>1, ConcatProperties
  <2>3. toClient' = [g \in Gui |-> IF sock[g] = "on" THEN toClient[g] \o ms ELSE toClient[g]]
    BY DEF Broadcast
  <2> QED
    BY <2>1, <2>2, <2>3
<1>2. toClient' \in [Gui -> Seq(Piece)]
  <2>1. toClient' = [g \in Gui |-> toClient'[g]]
    BY DEF Broadcast
  <2> QED
    BY <1>1, <2>1
<1>3. GuiTypes'
  BY <1>2 DEF GuiInv, GuiTypes
<1>4. ASSUME NEW h \in Gui PROVE GuiKnown(h)'
  <2> DEFINE s == buffer[h] \o toClient[h]
  <2>0. GuiKnown(h) /\ buffer[h] \in Seq(Piece) /\ toClient[h] \in Seq(Piece)
    BY DEF GuiInv, GuiTypes
  <2>1. CASE sock[h] = "on"
    <3>1. s \in Seq(Piece) /\ buffer'[h] \o toClient'[h] = s \o ms
      <4>1. s \in Seq(Piece)
        BY <2>0, ConcatProperties
      <4>2. (buffer[h] \o toClient[h]) \o ms = buffer[h] \o (toClient[h] \o ms)
        <5> DEFINE x == buffer[h]
                   y == toClient[h]
        <5>1. x \in Seq(Piece) /\ y \in Seq(Piece) /\ ms \in Seq(Piece)
          BY <2>0
        <5> HIDE DEF x, y
        <5>2. (x \o y) \o ms = x \o (y \o ms)
          BY <5>1, ConcatAssociative
        <5> QED
          BY <5>2 DEF x, y
      <4>3. buffer'[h] = buffer[h] /\ toClient'[h] = toClient[h] \o ms
        BY <1>1, <2>1
      <4> QED
        BY <4>1, <4>2, <4>3
    <3>2. Framed(s) /\ Ended(s) /\ listening /\ Len(buffer[h]) < 2
      BY <2>0, <2>1 DEF GuiKnown, FramesKnown
    <3>3. EngineKnown(sock[h], ui[h], s, toServer[h], engineEnabled, chosen)
      BY <2>0 DEF GuiKnown
    <3> HIDE DEF s
    <3>4. Framed(s \o ms) /\ Ended(s \o ms)
      BY <3>1, <3>2, FramedBoth
    <3>5. FramesKnown(sock'[h], buffer'[h], toClient'[h], listening')
      BY <2>1, <3>1, <3>2, <3>4 DEF FramesKnown
    <3>6. EngineKnown(sock[h], ui[h], s \o ms, toServer'[h], engineEnabled', chosen')
      <4>1. CASE EndsIn(ms, StatusPiece, Telling(engineEnabled', chosen'))
        <5>1. EndsIn(s \o ms, StatusPiece, Telling(engineEnabled', chosen'))
          BY <3>1, <4>1, EndsAfter
        <5> QED
          BY <5>1 DEF EngineKnown, Heard
      <4>2. CASE /\ NoneIn(ms, StatusPiece) /\ engineEnabled' = engineEnabled /\ chosen' = chosen
                 /\ \A g \in Gui : Asked(toServer[g]) => Asked(toServer'[g])
        <5>1. NoneIn(s, StatusPiece) => NoneIn(s \o ms, StatusPiece)
          BY <3>1, <4>2, NoneAfter
        <5>2. EndsIn(s, StatusPiece, Telling(engineEnabled, chosen)) => EndsIn(s \o ms, StatusPiece, Telling(engineEnabled, chosen))
          BY <3>1, <4>2, EndsBefore
        <5> QED
          BY <3>3, <4>2, <5>1, <5>2 DEF EngineKnown, Heard
      <4> QED
        BY <4>1, <4>2
    <3> QED
      BY <2>0, <3>1, <3>5, <3>6 DEF GuiKnown
  <2>2. CASE sock[h] # "on"
    BY <1>1, <2>0, <2>2 DEF GuiKnown, EngineKnown
  <2> QED
    BY <2>1, <2>2
<1> QED
  BY <1>3, <1>4 DEF GuiInv

LEMMA AnswerIs ==
  ASSUME NEW e \in BOOLEAN, NEW a \in Ident, NEW error \in BOOLEAN, NEW l \in Seq(Path)
  PROVE  LET ms == Pieces([type |-> "status", enabled |-> e, active |-> a, error |-> error])
                   \o Pieces([type |-> "list", names |-> [i \in DOMAIN l |-> Name(l[i])]])
         IN ms \in Seq(Piece) /\ Framed(ms) /\ Ended(ms) /\ EndsIn(ms, StatusPiece, Telling(e, a))
<1> DEFINE m == [type |-> "status", enabled |-> e, active |-> a, error |-> error]
           names == [i \in DOMAIN l |-> Name(l[i])]
           n == [type |-> "list", names |-> names]
<1>1. m \in Message /\ m.type = "status" /\ m.enabled = e /\ m.active = a
  BY DEF Message
<1>2. names \in Seq(Ident)
  <2>1. DOMAIN l = 1..Len(l) /\ Len(l) \in Nat /\ \A i \in 1..Len(l) : Name(l[i]) \in Ident
    BY DEF Ident
  <2> QED
    BY <2>1
<1> HIDE DEF names
<1>3. n \in Message /\ n.type # "status"
  BY <1>2 DEF Message
<1> HIDE DEF m, n
<1>4. /\ Pieces(m) \in Seq(Piece) /\ Framed(Pieces(m)) /\ Ended(Pieces(m))
      /\ EndsIn(Pieces(m), StatusPiece, Telling(e, a))
  BY <1>1, PiecesFramed
<1>5. Pieces(n) \in Seq(Piece) /\ Framed(Pieces(n)) /\ Ended(Pieces(n)) /\ NoneIn(Pieces(n), StatusPiece)
  BY <1>3, PiecesFramed
<1>6. Pieces(m) \o Pieces(n) \in Seq(Piece)
  BY <1>4, <1>5, ConcatProperties
<1>7. Framed(Pieces(m) \o Pieces(n)) /\ Ended(Pieces(m) \o Pieces(n))
  BY <1>4, <1>5, FramedBoth
<1>8. EndsIn(Pieces(m) \o Pieces(n), StatusPiece, Telling(e, a))
  BY <1>4, <1>5, EndsBefore
<1> QED
  BY <1>6, <1>7, <1>8 DEF m, n, names

LEMMA AnswerKeeps ==
  ASSUME GuiInv, NEW error \in BOOLEAN, Answer(error), UNCHANGED <<sock, buffer, client, ui, boxes, listening>>,
         engineEnabled' \in BOOLEAN, chosen' \in Ident, listed' \in Seq(Path), locks' \in BOOLEAN,
         toServer' \in [Gui -> Seq(WindowCommand)]
  PROVE  GuiInv'
<1> DEFINE ms == Pieces([type |-> "status", enabled |-> engineEnabled', active |-> chosen', error |-> error])
                 \o Pieces([type |-> "list", names |-> [i \in DOMAIN listed' |-> Name(listed'[i])]])
<1>1. ms \in Seq(Piece) /\ Framed(ms) /\ Ended(ms) /\ EndsIn(ms, StatusPiece, Telling(engineEnabled', chosen'))
  BY AnswerIs
<1>2. Broadcast(ms)
  BY DEF Answer
<1> HIDE DEF ms
<1> QED
  BY <1>1, <1>2, BroadcastKeeps

\* The answer to a question about the locks, and their change, says nothing of the status.
LEMMA LockSentKeeps ==
  ASSUME GuiInv, NEW b \in BOOLEAN, Broadcast(Pieces([type |-> "yamy::lock", lock |-> b])),
         UNCHANGED <<sock, buffer, client, ui, boxes, listening, engineEnabled, chosen, listed>>,
         locks' \in BOOLEAN, toServer' \in [Gui -> Seq(WindowCommand)],
         \A h \in Gui : Asked(toServer[h]) => Asked(toServer'[h])
  PROVE  GuiInv'
<1> DEFINE m == [type |-> "yamy::lock", lock |-> b]
<1>1. m \in Message /\ m.type # "status"
  BY DEF Message
<1>2. Broadcast(Pieces(m))
  OBVIOUS
<1> HIDE DEF m
<1>3. Pieces(m) \in Seq(Piece) /\ Framed(Pieces(m)) /\ Ended(Pieces(m)) /\ NoneIn(Pieces(m), StatusPiece)
  BY <1>1, PiecesFramed
<1>4. engineEnabled' \in BOOLEAN /\ chosen' \in Ident /\ listed' \in Seq(Path)
  BY DEF GuiInv, GuiTypes
<1> QED
  BY <1>2, <1>3, <1>4, BroadcastKeeps

LEMMA ToggleLockKeeps ==
  ASSUME GuiInv, ToggleLock
  PROVE  GuiInv'
<1>1. /\ locks' \in BOOLEAN /\ toServer' \in [Gui -> Seq(WindowCommand)] /\ toServer' = toServer
      /\ UNCHANGED <<sock, buffer, client, ui, boxes, listening, engineEnabled, chosen, listed>>
  BY DEF ToggleLock, GuiInv, GuiTypes
<1>2. Broadcast(Pieces([type |-> "yamy::lock", lock |-> locks']))
  BY DEF ToggleLock
<1> QED
  BY <1>1, <1>2, LockSentKeeps

LEMMA ServeKeeps ==
  ASSUME GuiInv, NEW g \in Gui, Serve(g)
  PROVE  GuiInv'
<1> DEFINE c == Head(toServer[g])
<1>1. UNCHANGED <<sock, buffer, client, ui, boxes, listening>>
  BY DEF Serve
<1>2. /\ engineEnabled \in BOOLEAN /\ chosen \in Ident /\ listed \in Seq(Path) /\ locks \in BOOLEAN
      /\ toServer \in [Gui -> Seq(WindowCommand)] /\ toServer[g] \in Seq(WindowCommand) /\ toServer[g] # <<>>
  BY DEF GuiInv, GuiTypes, Serve
<1>3. c \in WindowCommand /\ Tail(toServer[g]) \in Seq(WindowCommand)
  BY <1>2, HeadTailProperties
<1>4. toServer' = [toServer EXCEPT ![g] = Tail(toServer[g])]
  BY DEF Serve
<1>5. toServer' \in [Gui -> Seq(WindowCommand)]
  BY <1>2, <1>3, <1>4
<1> HIDE DEF c
<1>6. CASE c.cmd = "status" /\ UNCHANGED engineVars /\ Answer(FALSE)
  <2>1. engineEnabled' \in BOOLEAN /\ chosen' \in Ident /\ listed' \in Seq(Path) /\ locks' \in BOOLEAN
    BY <1>2, <1>6 DEF engineVars
  <2> QED
    BY <1>1, <1>5, <1>6, <2>1, AnswerKeeps
<1>7. CASE c.cmd = "lock" /\ UNCHANGED engineVars /\ Broadcast(Pieces([type |-> "yamy::lock", lock |-> locks]))
  <2>1. UNCHANGED <<engineEnabled, chosen, listed>> /\ locks' \in BOOLEAN
    BY <1>2, <1>7 DEF engineVars
  <2>2. Head(toServer[g]) \notin AskStatus
    BY <1>7 DEF AskStatus, c
  <2>3. Asked(toServer[g]) => Asked(Tail(toServer[g]))
    BY <1>2, <2>2, AskedNext
  <2>4. \A h \in Gui : Asked(toServer[h]) => Asked(toServer'[h])
    BY <1>2, <1>4, <2>3
  <2> QED
    BY <1>1, <1>2, <1>5, <1>7, <2>1, <2>4, LockSentKeeps
<1>8. CASE c.cmd = "enable" /\ engineEnabled' = c.on /\ UNCHANGED <<listed, chosen, locks>> /\ Answer(FALSE)
  <2>1. engineEnabled' \in BOOLEAN /\ chosen' \in Ident /\ listed' \in Seq(Path) /\ locks' \in BOOLEAN
    BY <1>2, <1>3, <1>8 DEF WindowCommand
  <2> QED
    BY <1>1, <1>5, <1>8, <2>1, AnswerKeeps
<1>9. CASE Switch(c.target)
  <2>1. engineEnabled' \in BOOLEAN /\ listed' \in Seq(Path) /\ locks' \in BOOLEAN
    BY <1>2, <1>9 DEF Switch
  <2>2. PICK error \in BOOLEAN : chosen' \in Ident /\ Answer(error)
    BY <1>2, <1>9 DEF Switch, Ident
  <2> QED
    BY <1>1, <1>5, <2>1, <2>2, AnswerKeeps
<1>10. CASE /\ c.cmd = "add" /\ UNCHANGED <<engineEnabled, chosen, locks>>
            /\ LET new == \A i \in DOMAIN listed : listed[i] # c.target IN
               listed' = (IF new THEN Append(listed, c.target) ELSE listed) /\ Answer(~new)
  <2> DEFINE new == \A i \in DOMAIN listed : listed[i] # c.target
  <2>1. c.target \in Path
    BY <1>3, <1>10 DEF WindowCommand
  <2>2. listed' \in Seq(Path)
    <3>1. Append(listed, c.target) \in Seq(Path)
      BY <1>2, <2>1
    <3>2. listed' = Append(listed, c.target) \/ listed' = listed
      BY <1>10
    <3> QED
      BY <1>2, <3>1, <3>2
  <2>3. PICK error \in BOOLEAN : Answer(error)
    <3>1. Answer(~new)
      BY <1>10
    <3>2. (~new) \in BOOLEAN
      OBVIOUS
    <3> HIDE DEF new
    <3> QED
      BY <3>1, <3>2
  <2>4. engineEnabled' \in BOOLEAN /\ chosen' \in Ident /\ locks' \in BOOLEAN
    BY <1>2, <1>10
  <2> HIDE DEF new
  <2> QED
    BY <1>1, <1>5, <2>2, <2>3, <2>4, AnswerKeeps
<1>11. CASE /\ c.cmd = "remove" /\ UNCHANGED <<engineEnabled, locks>>
            /\ LET found == {i \in DOMAIN listed : PathOf(listed[i]) = c.target} IN
               /\ listed' = (IF found = {} THEN listed ELSE Without(listed, CHOOSE i \in found : TRUE))
               /\ chosen' = (IF chosen = c.target THEN Empty ELSE chosen)
               /\ Answer(found = {})
  <2> DEFINE found == {i \in DOMAIN listed : PathOf(listed[i]) = c.target}
             k == CHOOSE i \in found : TRUE
  <2>1. listed' \in Seq(Path)
    <3>1. CASE found = {}
      BY <1>2, <1>11, <3>1
    <3>2. CASE found # {}
      <4>1. k \in 1..Len(listed) /\ Len(listed) \in Nat
        BY <1>2, <3>2
      <4>2. listed' = Without(listed, k)
        BY <1>11, <3>2
      <4> HIDE DEF k
      <4>3. SubSeq(listed, 1, k - 1) \in Seq(Path) /\ SubSeq(listed, k + 1, Len(listed)) \in Seq(Path)
        BY <1>2, <4>1, SubSeqProperties
      <4> QED
        BY <4>2, <4>3, ConcatProperties DEF Without
    <3> QED
      BY <3>1, <3>2
  <2>2. (found = {}) \in BOOLEAN /\ Answer(found = {})
    BY <1>11
  <2>3. engineEnabled' \in BOOLEAN /\ chosen' \in Ident /\ locks' \in BOOLEAN
    BY <1>2, <1>11 DEF Ident
  <2> HIDE DEF found
  <2> QED
    BY <1>1, <1>5, <2>1, <2>2, <2>3, AnswerKeeps
<1> QED
  BY <1>6, <1>7, <1>8, <1>9, <1>10, <1>11 DEF Serve, c

LEMMA DaemonEndsKeeps ==
  ASSUME GuiInv, DaemonEnds
  PROVE  GuiInv'
<1>1. UNCHANGED <<engineEnabled, listed, chosen, locks, buffer, client, ui, boxes>> /\ listening' \in BOOLEAN
  BY DEF DaemonEnds, engineVars
<1>2. PICK n \in 0..1 : toClient' = [g \in Gui |-> SubSeq(toClient[g], 1, Len(toClient[g]) - n)]
  BY DEF DaemonEnds
<1>3. sock' \in [Gui -> {"off", "on", "closing"}] /\ \A h \in Gui : sock'[h] # "on" /\ (sock'[h] = "off" => sock[h] = "off")
  BY DEF DaemonEnds, GuiInv, GuiTypes
<1>4. toServer' \in [Gui -> Seq(WindowCommand)]
  <2>1. <<>> \in Seq(WindowCommand)
    OBVIOUS
  <2> QED
    BY <2>1 DEF DaemonEnds
<1>5. ASSUME NEW h \in Gui
      PROVE  /\ toClient'[h] \in Seq(Piece) /\ Len(toClient'[h]) <= Len(toClient[h])
             /\ \A i \in 1..Len(toClient'[h]) : toClient'[h][i] = toClient[h][i]
  <2> DEFINE t == toClient[h]
             r == SubSeq(t, 1, Len(t) - n)
  <2>1. t \in Seq(Piece) /\ Len(t) \in Nat /\ n \in 0..1
    BY DEF GuiInv, GuiTypes
  <2>2. toClient'[h] = r
    BY <1>2
  <2> HIDE DEF t
  <2>3. Len(t) - n \in Int /\ \A i \in 1..Len(t) - n : t[i] \in Piece
    BY <2>1
  <2>4. /\ r \in Seq(Piece) /\ Len(r) = IF 1 <= Len(t) - n THEN (Len(t) - n) - 1 + 1 ELSE 0
        /\ \A i \in 1..(Len(t) - n) - 1 + 1 : r[i] = t[1 + i - 1]
    BY <2>3, SubSeqProperties
  <2> HIDE DEF r
  <2>5. Len(r) <= Len(t)
    BY <2>1, <2>4
  <2>6. ASSUME NEW i \in 1..Len(r) PROVE r[i] = t[i]
    <3>1. i \in 1..(Len(t) - n) - 1 + 1 /\ 1 + i - 1 = i
      BY <2>1, <2>4
    <3> QED
      BY <2>4, <3>1
  <2> QED
    BY <2>2, <2>4, <2>5, <2>6 DEF t
<1>6. toClient' \in [Gui -> Seq(Piece)]
  <2>1. toClient' = [g \in Gui |-> toClient'[g]]
    BY <1>2
  <2> QED
    BY <1>5, <2>1
<1>7. GuiTypes'
  BY <1>1, <1>3, <1>4, <1>6 DEF GuiInv, GuiTypes
<1>8. ASSUME NEW h \in Gui PROVE GuiKnown(h)'
  <2> DEFINE b == buffer[h]
             t == toClient[h]
             r == toClient'[h]
  <2>0. GuiKnown(h) /\ b \in Seq(Piece) /\ t \in Seq(Piece) /\ r \in Seq(Piece)
    BY <1>5 DEF GuiInv, GuiTypes
  <2>1. Len(b) < 2 /\ Framed(b \o t) /\ (sock[h] = "off" => b = <<>> /\ t = <<>>)
    BY <2>0 DEF GuiKnown, FramesKnown
  <2>2. Len(r) <= Len(t) /\ \A i \in 1..Len(r) : r[i] = t[i]
    BY <1>5
  <2>3. sock[h] = "off" => r = <<>>
    <3>1. SUFFICES ASSUME sock[h] = "off" PROVE r = <<>>
      OBVIOUS
    <3>2. Len(t) = 0
      BY <2>1, <3>1
    <3> HIDE DEF r, t
    <3> QED
      BY <2>0, <2>2, <3>2, EmptySeq
  <2> HIDE DEF b, t, r
  <2>4. Framed(b \o r)
    <3>1. /\ Len(b) \in Nat /\ Len(t) \in Nat /\ Len(r) \in Nat
          /\ b \o t \in Seq(Piece) /\ Len(b \o t) = Len(b) + Len(t)
          /\ \A i \in 1..Len(b) + Len(t) : (b \o t)[i] = IF i <= Len(b) THEN b[i] ELSE t[i - Len(b)]
      BY <2>0, ConcatProperties
    <3>2. /\ b \o r \in Seq(Piece) /\ Len(b \o r) = Len(b) + Len(r)
          /\ \A i \in 1..Len(b) + Len(r) : (b \o r)[i] = IF i <= Len(b) THEN b[i] ELSE r[i - Len(b)]
      BY <2>0, ConcatProperties
    <3> DEFINE x == b \o t
               y == b \o r
    <3>3. x \in Seq(Piece) /\ y \in Seq(Piece) /\ Framed(x)
      BY <2>1, <3>1, <3>2
    <3>4. Len(y) <= Len(x)
      BY <2>2, <3>1, <3>2
    <3>5. ASSUME NEW i \in 1..Len(y) PROVE y[i] = x[i]
      <4>1. i \in 1..Len(b) + Len(r) /\ i \in 1..Len(b) + Len(t)
        BY <2>2, <3>1, <3>2
      <4>2. CASE i <= Len(b)
        BY <3>1, <3>2, <4>1, <4>2
      <4>3. CASE ~(i <= Len(b))
        <5>1. i - Len(b) \in 1..Len(r)
          BY <3>1, <4>1, <4>3
        <5> QED
          BY <2>2, <3>1, <3>2, <4>1, <4>3, <5>1
      <4> QED
        BY <4>2, <4>3
    <3> HIDE DEF x, y
    <3>6. Framed(y)
      BY <3>3, <3>4, <3>5, FramedPrefix
    <3> QED
      BY <3>6 DEF y
  <2>5. FramesKnown(sock'[h], buffer'[h], toClient'[h], listening')
    BY <1>1, <1>3, <2>1, <2>3, <2>4 DEF FramesKnown, b, t, r
  <2>6. EngineKnown(sock'[h], ui'[h], buffer'[h] \o toClient'[h], toServer'[h], engineEnabled', chosen')
    BY <1>3 DEF EngineKnown
  <2> QED
    BY <1>1, <2>0, <2>5, <2>6 DEF GuiKnown
<1> QED
  BY <1>7, <1>8 DEF GuiInv

LEMMA DaemonStartsKeeps ==
  ASSUME GuiInv, DaemonStarts
  PROVE  GuiInv'
<1>1. /\ UNCHANGED <<listed, chosen, sock, toServer, toClient, buffer, client, ui, boxes>> /\ ~listening
      /\ listening' \in BOOLEAN /\ engineEnabled' \in BOOLEAN /\ locks' \in BOOLEAN
  BY DEF DaemonStarts
<1>2. GuiTypes'
  BY <1>1 DEF GuiInv, GuiTypes
<1>3. ASSUME NEW h \in Gui PROVE GuiKnown(h)'
  <2>1. GuiKnown(h) /\ sock[h] # "on"
    BY <1>1 DEF GuiInv, GuiKnown, FramesKnown
  <2> QED
    BY <1>1, <2>1 DEF GuiKnown, FramesKnown, EngineKnown
<1> QED
  BY <1>2, <1>3 DEF GuiInv

LEMMA GuiStarts == GuiInit => GuiInv
<1> SUFFICES ASSUME GuiInit PROVE GuiInv
  OBVIOUS
<1> DEFINE cl == [last |-> FALSE, should |-> FALSE, attempts |-> 0, timer |-> FALSE]
<1>1. /\ <<>> \in Seq(Piece) /\ <<>> \in Seq(WindowCommand) /\ <<>> \in Seq(Path) /\ <<>> \in Seq(Statuses)
      /\ <<>> \in Seq(Ident) /\ Empty \in Ident /\ 0 \in 0..kMaxAttempts
  BY GuiChannelAssumption DEF Ident
<1>2. Blank \in Window
  BY <1>1 DEF Blank, Window
<1>3. cl \in ClientState
  BY <1>1 DEF ClientState
<1>4. ClientKnown(cl, Blank)
  BY DEF ClientKnown, Blank
<1>5. client = [g \in Gui |-> cl]
  BY DEF GuiInit
<1> HIDE DEF cl
<1>6. GuiTypes
  BY <1>1, <1>2, <1>3, <1>5 DEF GuiInit, GuiTypes
<1>7. ASSUME NEW g \in Gui PROVE GuiKnown(g)
  <2>1. sock[g] = "off" /\ buffer[g] = <<>> /\ toClient[g] = <<>> /\ client[g] = cl /\ ui[g] = Blank
    BY <1>5 DEF GuiInit
  <2>2. sock[g] = "on" => listening
    BY <2>1
  <2>3. FramesKnown(sock[g], buffer[g], toClient[g], listening)
    BY <2>1, <2>2, NothingOnTheWay
  <2> QED
    BY <1>4, <2>1, <2>3 DEF GuiKnown, EngineKnown
<1> QED
  BY <1>6, <1>7 DEF GuiInv

LEMMA GuiStep == ASSUME ~Eager, GuiInv, [GuiNext]_guiVars PROVE GuiInv'
<1>1. CASE UNCHANGED guiVars
  BY <1>1 DEF guiVars, GuiInv, GuiTypes, GuiKnown
<1>2. ASSUME NEW g \in Gui,
             \/ Start(g) \/ Reconnect(g) \/ PollTimer(g) \/ ReconnectTimer(g) \/ OnDisconnected(g) \/ OnReadyRead(g)
             \/ CloseBox(g) \/ CloseWindow(g) \/ Serve(g)
      PROVE  GuiInv'
  BY <1>2, StartKeeps, ReconnectKeeps, PollTimerKeeps, ReconnectTimerKeeps, DisconnectedKeeps, OnReadyReadKeeps,
     CloseBoxKeeps, CloseWindowKeeps, ServeKeeps
<1>3. ASSUME NEW g \in Gui,
             \/ Toggle(g) \/ ReloadClicked(g) \/ \E c \in Path : Select(g, Name(c)) \/ AddKeymap(g, c)
             \/ \E i \in DOMAIN ui[g].names : RemoveKeymap(g, ui[g].names[i])
      PROVE  GuiInv'
  BY <1>3, UserKeeps
<1>4. CASE ToggleLock \/ DaemonEnds \/ DaemonStarts
  BY <1>4, ToggleLockKeeps, DaemonEndsKeeps, DaemonStartsKeeps
<1> QED
  BY <1>1, <1>2, <1>3, <1>4 DEF GuiNext

LEMMA GuiKnowsEnough == GuiInv => GuiSafe
<1> SUFFICES ASSUME GuiInv PROVE GuiSafe
  OBVIOUS
<1>1. GuiTypeOK
  <2>1. {listening, engineEnabled, locks} \subseteq BOOLEAN
    BY DEF GuiInv, GuiTypes
  <2>2. ASSUME NEW g \in Gui
        PROVE  /\ sock[g] \in {"off", "on", "closing"} /\ client[g].attempts \in 0..kMaxAttempts
               /\ Len(buffer[g]) < 2 /\ ui[g].label \in {"Enable", "Disable", "busy"}
    <3>1. client[g] \in ClientState /\ ui[g] \in Window /\ sock[g] \in {"off", "on", "closing"}
      BY DEF GuiInv, GuiTypes
    <3>2. Len(buffer[g]) < 2
      BY DEF GuiInv, GuiKnown, FramesKnown
    <3> QED
      BY <3>1, <3>2 DEF ClientState, Window
  <2> QED
    BY <2>1, <2>2 DEF GuiTypeOK
<1>2. FramesWhole
  <2> SUFFICES ASSUME NEW g \in Gui, buffer[g] # <<>>
               PROVE  /\ buffer[g][1].part = "head"
                      /\ toClient[g] # <<>> => toClient[g][1] = [buffer[g][1] EXCEPT !.part = "tail"]
    BY DEF FramesWhole
  <2> DEFINE b == buffer[g]
             t == toClient[g]
             s == b \o t
  <2>1. b \in Seq(Piece) /\ t \in Seq(Piece) /\ b # <<>> /\ Len(b) < 2 /\ Framed(s)
    BY DEF GuiInv, GuiTypes, GuiKnown, FramesKnown
  <2> HIDE DEF b, t
  <2>2. Len(b) \in Nat /\ Len(t) \in Nat /\ Len(b) = 1 /\ b[1] \in Piece
    <3>1. Len(b) \in Nat /\ Len(t) \in Nat
      BY <2>1
    <3>2. Len(b) # 0
      BY <2>1, EmptySeq
    <3>3. Len(b) = 1
      <4> DEFINE n == Len(b)
      <4>1. n \in Nat /\ n # 0 /\ n < 2
        BY <2>1, <3>1, <3>2
      <4> HIDE DEF n
      <4>2. n = 1
        BY <4>1
      <4> QED
        BY <4>2 DEF n
    <3> QED
      BY <2>1, <3>1, <3>3
  <2>3. Len(s) = 1 + Len(t) /\ \A i \in 1..1 + Len(t) : s[i] = IF i <= 1 THEN b[i] ELSE t[i - 1]
    BY <2>1, <2>2, ConcatProperties, SMTT(30)
  <2> HIDE DEF s
  <2>4. s[1] = b[1] /\ 1 \in 1..Len(s)
    BY <2>2, <2>3
  <2>5. b[1].part = "head"
    BY <2>1, <2>4 DEF Framed
  <2>6. ASSUME t # <<>> PROVE t[1] = [b[1] EXCEPT !.part = "tail"]
    <3>1. Len(t) > 0 /\ t[1] \in Piece
      BY <2>1, <2>2, <2>6, EmptySeq
    <3>2. s[2] = t[1] /\ 1 < Len(s)
      BY <2>2, <2>3, <3>1
    <3>3. t[1].part = "tail" /\ t[1].msg = b[1].msg
      BY <2>1, <2>4, <2>5, <3>2 DEF Framed
    <3> QED
      BY <2>2, <3>1, <3>3 DEF Piece
  <2> QED
    BY <2>5, <2>6 DEF b, t
<1>3. GuiHonest
  <2> SUFFICES ASSUME NEW g \in Gui, Quiet(g), ui[g].hasStatus
               PROVE  ui[g].enabled = engineEnabled /\ ui[g].active = chosen
    BY DEF GuiHonest
  <2>1. /\ sock[g] = "on" /\ ui[g].connected /\ toServer[g] = <<>> /\ toClient[g] = <<>> /\ buffer[g] = <<>>
    BY DEF Quiet
  <2>2. Len(<<>>) = 0 /\ <<>> \o <<>> = <<>> /\ ~Asked(<<>>) /\ \A K, G : ~EndsIn(<<>>, K, G)
    BY DEF Asked, EndsIn
  <2>3. Heard(buffer[g] \o toClient[g], ui[g], engineEnabled, chosen) \/ Asked(toServer[g])
    BY <2>1 DEF GuiInv, GuiKnown, EngineKnown
  <2>4. Heard(<<>>, ui[g], engineEnabled, chosen)
    BY <2>1, <2>2, <2>3
  <2> QED
    BY <2>2, <2>4 DEF Heard
<1> QED
  BY <1>1, <1>2, <1>3 DEF GuiSafe

\* For every set of GUIs and of configurations, however often the daemon dies in the middle of a
\* message and is replaced: messages are put together from pieces of one message, and when all is
\* answered each window takes the engine for what it is.  Reconnect is offered only without a
\* connection.
THEOREM GuiIsSafe ==
  ASSUME ~Eager
  PROVE  GuiSpec => []GuiSafe
<1>1. GuiInit => GuiInv
  BY GuiStarts
<1>2. GuiInv /\ [GuiNext]_guiVars => GuiInv'
  BY GuiStep
<1>3. GuiInv => GuiSafe
  BY GuiKnowsEnough
<1> QED
  BY <1>1, <1>2, <1>3, PTL DEF GuiSpec

(* ----------------------------------- Metrics ----------------------------------- *)

MetricsTypes ==
  /\ DOMAIN buffers \subseteq Operation /\ \A o \in DOMAIN buffers : buffers[o].writeIndex \in Nat
  /\ records \in [Operation -> Nat] /\ logged \in [Operation -> Nat]
  /\ {loggingActive, stopLogging, joinable, terminated} \subseteq BOOLEAN
  /\ logger \in {"none", "sleep", "report", "reset", "ended"}
  /\ call \in [Starter -> {"none", "clear", "thread", "stop", "join", "inactive", "forget"}]

\* How much of o is in its buffer; nothing that is counted there has been logged, except
\* between the report and the reset.
Buffered(o) == IF o \in DOMAIN buffers THEN buffers[o].writeIndex ELSE 0
CountedOnce ==
  \A o \in Operation :
    /\ logged[o] <= records[o]
    /\ logger # "reset" => logged[o] + Buffered(o) <= records[o]

\* The thread runs only while the object owns it, and one call at a time decides whether it does.
ThreadOwned ==
  /\ ~terminated
  /\ logger \in {"sleep", "report", "reset"} => joinable
  /\ (\A t \in Starter : call[t] = "none") => (joinable <=> loggingActive)
  /\ \A t \in Starter :
       /\ call[t] # "none" => \A u \in Starter \ {t} : call[u] = "none"
       /\ call[t] \in {"clear", "thread"} => ~joinable /\ loggingActive
       /\ call[t] = "stop" => joinable /\ loggingActive
       /\ call[t] = "inactive" => ~joinable
       /\ call[t] = "forget" => ~joinable /\ ~loggingActive

MetricsInv == MetricsTypes /\ CountedOnce /\ ThreadOwned

LEMMA CountIs == ASSUME NEW b PROVE ComputeStats(b).count \in {0, b.writeIndex}
<1> DEFINE s == SortSeq(GetSamples(b), <)
<1>1. ComputeStats(b) = IF s = <<>> THEN NoStats
     ELSE [count |-> b.writeIndex, min |-> 100 * s[1], p50 |-> Percentile(s, 50), p95 |-> Percentile(s, 95),
           p99 |-> Percentile(s, 99), max |-> 100 * s[Len(s)]]
  BY DEF ComputeStats
<1> HIDE DEF s
<1> QED
  BY <1>1 DEF NoStats

LEMMA RecordKeeps ==
  ASSUME MetricsInv, NEW o \in Operation, NEW d \in Duration, Record(o, d)
  PROVE  MetricsInv'
<1> DEFINE b == IF o \in DOMAIN buffers THEN buffers[o] ELSE Cleared
           n == [writeIndex |-> b.writeIndex + 1, samples |-> [b.samples EXCEPT ![b.writeIndex % BUFFER_SIZE] = d]]
<1>1. UNCHANGED <<loggingActive, stopLogging, joinable, logger, call, terminated, logged>>
  BY DEF Record, threadVars
<1>2. b.writeIndex = Buffered(o) /\ b.writeIndex \in Nat
  BY DEF Buffered, Cleared, MetricsInv, MetricsTypes
<1>3. buffers' = [p \in DOMAIN buffers \cup {o} |-> IF p # o THEN buffers[p] ELSE n]
  BY DEF Record
<1> HIDE DEF b
<1>4. n.writeIndex = Buffered(o) + 1 /\ n.writeIndex \in Nat
  BY <1>2
<1> HIDE DEF n
<1>5. /\ DOMAIN buffers' = DOMAIN buffers \cup {o} /\ Buffered(o)' = Buffered(o) + 1
      /\ \A p \in Operation \ {o} : Buffered(p)' = Buffered(p)
      /\ \A p \in DOMAIN buffers' : buffers'[p].writeIndex \in Nat
  BY <1>3, <1>4 DEF Buffered, MetricsInv, MetricsTypes
<1>6. records' \in [Operation -> Nat] /\ records'[o] = records[o] + 1 /\ \A p \in Operation \ {o} : records'[p] = records[p]
  BY DEF Record, MetricsInv, MetricsTypes
<1>7. MetricsTypes'
  BY <1>1, <1>5, <1>6 DEF MetricsInv, MetricsTypes
<1>8. CountedOnce'
  <2> SUFFICES ASSUME NEW p \in Operation
               PROVE  /\ logged'[p] <= records'[p]
                      /\ logger' # "reset" => logged'[p] + Buffered(p)' <= records'[p]
    BY DEF CountedOnce
  <2>1. /\ logged[p] \in Nat /\ records[p] \in Nat /\ Buffered(p) \in Nat /\ logged[p] <= records[p]
        /\ logger # "reset" => logged[p] + Buffered(p) <= records[p]
    BY DEF MetricsInv, MetricsTypes, CountedOnce, Buffered
  <2> QED
    BY <1>1, <1>5, <1>6, <2>1
<1>9. ThreadOwned'
  BY <1>1 DEF MetricsInv, ThreadOwned
<1> QED
  BY <1>7, <1>8, <1>9 DEF MetricsInv

LEMMA LoggingThreadKeeps ==
  ASSUME MetricsInv, LoggingThread
  PROVE  MetricsInv'
<1>1. CASE Wake
  BY <1>1 DEF Wake, MetricsInv, MetricsTypes, CountedOnce, ThreadOwned, Buffered
<1>2. CASE LogStats
  <2>1. UNCHANGED <<buffers, loggingActive, stopLogging, joinable, call, terminated, records>>
    BY <1>2 DEF LogStats
  <2>2. /\ logger = "report" /\ logger' \in {"sleep", "ended", "reset"}
        /\ logger' # "reset" => buffers = <<>>
    BY <1>2 DEF LogStats, Asleep
  <2>3. ASSUME NEW o \in Operation
        PROVE  /\ logged'[o] \in Nat /\ logged'[o] <= logged[o] + Buffered(o)
               /\ o \notin DOMAIN buffers => logged'[o] = logged[o]
    <3> DEFINE k == IF o \in DOMAIN buffers THEN ComputeStats(buffers[o]).count ELSE 0
    <3>1. logged'[o] = logged[o] + k
      BY <1>2 DEF LogStats
    <3>2. k \in {0, Buffered(o)} /\ (o \notin DOMAIN buffers => k = 0)
      BY CountIs DEF Buffered
    <3>3. logged[o] \in Nat /\ Buffered(o) \in Nat
      BY DEF MetricsInv, MetricsTypes, Buffered
    <3> HIDE DEF k
    <3> QED
      BY <3>1, <3>2, <3>3
  <2>4. logged' \in [Operation -> Nat]
    <3>1. logged' = [o \in Operation |-> logged'[o]]
      BY <1>2 DEF LogStats
    <3> QED
      BY <2>3, <3>1
  <2>5. MetricsTypes'
    BY <2>1, <2>2, <2>4 DEF MetricsInv, MetricsTypes
  <2>6. CountedOnce'
    <3> SUFFICES ASSUME NEW o \in Operation
                 PROVE  /\ logged'[o] <= records'[o]
                        /\ logger' # "reset" => logged'[o] + Buffered(o)' <= records'[o]
      BY DEF CountedOnce
    <3>1. /\ logged[o] \in Nat /\ records[o] \in Nat /\ Buffered(o) \in Nat
          /\ logged[o] + Buffered(o) <= records[o]
      BY <2>2 DEF MetricsInv, MetricsTypes, CountedOnce, Buffered
    <3>2. buffers = <<>> => o \notin DOMAIN buffers
      OBVIOUS
    <3>3. Buffered(o)' = Buffered(o)
      BY <2>1 DEF Buffered
    <3> QED
      BY <2>1, <2>2, <2>3, <3>1, <3>2, <3>3
  <2>7. ThreadOwned'
    BY <2>1, <2>2 DEF MetricsInv, ThreadOwned
  <2> QED
    BY <2>5, <2>6, <2>7 DEF MetricsInv
<1>3. CASE Reset
  <2>1. UNCHANGED <<loggingActive, stopLogging, joinable, call, terminated, records, logged>>
    BY <1>3 DEF Reset
  <2>2. logger = "reset" /\ logger' \in {"sleep", "ended"}
    BY <1>3 DEF Reset, Asleep
  <2>3. DOMAIN buffers' = DOMAIN buffers /\ \A o \in DOMAIN buffers : buffers'[o] = Cleared
    BY <1>3 DEF Reset
  <2>4. Cleared.writeIndex = 0
    BY DEF Cleared
  <2>5. MetricsTypes'
    BY <2>1, <2>2, <2>3, <2>4 DEF MetricsInv, MetricsTypes
  <2>6. CountedOnce'
    BY <2>1, <2>3, <2>4 DEF MetricsInv, MetricsTypes, CountedOnce, Buffered
  <2>7. ThreadOwned'
    BY <2>1, <2>2 DEF MetricsInv, ThreadOwned
  <2> QED
    BY <2>5, <2>6, <2>7 DEF MetricsInv
<1> QED
  BY <1>1, <1>2, <1>3 DEF LoggingThread

LEMMA StarterKeeps ==
  ASSUME ~Overlap, MetricsInv, NEW t \in Starter, StartLogging(t) \/ StopLogging(t) \/ Continue(t)
  PROVE  MetricsInv'
<1>1. UNCHANGED <<buffers, records, logged>> /\ (logger' = logger \/ (logger # "reset" /\ logger' \in {"sleep", "ended"}))
  <2>1. CASE MakeThread(t)
    <3>1. ~joinable /\ logger # "reset"
      BY <2>1 DEF MakeThread, At, MetricsInv, ThreadOwned
    <3>2. logger' \in {"sleep", "ended"} /\ UNCHANGED <<buffers, records, logged>>
      BY <2>1 DEF MakeThread, At, Asleep
    <3> QED
      BY <3>1, <3>2
  <2>2. CASE StartLogging(t) \/ StopLogging(t)
    BY <2>2 DEF StartLogging, StopLogging, At
  <2>3. CASE ClearStop(t) \/ SetStop(t) \/ JoinThread(t)
    BY <2>3 DEF ClearStop, SetStop, JoinThread, At
  <2>4. CASE SetInactive(t) \/ ForgetThread(t)
    BY <2>4 DEF SetInactive, ForgetThread, At
  <2> QED
    BY <2>1, <2>2, <2>3, <2>4 DEF Continue
<1>2. CountedOnce'
  BY <1>1 DEF MetricsInv, CountedOnce, Buffered
<1>3. PICK pc \in {"none", "clear", "thread", "stop", "join", "inactive", "forget"} : call' = [call EXCEPT ![t] = pc]
  BY DEF StartLogging, StopLogging, Continue, ClearStop, MakeThread, SetStop, JoinThread, SetInactive, ForgetThread
<1>4. /\ call \in [Starter -> {"none", "clear", "thread", "stop", "join", "inactive", "forget"}]
      /\ call' \in [Starter -> {"none", "clear", "thread", "stop", "join", "inactive", "forget"}]
      /\ call'[t] = pc /\ \A u \in Starter \ {t} : call'[u] = call[u]
  BY <1>3 DEF MetricsInv, MetricsTypes
<1>5. {loggingActive, stopLogging, joinable, terminated}' \subseteq BOOLEAN
  BY DEF MetricsInv, MetricsTypes, StartLogging, StopLogging, Continue, ClearStop, MakeThread, SetStop, JoinThread,
     SetInactive, ForgetThread
<1>6. MetricsTypes'
  BY <1>1, <1>4, <1>5 DEF MetricsInv, MetricsTypes
\* No other call is under way.
<1>7. \A u \in Starter \ {t} : call[u] = "none"
  <2>1. CASE StartLogging(t) \/ StopLogging(t)
    BY <2>1 DEF StartLogging, StopLogging, Calls
  <2>2. CASE Continue(t)
    <3>1. call[t] # "none"
      BY <2>2 DEF Continue, ClearStop, MakeThread, SetStop, JoinThread, SetInactive, ForgetThread, At
    <3> QED
      BY <3>1 DEF MetricsInv, ThreadOwned
  <2> QED
    BY <2>1, <2>2
<1>8. ThreadOwned'
  <2> SUFFICES /\ ~terminated' /\ (logger' \in {"sleep", "report", "reset"} => joinable')
               /\ pc = "none" => (joinable' <=> loggingActive')
               /\ pc \in {"clear", "thread"} => ~joinable' /\ loggingActive'
               /\ pc = "stop" => joinable' /\ loggingActive'
               /\ pc = "inactive" => ~joinable'
               /\ pc = "forget" => ~joinable' /\ ~loggingActive'
    BY <1>4, <1>7 DEF ThreadOwned
  <2>0. ThreadOwned /\ {loggingActive, stopLogging, joinable, terminated} \subseteq BOOLEAN
    BY DEF MetricsInv, MetricsTypes
  <2>1. CASE StartLogging(t)
    BY <1>4, <1>7, <2>0, <2>1 DEF StartLogging, At, ThreadOwned
  <2>2. CASE StopLogging(t)
    BY <1>4, <1>7, <2>0, <2>2 DEF StopLogging, At, ThreadOwned
  <2>3. CASE ClearStop(t)
    BY <1>4, <2>0, <2>3 DEF ClearStop, At, ThreadOwned
  <2>4. CASE MakeThread(t)
    BY <1>4, <2>0, <2>4 DEF MakeThread, At, ThreadOwned
  <2>5. CASE SetStop(t)
    BY <1>4, <2>0, <2>5 DEF SetStop, At, ThreadOwned
  <2>6. CASE JoinThread(t)
    BY <1>4, <2>0, <2>6 DEF JoinThread, At, ThreadOwned
  <2>7. CASE SetInactive(t)
    BY <1>4, <2>0, <2>7 DEF SetInactive, At, ThreadOwned
  <2>8. CASE ForgetThread(t)
    BY <1>4, <2>0, <2>8 DEF ForgetThread, At, ThreadOwned
  <2> QED
    BY <2>1, <2>2, <2>3, <2>4, <2>5, <2>6, <2>7, <2>8 DEF Continue
<1> QED
  BY <1>2, <1>6, <1>8 DEF MetricsInv

\* For every set of operations, of latencies and of threads that start and stop the engine one
\* at a time: no latency is counted by two reports of the log, though it is read and cleared
\* under two locks while others record, and the thread object is never given up while it runs.
THEOREM MetricsSound ==
  ASSUME ~Overlap
  PROVE  MetricsSpec => [](LoggedOnce /\ NeverTerminates)
<1>1. MetricsInit => MetricsInv
  <2> SUFFICES ASSUME MetricsInit PROVE MetricsInv
    OBVIOUS
  <2>1. DOMAIN buffers = {}
    BY DEF MetricsInit
  <2>2. MetricsTypes
    BY <2>1 DEF MetricsInit, MetricsTypes
  <2>3. CountedOnce
    BY <2>1 DEF MetricsInit, CountedOnce, Buffered
  <2>4. ThreadOwned
    BY DEF MetricsInit, ThreadOwned
  <2> QED
    BY <2>2, <2>3, <2>4 DEF MetricsInv
<1>2. MetricsInv /\ [MetricsNext]_metricsVars => MetricsInv'
  <2> SUFFICES ASSUME MetricsInv, [MetricsNext]_metricsVars PROVE MetricsInv'
    OBVIOUS
  <2>1. CASE UNCHANGED metricsVars
    BY <2>1 DEF metricsVars, MetricsInv, MetricsTypes, CountedOnce, ThreadOwned, Buffered
  <2> QED
    BY <2>1, RecordKeeps, LoggingThreadKeeps, StarterKeeps DEF MetricsNext
<1>3. MetricsInv => LoggedOnce /\ NeverTerminates
  BY DEF MetricsInv, CountedOnce, ThreadOwned, LoggedOnce, NeverTerminates
<1> QED
  BY <1>1, <1>2, <1>3, PTL DEF MetricsSpec

(* ------------------------------------ Tray ------------------------------------ *)

EngineMessage ==
  {"EngineStarting", "EngineStarted", "EngineStopping", "EngineStopped", "ConfigLoading", "ConfigLoaded", "ConfigError"}
QtTray ==
  [icon : {"disabled", "running", "loading", "error"}, enabled : BOOLEAN, checked : BOOLEAN, menu : Seq(TrayConfig),
   open : BOOLEAN]
Indicator ==
  [icon : {"disabled", "running", "error"}, enabled : BOOLEAN, checked : BOOLEAN, fresh : {TRUE}, managing : BOOLEAN]

TrayTypes ==
  /\ kind \in {"qt", "indicator"} /\ run \in {"stopped", "starting", "running", "stopping"}
  /\ on \in BOOLEAN /\ loading \in BOOLEAN /\ configs \in Seq(TrayConfig) /\ activeConfig \in 0..Len(configs)
  /\ posted \in Seq(EngineMessage) /\ qt \in QtTray /\ ind \in Indicator

\* The icon to come is the disabled one only if the engine is stopped or the tray knows that it
\* is disabled.
IconKnown(p, q, k, r) ==
  /\ p # <<>> /\ p[Len(p)] = "EngineStopped" => r = "stopped"
  /\ p = <<>> /\ k = "qt" /\ q.icon = "disabled" /\ q.enabled => r = "stopped"

\* An open menu shows the list.
MenuKnown(q, c) == q.open => q.menu = FirstOf(c, kMaxDisplayed)

TrayInv == TrayTypes /\ IconKnown(posted, qt, kind, run) /\ MenuKnown(qt, configs)

LEMMA FirstOfIs ==
  ASSUME NEW c \in Seq(TrayConfig)
  PROVE  /\ FirstOf(c, kMaxDisplayed) \in Seq(TrayConfig) /\ Len(FirstOf(c, kMaxDisplayed)) <= Len(c)
         /\ \A i \in 1..Len(FirstOf(c, kMaxDisplayed)) : FirstOf(c, kMaxDisplayed)[i] = c[i]
<1> DEFINE n == IF Len(c) < kMaxDisplayed THEN Len(c) ELSE kMaxDisplayed
           f == SubSeq(c, 1, n)
<1>1. n \in Int /\ n >= 0 /\ n <= Len(c) /\ Len(c) \in Nat /\ \A i \in 1..n : c[i] \in TrayConfig
  BY TrayAssumption
<1> HIDE DEF n
<1>2. f \in Seq(TrayConfig) /\ Len(f) = (IF 1 <= n THEN n - 1 + 1 ELSE 0) /\ \A i \in 1..n - 1 + 1 : f[i] = c[1 + i - 1]
  BY <1>1, SubSeqProperties
<1> HIDE DEF f
<1>3. Len(f) = n
  BY <1>1, <1>2
<1>4. ASSUME NEW i \in 1..Len(f) PROVE f[i] = c[i]
  <2>1. i \in 1..n - 1 + 1 /\ 1 + i - 1 = i
    BY <1>1, <1>3
  <2> QED
    BY <1>2, <2>1
<1> QED
  BY <1>1, <1>2, <1>3, <1>4 DEF FirstOf, f, n

\* A message is posted behind the others.
LEMMA PostedIs ==
  ASSUME NEW p \in Seq(EngineMessage), NEW m \in EngineMessage
  PROVE  /\ Append(p, m) \in Seq(EngineMessage) /\ Append(p, m) # <<>>
         /\ Append(p, m)[Len(Append(p, m))] = m
BY AppendProperties

LEMMA PostKeeps ==
  ASSUME TrayInv, NEW m \in EngineMessage, posted' = Append(posted, m), m = "EngineStopped" => run' = "stopped",
         run' \in {"stopped", "starting", "running", "stopping"}, loading' \in BOOLEAN,
         UNCHANGED <<kind, on, configs, activeConfig, qt, ind>>
  PROVE  TrayInv'
<1>1. posted' \in Seq(EngineMessage) /\ posted' # <<>> /\ posted'[Len(posted')] = m
  BY PostedIs DEF TrayInv, TrayTypes
<1>2. TrayTypes'
  BY <1>1 DEF TrayInv, TrayTypes
<1> QED
  BY <1>1, <1>2 DEF TrayInv, IconKnown, MenuKnown

LEMMA EngineSideKeeps ==
  ASSUME TrayInv,
         \/ EngineStart \/ EngineStarted \/ EngineStop \/ EngineStopped \/ ToggledElsewhere \/ LoadBegins
         \/ \E type \in {"ConfigLoaded", "ConfigError"} : LoadEnds(type)
  PROVE  TrayInv'
<1>0. run \in {"stopped", "starting", "running", "stopping"} /\ loading \in BOOLEAN
  BY DEF TrayInv, TrayTypes
<1>1. ASSUME NEW from, NEW to, NEW type, EngineRuns(from, to, type),
             <<to, type>> \in {<<"starting", "EngineStarting">>, <<"running", "EngineStarted">>,
                               <<"stopping", "EngineStopping">>, <<"stopped", "EngineStopped">>}
      PROVE  TrayInv'
  <2>1. /\ run' = to /\ posted' = Append(posted, type) /\ UNCHANGED <<kind, on, loading, configs, activeConfig, qt, ind>>
    BY <1>1 DEF EngineRuns
  <2>2. /\ to \in {"stopped", "starting", "running", "stopping"} /\ type \in EngineMessage
        /\ type = "EngineStopped" => to = "stopped"
    BY <1>1 DEF EngineMessage
  <2> QED
    BY <1>0, <2>1, <2>2, PostKeeps
<1>2. CASE EngineStart \/ EngineStarted \/ EngineStop \/ EngineStopped
  BY <1>1, <1>2 DEF EngineStart, EngineStarted, EngineStop, EngineStopped
<1>3. CASE ToggledElsewhere
  BY <1>3 DEF ToggledElsewhere, TrayInv, TrayTypes, IconKnown, MenuKnown
<1>4. CASE LoadBegins
  <2>1. "ConfigLoading" \in EngineMessage
    BY DEF EngineMessage
  <2> QED
    BY <1>0, <1>4, <2>1, PostKeeps DEF LoadBegins
<1>5. ASSUME NEW type \in {"ConfigLoaded", "ConfigError"}, LoadEnds(type) PROVE TrayInv'
  <2>1. type \in EngineMessage /\ type # "EngineStopped"
    BY DEF EngineMessage
  <2> QED
    BY <1>0, <1>5, <2>1, PostKeeps DEF LoadEnds
<1> QED
  BY <1>2, <1>3, <1>4, <1>5

LEMMA QtMessageIs ==
  ASSUME NEW q \in QtTray, NEW m \in EngineMessage, on \in BOOLEAN
  PROVE  /\ QtMessage(q, m) \in QtTray /\ QtMessage(q, m).menu = q.menu /\ QtMessage(q, m).open = q.open
         /\ QtMessage(q, m).icon = "disabled" => m = "EngineStopped"
<1> DEFINE known == IF m \in {"EngineStarted", "EngineStopped", "ConfigLoaded"} THEN on ELSE q.enabled
<1>1. known \in BOOLEAN
  BY DEF QtTray
<1>2. QtIcon(m, q.icon) \in {"disabled", "running", "loading", "error"} /\ (QtIcon(m, q.icon) = "disabled" => m = "EngineStopped")
  BY DEF QtIcon, EngineMessage, Busy, Fault
<1>3. QtMessage(q, m) = [q EXCEPT !.icon = QtIcon(m, q.icon), !.enabled = known, !.checked = known]
  BY DEF QtMessage
<1> HIDE DEF known
<1> QED
  BY <1>1, <1>2, <1>3 DEF QtTray

LEMMA IndicatorMessageIs ==
  ASSUME NEW i \in Indicator, NEW m \in EngineMessage
  PROVE  IndicatorMessage(i, m) \in Indicator
<1> DEFINE enabled(b) == [i EXCEPT !.enabled = b, !.icon = IF b THEN "running" ELSE "disabled"]
<1>1. \A b \in BOOLEAN : enabled(b) \in Indicator
  BY DEF Indicator
<1>2. ASSUME NEW j \in Indicator PROVE RebuildGtk(j) \in Indicator /\ PopulateIndicator(j) \in Indicator
  BY DEF RebuildGtk, PopulateIndicator, Indicator
<1>3. ASSUME NEW j \in Indicator, NEW b \in BOOLEAN PROVE [j EXCEPT !.checked = b] \in Indicator
  BY DEF Indicator
<1>4. [i EXCEPT !.icon = "error"] \in Indicator
  BY DEF Indicator
<1> DEFINE r == CASE m = "EngineStarting" -> enabled(FALSE)
               [] m = "EngineStarted" -> [enabled(TRUE) EXCEPT !.checked = TRUE]
               [] m = "EngineStopped" -> [enabled(FALSE) EXCEPT !.checked = FALSE]
               [] m = "ConfigLoaded" -> PopulateIndicator(i)
               [] m \in Fault -> [i EXCEPT !.icon = "error"]
               [] m \in {"EngineStopping", "ConfigLoading"} -> i
<1>5. enabled(FALSE) \in Indicator /\ [enabled(TRUE) EXCEPT !.checked = TRUE] \in Indicator
      /\ [enabled(FALSE) EXCEPT !.checked = FALSE] \in Indicator /\ PopulateIndicator(i) \in Indicator
  <2> HIDE DEF enabled
  <2> QED
    BY <1>1, <1>2, <1>3
<1>6. r \in Indicator
  <2> HIDE DEF enabled
  <2> QED
    BY <1>4, <1>5 DEF EngineMessage, Fault
<1>7. IndicatorMessage(i, m) = RebuildGtk(r)
  BY DEF IndicatorMessage
<1> HIDE DEF r
<1> QED
  BY <1>2, <1>6, <1>7

LEMMA DeliverKeeps ==
  ASSUME TrayInv, Deliver
  PROVE  TrayInv'
<1> DEFINE m == Head(posted)
<1>1. UNCHANGED <<kind, run, on, loading, configs, activeConfig>> /\ posted # <<>> /\ posted' = Tail(posted)
  BY DEF Deliver, engineSide
<1>2. posted \in Seq(EngineMessage) /\ qt \in QtTray /\ ind \in Indicator /\ on \in BOOLEAN /\ kind \in {"qt", "indicator"}
  BY DEF TrayInv, TrayTypes
<1>3. /\ m \in EngineMessage /\ posted' \in Seq(EngineMessage) /\ Len(posted') = Len(posted) - 1 /\ m = posted[1]
      /\ \A i \in 1..Len(posted') : posted'[i] = posted[i + 1]
  BY <1>1, <1>2, HeadTailProperties
<1>4. qt' = (IF kind = "qt" THEN QtMessage(qt, m) ELSE qt) /\ ind' = (IF kind = "indicator" THEN IndicatorMessage(ind, m) ELSE ind)
  BY DEF Deliver
<1> HIDE DEF m
<1>5. /\ qt' \in QtTray /\ qt'.menu = qt.menu /\ qt'.open = qt.open
      /\ kind = "qt" /\ qt'.icon = "disabled" => m = "EngineStopped"
  BY <1>2, <1>3, <1>4, QtMessageIs
<1>6. ind' \in Indicator
  BY <1>2, <1>3, <1>4, IndicatorMessageIs
<1>7. TrayTypes'
  BY <1>1, <1>3, <1>5, <1>6 DEF TrayInv, TrayTypes
<1>8. IconKnown(posted', qt', kind', run')
  <2>1. Len(posted) \in Nat /\ Len(posted') \in Nat
    BY <1>2, <1>3
  <2>2. CASE posted' # <<>>
    <3>1. Len(posted') # 0
      BY <1>3, <2>2, EmptySeq
    <3>2. posted'[Len(posted')] = posted[Len(posted)]
      <4>1. Len(posted') \in 1..Len(posted') /\ Len(posted') + 1 = Len(posted)
        BY <1>3, <2>1, <3>1
      <4> QED
        BY <1>3, <4>1
    <3> QED
      BY <1>1, <2>2, <3>2 DEF TrayInv, IconKnown
  <2>3. CASE posted' = <<>>
    <3>1. Len(posted') = 0
      BY <2>3
    <3>2. Len(posted) = 1
      BY <1>3, <2>1, <3>1
    <3>3. posted[Len(posted)] = m
      BY <1>3, <3>2
    <3> QED
      BY <1>1, <1>5, <2>3, <3>3 DEF TrayInv, IconKnown
  <2> QED
    BY <2>2, <2>3
<1>9. MenuKnown(qt', configs')
  BY <1>1, <1>5 DEF TrayInv, MenuKnown
<1> QED
  BY <1>7, <1>8, <1>9 DEF TrayInv

LEMMA QtUserKeeps ==
  ASSUME TrayInv, QtToggle \/ QtMenu \/ \E i \in 1..Len(qt.menu) : QtSwitch(i)
  PROVE  TrayInv'
<1>0. /\ qt \in QtTray /\ on \in BOOLEAN /\ configs \in Seq(TrayConfig) /\ Len(configs) \in Nat
      /\ activeConfig \in 0..Len(configs)
  BY DEF TrayInv, TrayTypes
<1>1. CASE QtToggle
  <2> DEFINE q == [qt EXCEPT !.enabled = ~on, !.checked = ~on, !.icon = IF on THEN "disabled" ELSE "running", !.open = FALSE]
  <2>1. q \in QtTray /\ q.open = FALSE /\ (q.icon = "disabled" => ~q.enabled)
    BY <1>0 DEF QtTray
  <2>2. /\ UNCHANGED <<kind, run, loading, configs, activeConfig, posted, ind>> /\ qt' = q /\ on' \in BOOLEAN
    BY <1>1 DEF QtToggle
  <2> HIDE DEF q
  <2> QED
    BY <2>1, <2>2 DEF TrayInv, TrayTypes, IconKnown, MenuKnown
<1>2. CASE QtMenu
  <2> DEFINE q == [qt EXCEPT !.open = TRUE, !.menu = FirstOf(configs, kMaxDisplayed)]
  <2>1. FirstOf(configs, kMaxDisplayed) \in Seq(TrayConfig)
    BY <1>0, FirstOfIs
  <2>2. /\ q \in QtTray /\ q.menu = FirstOf(configs, kMaxDisplayed) /\ q.icon = qt.icon /\ q.enabled = qt.enabled
    BY <1>0, <2>1 DEF QtTray
  <2>3. /\ UNCHANGED <<kind, run, on, loading, configs, activeConfig, posted, ind>> /\ qt' = q
    BY <1>2 DEF QtMenu, engineSide
  <2> HIDE DEF q
  <2> QED
    BY <2>2, <2>3 DEF TrayInv, TrayTypes, IconKnown, MenuKnown
<1>3. ASSUME NEW i \in 1..Len(qt.menu), QtSwitch(i) PROVE TrayInv'
  <2> DEFINE q == [qt EXCEPT !.open = FALSE]
  <2>1. /\ q \in QtTray /\ q.icon = qt.icon /\ q.enabled = qt.enabled /\ q.open = FALSE
    BY <1>0 DEF QtTray
  <2>2. /\ UNCHANGED <<kind, run, on, loading, configs, posted, ind>> /\ qt' = q
        /\ activeConfig' = IF i <= Len(configs) THEN i ELSE activeConfig
    BY <1>3 DEF QtSwitch, engineSide
  <2>3. activeConfig' \in 0..Len(configs)
    BY <1>0, <2>2
  <2> HIDE DEF q
  <2> QED
    BY <2>1, <2>2, <2>3 DEF TrayInv, TrayTypes, IconKnown, MenuKnown
<1> QED
  BY <1>1, <1>2, <1>3

LEMMA ReloadKeeps ==
  ASSUME TrayInv, Reload
  PROVE  TrayInv'
<1>1. PICK type \in {"ConfigLoaded", "ConfigError"} : posted' = posted \o <<"ConfigLoading", type>>
  BY DEF Reload
<1> DEFINE ms == <<"ConfigLoading", type>>
<1>2. UNCHANGED <<kind, run, on, loading, configs, activeConfig, qt, ind>>
  BY DEF Reload, engineSide
<1>3. posted \in Seq(EngineMessage)
  BY DEF TrayInv, TrayTypes
<1>4. ms \in Seq(EngineMessage) /\ Len(ms) = 2 /\ ms[2] = type /\ type # "EngineStopped"
  BY DEF EngineMessage
<1>5. posted' = posted \o ms
  BY <1>1
<1> HIDE DEF ms
<1>6. /\ posted \o ms \in Seq(EngineMessage) /\ Len(posted \o ms) = Len(posted) + Len(ms)
      /\ \A i \in 1..Len(posted) + Len(ms) :
           (posted \o ms)[i] = IF i <= Len(posted) THEN posted[i] ELSE ms[i - Len(posted)]
  BY <1>3, <1>4, ConcatProperties, Zenon
<1>7. Len(posted) \in Nat
  BY <1>3
<1>8. /\ posted' \in Seq(EngineMessage) /\ Len(posted') = Len(posted) + 2 /\ Len(posted) \in Nat
      /\ \A i \in 1..Len(posted) + 2 : posted'[i] = IF i <= Len(posted) THEN posted[i] ELSE ms[i - Len(posted)]
  BY <1>6, <1>7, <1>4, <1>5, Zenon
<1>9. posted'[Len(posted')] = type /\ posted' # <<>>
  <2>1. Len(posted') \in 1..Len(posted) + 2 /\ ~(Len(posted') <= Len(posted)) /\ Len(posted') - Len(posted) = 2
    BY <1>8
  <2>2. Len(<<>>) = 0 /\ Len(posted') # 0
    BY <1>8
  <2> QED
    BY <1>4, <1>8, <2>1, <2>2
<1>10. TrayTypes'
  BY <1>2, <1>8 DEF TrayInv, TrayTypes
<1> QED
  BY <1>2, <1>4, <1>9, <1>10 DEF TrayInv, IconKnown, MenuKnown

LEMMA IndicatorUserKeeps ==
  ASSUME TrayInv, IndicatorMenu
  PROVE  TrayInv'
<1>0. ind \in Indicator /\ on \in BOOLEAN
  BY DEF TrayInv, TrayTypes
<1>1. CASE IndicatorToggle
  <2> DEFINE i == [ind EXCEPT !.enabled = ~ind.enabled, !.checked = ~ind.checked,
                              !.icon = IF ind.enabled THEN "disabled" ELSE "running"]
  <2>1. (~ind.enabled) \in BOOLEAN /\ (~ind.checked) \in BOOLEAN
    BY Zenon
  <2>2. i \in Indicator
    <3> DEFINE e == ~ind.enabled
               c == ~ind.checked
               f == IF ind.enabled THEN "disabled" ELSE "running"
    <3>1. e \in BOOLEAN /\ c \in BOOLEAN /\ f \in {"disabled", "running", "error"}
      BY <2>1
    <3> HIDE DEF e, c, f
    <3>2. [ind EXCEPT !.enabled = e, !.checked = c, !.icon = f] \in Indicator
      BY <1>0, <3>1 DEF Indicator
    <3> QED
      BY <3>2 DEF e, c, f
  <2>3. ind' = i /\ on' = ~ind.enabled /\ UNCHANGED <<kind, run, loading, configs, activeConfig, posted, qt>>
    BY <1>1 DEF IndicatorToggle
  <2> HIDE DEF i
  <2>4. on' \in BOOLEAN
    BY <2>1, <2>3, Zenon
  <2> QED
    BY <2>2, <2>3, <2>4 DEF TrayInv, TrayTypes
<1>2. CASE ManageBegins
  <2>1. ind' \in Indicator
    BY <1>0, <1>2 DEF ManageBegins, Indicator
  <2>2. UNCHANGED <<kind, run, on, loading, configs, activeConfig, posted, qt>>
    BY <1>2 DEF ManageBegins, engineSide
  <2> QED
    BY <2>1, <2>2 DEF TrayInv, TrayTypes
<1>3. CASE ManageEnds
  <2>1. ind' \in Indicator
    BY <1>0, <1>3 DEF ManageEnds, PopulateIndicator, RebuildGtk, Indicator
  <2>2. UNCHANGED <<kind, run, on, loading, configs, activeConfig, posted, qt>>
    BY <1>3 DEF ManageEnds, engineSide
  <2> QED
    BY <2>1, <2>2 DEF TrayInv, TrayTypes
<1> QED
  BY <1>1, <1>2, <1>3 DEF IndicatorMenu

LEMMA ListKeeps ==
  ASSUME TrayInv, ~ChangesWhileOpen,
         (\E missing \in SUBSET TrayConfig : QuickSwitch(missing)) \/ (\E c \in TrayConfig : ConfigAdded(c)) \/ \E i \in 1..Len(configs) : ConfigRemoved(i)
  PROVE  TrayInv'
<1>0. configs \in Seq(TrayConfig) /\ Len(configs) \in Nat /\ activeConfig \in 0..Len(configs)
  BY DEF TrayInv, TrayTypes
<1>1. ASSUME NEW missing \in SUBSET TrayConfig, QuickSwitch(missing) PROVE TrayInv'
  <2> DEFINE n == Len(configs)
             After(k) == ((activeConfig + k - 1) % n) + 1
             there == {k \in 1..n : configs[After(k)] \notin missing}
             next == CHOOSE k \in there : \A l \in there : k <= l
  <2>1. /\ UNCHANGED <<kind, run, on, loading, configs, posted, qt, ind>>
        /\ activeConfig' = IF n = 1 THEN 1 ELSE IF there = {} THEN activeConfig ELSE After(next)
    BY <1>1 DEF QuickSwitch, engineSide
  <2>2. n \in Nat /\ n # 0 /\ activeConfig \in 0..n
    BY <1>0, <1>1, EmptySeq DEF QuickSwitch
  <2>3. there # {} => next \in 1..n
    <3> SUFFICES ASSUME there # {} PROVE \E k \in there : \A l \in there : k <= l
      OBVIOUS
    <3>1. there \subseteq Nat
      BY <2>2
    <3> HIDE DEF there
    <3> QED
      BY <3>1, LeastElement
  <2>4. ASSUME NEW k \in 1..n PROVE After(k) \in 1..n
    <3>1. activeConfig + k - 1 \in Nat
      BY <2>2
    <3>2. (activeConfig + k - 1) % n \in 0..n - 1
      BY <2>2, <3>1
    <3> QED
      BY <2>2, <3>2
  <2>5. activeConfig' \in 0..Len(configs)
    <3> HIDE DEF n, After, there, next
    <3> QED
      BY <2>1, <2>2, <2>3, <2>4 DEF n
  <2> QED
    BY <2>1, <2>5 DEF TrayInv, TrayTypes
<1>2. ASSUME NEW c \in TrayConfig, ConfigAdded(c) PROVE TrayInv'
  <2>1. UNCHANGED <<kind, run, on, loading, activeConfig, posted, qt, ind>> /\ configs' = Append(configs, c) /\ ~qt.open
    BY <1>2 DEF ConfigAdded, engineSide
  <2>2. configs' \in Seq(TrayConfig) /\ Len(configs') = Len(configs) + 1
    BY <1>0, <2>1
  <2>3. activeConfig' \in 0..Len(configs')
    BY <1>0, <2>1, <2>2
  <2> QED
    BY <2>1, <2>2, <2>3 DEF TrayInv, TrayTypes, MenuKnown
<1>3. ASSUME NEW i \in 1..Len(configs), ConfigRemoved(i) PROVE TrayInv'
  <2> DEFINE a == SubSeq(configs, 1, i - 1)
             b == SubSeq(configs, i + 1, Len(configs))
  <2>1. /\ UNCHANGED <<kind, run, on, loading, posted, qt, ind>> /\ configs' = a \o b /\ ~qt.open /\ i # activeConfig
        /\ activeConfig' = IF i < activeConfig THEN activeConfig - 1 ELSE activeConfig
    BY <1>3 DEF ConfigRemoved, engineSide
  <2>2. a \in Seq(TrayConfig) /\ Len(a) = i - 1
    BY <1>0, SubSeqProperties
  <2>3. b \in Seq(TrayConfig) /\ Len(b) = Len(configs) - i
    BY <1>0, SubSeqProperties
  <2> HIDE DEF a, b
  <2>4. configs' \in Seq(TrayConfig) /\ Len(configs') = Len(a) + Len(b)
    BY <2>1, <2>2, <2>3, ConcatProperties
  <2>5. Len(configs') = Len(configs) - 1
    BY <1>0, <2>2, <2>3, <2>4
  <2>6. activeConfig' \in 0..Len(configs')
    BY <1>0, <2>1, <2>5
  <2> QED
    BY <2>1, <2>4, <2>6 DEF TrayInv, TrayTypes, MenuKnown
<1> QED
  BY <1>1, <1>2, <1>3

\* For every set of configurations and every number of operations of the engine's threads and of
\* the user: once every message is handled, a running engine that is enabled does not have the
\* disabled icon, the GTK menu refers to no deleted action, and a click in the Qt menu makes the
\* configuration it showed the active one, if the list does not change while the menu is open.
THEOREM TrayIsSafe ==
  ASSUME ~ChangesWhileOpen
  PROVE  TraySpec => TraySafe
<1>1. TrayInit => TrayInv
  <2> SUFFICES ASSUME TrayInit PROVE TrayInv
    OBVIOUS
  <2>1. configs \in Seq(TrayConfig)
    <3>1. PICK n \in 0..2 : configs \in [1..n -> TrayConfig]
      BY DEF TrayInit
    <3> QED
      BY <3>1
  <2>2. FirstOf(configs, kMaxDisplayed) \in Seq(TrayConfig)
    BY <2>1, FirstOfIs
  <2>3. qt \in QtTray /\ qt.open = FALSE
    BY <2>2 DEF TrayInit, QtTray
  <2>4. ind \in Indicator
    BY DEF TrayInit, Indicator
  <2>5. /\ kind \in {"qt", "indicator"} /\ run = "stopped" /\ on = TRUE /\ loading = FALSE
        /\ activeConfig \in 0..Len(configs) /\ posted = <<>>
    BY DEF TrayInit
  <2>6. posted \in Seq(EngineMessage)
    BY <2>5
  <2>7. TrayTypes /\ posted = <<>> /\ run = "stopped"
    BY <2>1, <2>3, <2>4, <2>5, <2>6 DEF TrayTypes
  <2> QED
    BY <2>3, <2>7 DEF TrayInv, IconKnown, MenuKnown
<1>2. TrayInv /\ [TrayNext]_trayVars => TrayInv'
  <2> SUFFICES ASSUME TrayInv, [TrayNext]_trayVars PROVE TrayInv'
    OBVIOUS
  <2>1. CASE UNCHANGED trayVars
    BY <2>1 DEF trayVars, TrayInv, TrayTypes
  <2>2. CASE TrayNext
    <3>1. CASE \/ EngineStart \/ EngineStarted \/ EngineStop \/ EngineStopped \/ ToggledElsewhere \/ LoadBegins
               \/ \E type \in {"ConfigLoaded", "ConfigError"} : LoadEnds(type)
      BY <3>1, EngineSideKeeps
    <3>2. CASE Deliver
      BY <3>2, DeliverKeeps
    <3>3. CASE QtToggle \/ QtMenu \/ \E i \in 1..Len(qt.menu) : QtSwitch(i)
      BY <3>3, QtUserKeeps
    <3>4. CASE Reload
      BY <3>4, ReloadKeeps
    <3>5. CASE IndicatorMenu
      BY <3>5, IndicatorUserKeeps
    <3>6. CASE (\E missing \in SUBSET TrayConfig : QuickSwitch(missing)) \/ (\E c \in TrayConfig : ConfigAdded(c)) \/ \E i \in 1..Len(configs) : ConfigRemoved(i)
      BY <3>6, ListKeeps
    <3> QED
      BY <2>2, <3>1, <3>2, <3>3, <3>4, <3>5, <3>6 DEF TrayNext, TrayMenu
  <2> QED
    BY <2>1, <2>2
<1>3. TrayInv => TrayTypeOK /\ RunningShown /\ MenuAlive
  <2> SUFFICES ASSUME TrayInv PROVE TrayTypeOK /\ RunningShown /\ MenuAlive
    OBVIOUS
  <2>1. TrayTypeOK
    BY DEF TrayInv, TrayTypes, TrayTypeOK, QtTray, Indicator
  <2>2. RunningShown
    BY DEF TrayInv, IconKnown, RunningShown, Idle
  <2>3. MenuAlive
    BY DEF TrayInv, TrayTypes, Indicator, MenuAlive
  <2> QED
    BY <2>1, <2>2, <2>3
<1>4. TrayInv => \A i \in 1..Len(qt.menu) : QtSwitch(i) =>
                   <<activeConfig', qt.menu[i]>> \in {<<j, configs[j]>> : j \in DOMAIN configs}
  <2> SUFFICES ASSUME TrayInv, NEW i \in 1..Len(qt.menu), QtSwitch(i)
               PROVE  <<activeConfig', qt.menu[i]>> \in {<<j, configs[j]>> : j \in DOMAIN configs}
    OBVIOUS
  <2>1. configs \in Seq(TrayConfig) /\ Len(configs) \in Nat /\ DOMAIN configs = 1..Len(configs)
    BY DEF TrayInv, TrayTypes
  <2>2. qt.menu = FirstOf(configs, kMaxDisplayed)
    BY DEF TrayInv, MenuKnown, QtSwitch
  <2>3. /\ Len(qt.menu) <= Len(configs) /\ Len(qt.menu) \in Nat /\ qt.menu[i] = configs[i]
    BY <2>1, <2>2, FirstOfIs
  <2>4. i \in 1..Len(configs)
    BY <2>1, <2>3
  <2>5. activeConfig' = i
    BY <2>4 DEF QtSwitch
  <2> QED
    BY <2>1, <2>3, <2>4, <2>5
<1> QED
  BY <1>1, <1>2, <1>3, <1>4, PTL DEF TraySpec, TraySafe, ClickMeant

(* -------------------------------- Crash reports -------------------------------- *)

Line == [n : Nat, part : 1..Parts]
Second == 1..MaxCrashes + 1

CrashTypes ==
  /\ up \in BOOLEAN /\ handler \in [Sig -> BOOLEAN] /\ at \in [CThread -> 0..Parts + 1]
  /\ mine \in [CThread -> [n : Nat, second : Second]] /\ reports \in [Second -> Seq(Line)]
  /\ now \in Second /\ crashes \in Nat /\ life \subseteq 1..crashes
  /\ listing \in [open : BOOLEAN, listed : SUBSET Second, current : Second \cup {0}]
  /\ viewer \in Second \cup {0} /\ dontShow \in BOOLEAN

\* The first k parts of crash n's report, unless it was deleted.
Written(r, n, k) == r = <<>> \/ (Len(r) = k /\ \A i \in 1..k : r[i] = [n |-> n, part |-> i])

\* Thread t alone is in the handler, with crash n.
Writes(t, n) ==
  /\ at[t] # 0 /\ mine[t] = [n |-> n, second |-> now] /\ \A u \in CThread \ {t} : at[u] = 0
  /\ at[t] > 1 => Written(reports[now], n, at[t] - 1)

\* A process without a crash handles every signal; one with a single crash writes its report
\* to the end.
CrashKnown ==
  /\ ~up => \A t \in CThread : at[t] = 0
  /\ up /\ life = {} => (\A t \in CThread : at[t] = 0) /\ \A s \in Sig : handler[s]
  /\ \A n \in Nat : life = {n} => IF up THEN \E t \in CThread : Writes(t, n) ELSE Written(reports[now], n, Parts)

CrashInv == CrashTypes /\ CrashKnown

LEMMA SecondIs == MaxCrashes \in Nat /\ 1 \in Second /\ 0 \notin Second
BY CrashAssumption DEF Second

LEMMA SignalKeeps ==
  ASSUME CrashInv, NEW t \in CThread, NEW s \in Sig, Signal(t, s)
  PROVE  CrashInv'
<1>1. UNCHANGED <<reports, now, listing, viewer, dontShow>> /\ up /\ life' = life \cup {crashes + 1} /\ crashes' = crashes + 1
  BY DEF Signal
<1>2. life \subseteq 1..crashes /\ crashes \in Nat /\ crashes + 1 \notin life
  BY DEF CrashInv, CrashTypes
<1>3. life' \subseteq 1..crashes' /\ crashes' \in Nat
  BY <1>1, <1>2
<1>4. CASE handler[s]
  <2> DEFINE m == [n |-> crashes + 1, second |-> now]
  <2>1. /\ handler' = [handler EXCEPT ![s] = FALSE] /\ at' = [at EXCEPT ![t] = 1] /\ up' = up
        /\ mine' = [mine EXCEPT ![t] = m]
    BY <1>4 DEF Signal
  <2>2. m \in [n : Nat, second : Second]
    BY <1>2 DEF CrashInv, CrashTypes
  <2> HIDE DEF m
  <2>3. /\ at' \in [CThread -> 0..Parts + 1] /\ at'[t] = 1 /\ \A u \in CThread \ {t} : at'[u] = at[u]
    BY <2>1 DEF CrashInv, CrashTypes, Parts
  <2>4. handler' \in [Sig -> BOOLEAN] /\ mine' \in [CThread -> [n : Nat, second : Second]] /\ mine'[t] = m
    BY <2>1, <2>2 DEF CrashInv, CrashTypes
  <2>5. CrashTypes'
    BY <1>1, <1>3, <2>1, <2>3, <2>4 DEF CrashInv, CrashTypes
  <2>6. ASSUME NEW n \in Nat, life' = {n} PROVE Writes(t, n)'
    <3>1. life = {} /\ n = crashes + 1
      BY <1>1, <1>2, <2>6
    <3>2. \A u \in CThread : at[u] = 0
      BY <1>1, <3>1 DEF CrashInv, CrashKnown
    <3>3. \A u \in CThread \ {t} : at'[u] = 0
      BY <2>3, <3>2
    <3>4. at'[t] # 0 /\ ~(at'[t] > 1)
      BY <2>3
    <3> QED
      BY <1>1, <2>4, <3>1, <3>3, <3>4 DEF Writes, m
  <2>7. life' # {} /\ up'
    BY <1>1, <2>1
  <2> QED
    BY <2>5, <2>6, <2>7 DEF CrashInv, CrashKnown
<1>5. CASE ~handler[s]
  <2>1. up' = FALSE /\ at' = [u \in CThread |-> 0] /\ UNCHANGED <<handler, mine>>
    BY <1>5 DEF Signal, Dies
  <2>2. CrashTypes'
    <3>1. at' \in [CThread -> 0..Parts + 1]
      BY <2>1 DEF Parts
    <3> QED
      BY <1>1, <1>3, <2>1, <3>1 DEF CrashInv, CrashTypes
  <2>3. life # {}
    BY <1>1, <1>5 DEF CrashInv, CrashKnown
  <2>4. \A n : life' # {n}
    BY <1>1, <1>2, <2>3
  <2> QED
    BY <2>1, <2>2, <2>4 DEF CrashInv, CrashKnown
<1> QED
  BY <1>4, <1>5

LEMMA WriteReportKeeps ==
  ASSUME CrashInv, NEW t \in CThread, WriteReport(t)
  PROVE  CrashInv'
<1> DEFINE k == mine[t].second
           line == [n |-> mine[t].n, part |-> at[t]]
           r == IF at[t] = 1 THEN <<line>> ELSE IF reports[k] = <<>> THEN reports[k] ELSE Append(reports[k], line)
<1>1. UNCHANGED <<up, handler, mine, now, crashes, life, listing, viewer, dontShow>> /\ up /\ at[t] \in 1..Parts
  BY DEF WriteReport
<1>2. at' = [at EXCEPT ![t] = at[t] + 1] /\ reports' = [reports EXCEPT ![k] = r]
  BY DEF WriteReport
<1>3. /\ mine[t] \in [n : Nat, second : Second] /\ k \in Second /\ at \in [CThread -> 0..Parts + 1]
      /\ reports \in [Second -> Seq(Line)] /\ reports[k] \in Seq(Line)
  BY DEF CrashInv, CrashTypes
<1>4. line \in Line
  BY <1>1, <1>3 DEF Line
<1>5. r \in Seq(Line)
  <2>1. <<line>> \in Seq(Line) /\ Append(reports[k], line) \in Seq(Line)
    BY <1>3, <1>4
  <2> HIDE DEF k, line
  <2> QED
    BY <1>3, <2>1
<1> HIDE DEF k, r
<1>6. /\ at' \in [CThread -> 0..Parts + 1] /\ at'[t] = at[t] + 1 /\ \A u \in CThread \ {t} : at'[u] = at[u]
  <2>1. at[t] + 1 \in 0..Parts + 1
    BY <1>1 DEF Parts
  <2> QED
    BY <1>2, <1>3, <2>1
<1>7. reports' \in [Second -> Seq(Line)] /\ reports'[k] = r
  BY <1>2, <1>3, <1>5
<1>8. CrashTypes'
  BY <1>1, <1>6, <1>7 DEF CrashInv, CrashTypes
<1>9. ASSUME NEW n \in Nat, life' = {n} PROVE Writes(t, n)'
  <2>1. PICK u \in CThread : Writes(u, n)
    BY <1>1, <1>9 DEF CrashInv, CrashKnown
  <2>2. u = t /\ mine[t] = [n |-> n, second |-> now] /\ \A v \in CThread \ {t} : at[v] = 0
    BY <1>1, <2>1 DEF Writes, Parts
  <2>3. k = now /\ line = [n |-> n, part |-> at[t]]
    BY <2>2 DEF k
  <2>4. Written(r, n, at[t])
    <3>1. CASE at[t] = 1
      <4>1. r = <<line>>
        BY <3>1 DEF r
      <4>2. Len(<<line>>) = 1 /\ <<line>>[1] = line
        OBVIOUS
      <4> HIDE DEF line
      <4> QED
        BY <2>3, <3>1, <4>1, <4>2 DEF Written
    <3>2. CASE at[t] # 1 /\ reports[k] = <<>>
      BY <3>2 DEF r, Written
    <3>3. CASE at[t] # 1 /\ reports[k] # <<>>
      <4>1. at[t] > 1 /\ at[t] \in Nat /\ at[t] - 1 \in Nat
        BY <1>1, <3>3 DEF Parts
      <4>2. Len(reports[k]) = at[t] - 1 /\ \A i \in 1..at[t] - 1 : reports[k][i] = [n |-> n, part |-> i]
        BY <2>1, <2>2, <2>3, <3>3, <4>1 DEF Writes, Written
      <4>3. r = Append(reports[k], line)
        BY <3>3 DEF r
      <4> DEFINE q == reports[k]
                 p == at[t]
      <4> HIDE DEF line
      <4>4. /\ Len(Append(q, line)) = Len(q) + 1 /\ (\A i \in 1..Len(q) : Append(q, line)[i] = q[i])
            /\ Append(q, line)[Len(q) + 1] = line
        BY <1>3, <1>4, AppendProperties
      <4>5. r = Append(q, line) /\ Len(q) = p - 1 /\ (\A i \in 1..p - 1 : q[i] = [n |-> n, part |-> i]) /\ p \in Nat
        BY <4>1, <4>2, <4>3
      <4>6. line = [n |-> n, part |-> p]
        BY <2>3
      <4> HIDE DEF q, p
      <4>7. Len(r) = p /\ r[p] = line /\ \A i \in 1..p - 1 : r[i] = q[i]
        BY <4>4, <4>5
      <4>8. ASSUME NEW i \in 1..p PROVE r[i] = [n |-> n, part |-> i]
        <5>1. CASE i = p
          BY <4>6, <4>7, <5>1
        <5>2. CASE i # p
          <6>1. i \in 1..p - 1
            BY <4>5, <5>2
          <6> QED
            BY <4>5, <4>7, <6>1
        <5> QED
          BY <5>1, <5>2
      <4> QED
        BY <4>7, <4>8 DEF Written, p
    <3> QED
      BY <3>1, <3>2, <3>3
  <2>5. at'[t] # 0 /\ at'[t] - 1 = at[t]
    BY <1>1, <1>6 DEF Parts
  <2>6. \A v \in CThread \ {t} : at'[v] = 0
    BY <1>6, <2>2
  <2> HIDE DEF line
  <2> QED
    BY <1>1, <1>7, <2>2, <2>3, <2>4, <2>5, <2>6 DEF Writes
<1>10. life # {}
  BY <1>1 DEF CrashInv, CrashKnown, Parts
<1> QED
  BY <1>1, <1>8, <1>9, <1>10 DEF CrashInv, CrashKnown

LEMMA RaiseKeeps ==
  ASSUME CrashInv, NEW t \in CThread, Raise(t)
  PROVE  CrashInv'
<1>1. /\ UNCHANGED <<handler, mine, reports, now, crashes, life, listing, viewer, dontShow>>
      /\ up /\ at[t] = Parts + 1 /\ up' = FALSE /\ at' = [u \in CThread |-> 0]
  BY DEF Raise, Dies
<1>2. at' \in [CThread -> 0..Parts + 1]
  BY <1>1 DEF Parts
<1>3. CrashTypes'
  BY <1>1, <1>2 DEF CrashInv, CrashTypes
<1>4. ASSUME NEW n \in Nat, life' = {n} PROVE Written(reports'[now'], n, Parts)
  <2>1. PICK u \in CThread : Writes(u, n)
    BY <1>1, <1>4 DEF CrashInv, CrashKnown
  <2>2. u = t
    BY <1>1, <2>1 DEF Writes, Parts
  <2>3. at[t] > 1 /\ at[t] - 1 = Parts
    BY <1>1 DEF Parts
  <2> QED
    BY <1>1, <2>1, <2>2, <2>3 DEF Writes
<1> QED
  BY <1>1, <1>3, <1>4 DEF CrashInv, CrashKnown

LEMMA InstallKeeps ==
  ASSUME CrashInv, Install
  PROVE  CrashInv'
<1>1. /\ UNCHANGED <<at, mine, reports, crashes, listing, viewer, dontShow>> /\ ~up /\ up' = TRUE
      /\ handler' = [s \in Sig |-> TRUE] /\ life' = {}
  BY DEF Install
<1>2. now' \in Second
  BY SecondIs DEF Install, CrashInv, CrashTypes, Second
<1>3. handler' \in [Sig -> BOOLEAN] /\ \A s \in Sig : handler'[s]
  BY <1>1
<1>4. life' \subseteq 1..crashes'
  BY <1>1
<1>5. CrashTypes'
  BY <1>1, <1>2, <1>3, <1>4 DEF CrashInv, CrashTypes
<1> QED
  BY <1>1, <1>3, <1>5 DEF CrashInv, CrashKnown

\* The dialogs take reports away, or leave them.
LEMMA DialogKeeps ==
  ASSUME CrashInv, NEW ks, reports' \in {reports, Removed(reports, ks)},
         listing' \in [open : BOOLEAN, listed : SUBSET Second, current : Second \cup {0}],
         viewer' \in Second \cup {0}, dontShow' \in BOOLEAN, UNCHANGED <<processVars, now, crashes, life>>
  PROVE  CrashInv'
<1>1. UNCHANGED <<up, handler, at, mine, now, crashes, life>>
  BY DEF processVars
<1>2. reports \in [Second -> Seq(Line)] /\ now \in Second /\ <<>> \in Seq(Line)
  BY DEF CrashInv, CrashTypes
<1>3. reports' \in [Second -> Seq(Line)] /\ reports'[now] \in {reports[now], <<>>}
  <2>1. Removed(reports, ks) = [k \in Second |-> IF k \in ks THEN <<>> ELSE reports[k]]
    BY <1>2 DEF Removed
  <2> QED
    BY <1>2, <2>1
<1>4. CrashTypes'
  BY <1>1, <1>3 DEF CrashInv, CrashTypes
<1>5. ASSUME NEW n, NEW k, Written(reports[now], n, k) PROVE Written(reports'[now], n, k)
  BY <1>3, <1>5 DEF Written
<1>6. ASSUME NEW n \in Nat, NEW t \in CThread, Writes(t, n) PROVE Writes(t, n)'
  BY <1>1, <1>5, <1>6 DEF Writes
<1> QED
  BY <1>1, <1>4, <1>5, <1>6 DEF CrashInv, CrashKnown

LEMMA DialogsKeep ==
  ASSUME CrashInv,
         \/ ShowReports \/ ViewerDeletes \/ ViewerCloses \/ \E never \in BOOLEAN : ViewReport(never)
         \/ \E yes, never \in BOOLEAN : ReportBug(yes, never) \/ DismissReports(yes, never)
  PROVE  CrashInv'
<1> DEFINE Listings == [open : BOOLEAN, listed : SUBSET Second, current : Second \cup {0}]
<1>1. /\ listing \in Listings /\ viewer \in Second \cup {0} /\ dontShow \in BOOLEAN
      /\ DOMAIN reports = Second /\ CrashReportsNow \subseteq Second /\ listing.current \in Second \cup {0}
  BY DEF CrashInv, CrashTypes, CrashReportsNow
<1>2. NoListing \in Listings
  BY DEF NoListing
<1>3. CASE ShowReports
  <2>1. PICK k \in CrashReportsNow : listing' = [open |-> TRUE, listed |-> CrashReportsNow, current |-> k]
    BY <1>3 DEF ShowReports
  <2>2. listing' \in Listings
    BY <1>1, <2>1
  <2>3. UNCHANGED <<processVars, reports, now, crashes, life, viewer, dontShow>>
    BY <1>3 DEF ShowReports
  <2> HIDE DEF Listings
  <2> QED
    BY <1>1, <2>2, <2>3, DialogKeeps DEF Listings
<1>4. CASE ViewerDeletes \/ ViewerCloses
  <2>1. /\ reports' \in {reports, Removed(reports, {viewer})} /\ viewer' = 0
        /\ UNCHANGED <<processVars, now, crashes, life, listing, dontShow>>
    BY <1>4 DEF ViewerDeletes, ViewerCloses
  <2> QED
    BY <1>1, <2>1, DialogKeeps
<1>5. ASSUME NEW never \in BOOLEAN, ViewReport(never) PROVE CrashInv'
  <2>1. /\ UNCHANGED <<processVars, reports, now, crashes, life>> /\ listing' = NoListing /\ viewer' = listing.current
        /\ dontShow' = (dontShow \/ never)
    BY <1>5 DEF ViewReport
  <2>2. dontShow' \in BOOLEAN
    BY <2>1
  <2> QED
    BY <1>1, <1>2, <2>1, <2>2, DialogKeeps
<1>6. ASSUME NEW yes \in BOOLEAN, NEW never \in BOOLEAN, ReportBug(yes, never) \/ DismissReports(yes, never)
      PROVE  CrashInv'
  <2>1. /\ UNCHANGED <<processVars, now, crashes, life, viewer>> /\ listing' = NoListing
        /\ dontShow' = (dontShow \/ never)
    BY <1>6 DEF ReportBug, DismissReports
  <2>2. dontShow' \in BOOLEAN
    BY <2>1
  <2>3. \E ks : reports' \in {reports, Removed(reports, ks)}
    BY <1>6 DEF ReportBug, DismissReports
  <2> QED
    BY <1>1, <1>2, <2>1, <2>2, <2>3, DialogKeeps
<1> QED
  BY <1>3, <1>4, <1>5, <1>6

LEMMA CrashKnowsEnough == CrashInv => CrashTypeOK /\ ReportWhole
<1> SUFFICES ASSUME CrashInv PROVE CrashTypeOK /\ ReportWhole
  OBVIOUS
<1>1. CrashTypeOK
  <2>1. DOMAIN reports = Second /\ listing.listed \subseteq Second
    BY DEF CrashInv, CrashTypes
  <2>2. Second \cup {0} = 0..MaxCrashes + 1
    BY SecondIs DEF Second
  <2> QED
    BY <2>1, <2>2 DEF CrashTypeOK, CrashInv, CrashTypes
<1>2. ReportWhole
  <2> SUFFICES ASSUME ~up, Cardinality(life) = 1, reports[now] # <<>> PROVE Whole(reports[now])
    BY DEF ReportWhole
  <2>1. life \subseteq 1..crashes /\ crashes \in Nat
    BY DEF CrashInv, CrashTypes
  <2>2. IsFiniteSet(life)
    <3>1. 1 \in Int /\ crashes \in Int
      BY <2>1
    <3>2. IsFiniteSet(1..crashes)
      BY <3>1, FS_Interval
    <3> QED
      BY <2>1, <3>2, FS_Subset
  <2>3. PICK n : life = {n}
    BY <2>2, FS_Singleton
  <2>4. n \in Nat
    BY <2>1, <2>3
  <2>5. Len(reports[now]) = Parts /\ \A i \in 1..Parts : reports[now][i] = [n |-> n, part |-> i]
    BY <2>3, <2>4 DEF CrashInv, CrashKnown, Written
  <2>6. reports[now][1].n = n
    BY <2>5 DEF Parts
  <2> QED
    BY <2>5, <2>6 DEF Whole
<1> QED
  BY <1>1, <1>2

\* For every number of threads, of signals and of crashes, at any point of writing a report and of
\* its dialogs: a process that died of one crash leaves the whole report, until it is deleted, and
\* reporting a bug, or the viewer, deletes no report but the one that is shown.
THEOREM CrashesAreReported == CrashSpec => CrashSafe
<1>1. CrashInit => CrashInv
  <2> SUFFICES ASSUME CrashInit PROVE CrashInv
    OBVIOUS
  <2>1. now = 1 /\ now \in Second /\ viewer \in Second \cup {0} /\ <<>> \in Seq(Line)
    BY SecondIs DEF CrashInit
  <2>2. at \in [CThread -> 0..Parts + 1] /\ handler \in [Sig -> BOOLEAN]
    BY DEF CrashInit, Parts
  <2>3. mine \in [CThread -> [n : Nat, second : Second]]
    <3>1. [n |-> 0, second |-> 1] \in [n : Nat, second : Second]
      BY SecondIs
    <3> QED
      BY <3>1 DEF CrashInit
  <2>4. reports \in [Second -> Seq(Line)]
    BY <2>1 DEF CrashInit, Second
  <2>5. listing \in [open : BOOLEAN, listed : SUBSET Second, current : Second \cup {0}]
    BY DEF CrashInit, NoListing
  <2>6. CrashTypes
    BY <2>1, <2>2, <2>3, <2>4, <2>5 DEF CrashInit, CrashTypes
  <2>7. CrashKnown
    BY DEF CrashInit, CrashKnown
  <2> QED
    BY <2>6, <2>7 DEF CrashInv
<1>2. CrashInv /\ [CrashNext]_crashVars => CrashInv'
  <2> SUFFICES ASSUME CrashInv, [CrashNext]_crashVars PROVE CrashInv'
    OBVIOUS
  <2>1. CASE UNCHANGED crashVars
    BY <2>1 DEF crashVars, CrashInv, CrashTypes, CrashKnown, Writes
  <2>2. CASE CrashNext
    BY <2>2, SignalKeeps, WriteReportKeeps, RaiseKeeps, InstallKeeps, DialogsKeep DEF CrashNext
  <2> QED
    BY <2>1, <2>2
<1>3. CrashInv => CrashTypeOK /\ ReportWhole
  BY CrashKnowsEnough
<1>4. CrashInv =>
        [/\ ViewerDeletes => \A k \in CrashReportsNow \ {viewer} : reports'[k] = reports[k]
         /\ \A yes, never \in BOOLEAN : ReportBug(yes, never) =>
              \A k \in CrashReportsNow \ {listing.current} : reports'[k] = reports[k]]_crashVars
  BY DEF ViewerDeletes, ReportBug, Removed, CrashReportsNow
<1> QED
  BY <1>1, <1>2, <1>3, <1>4, PTL DEF CrashSpec, CrashSafe, DeletesShown

(* ------------------------------------ Plugins ------------------------------------ *)

Load == [file : PluginFile, lib : {"open", "closed"}, inst : {"none", "made", "running", "shut", "gone"}]

Call == [at : {"idle", "scan", "load", "unload", "shutdown"}, files : SUBSET PluginFile, queue : Seq(Nat), cur : Nat]

PluginTypes ==
  /\ started \in BOOLEAN /\ fault \in BOOLEAN /\ loads \in Seq(Load) /\ callbacks \in Seq(Nat)
  /\ plugins \in Seq(Nat) /\ \A i \in 1..Len(plugins) : plugins[i] \in 1..Len(loads)
  /\ op \in Call
  /\ op.cur \in 0..Len(loads)

\* What is left of the call the main thread is in.
CallKnown ==
  /\ op.at = "idle" => op = NoOp
  /\ op.at \in {"unload", "shutdown"} => op.cur = 0
  /\ op.at \in {"scan", "load"} => op.queue = <<>>
  /\ op.at = "unload" /\ op.queue # <<>> => \E k \in 1..Len(plugins) : op.queue = <<plugins[k]>>
  /\ op.at = "shutdown" =>
       Len(op.queue) <= Len(plugins) /\ \A j \in 1..Len(op.queue) : op.queue[j] = plugins[Len(op.queue) + 1 - j]

\* The libraries: what is open is a plugin's or the one at hand, which is no plugin yet and has
\* a name of its own.
LibrariesKnown ==
  /\ \A n \in 1..Len(loads) : loads[n].lib = "closed" => loads[n].inst \in {"none", "gone"}
  /\ \A n \in 1..Len(loads) : loads[n].lib = "open" => n = op.cur \/ \E i \in 1..Len(plugins) : plugins[i] = n
  /\ op.cur # 0 =>
       /\ loads[op.cur].lib = "open" /\ loads[op.cur].inst = "made"
       /\ \A i \in 1..Len(plugins) : NameOf(loads[plugins[i]].file) # NameOf(loads[op.cur].file)

\* The plugins run, except the one that is being unloaded and, in shutdown, those after it.
Closed(i) == op.at = "shutdown" /\ i > Len(op.queue)
PluginsKnown ==
  \A i \in 1..Len(plugins) :
    /\ Closed(i) => loads[plugins[i]].lib = "closed"
    /\ ~Closed(i) =>
         /\ loads[plugins[i]].lib = "open" /\ loads[plugins[i]].inst \in {"running", "shut", "gone"}
         /\ op.queue = <<>> \/ plugins[i] # op.queue[1] => loads[plugins[i]].inst = "running"

OneName ==
  \A i, j \in 1..Len(plugins) : NameOf(loads[plugins[i]].file) = NameOf(loads[plugins[j]].file) => i = j

PluginInv == PluginTypes /\ CallKnown /\ LibrariesKnown /\ PluginsKnown /\ OneName

\* A dispatch has called what it was to call, but for what is left.
Voice == [on : BOOLEAN, rest : Seq(Nat), heard : Seq(Nat), due : Seq(Nat)]
SpeechKnown ==
  /\ speech \in [Speaker -> Voice]
  /\ \A t \in Speaker : speech[t].due = IF speech[t].on THEN speech[t].heard \o speech[t].rest ELSE speech[t].heard

\* The first occurrence of e, if there is one, is taken out, and the rest keeps its order.
LEMMA RemovesFirst ==
  ASSUME NEW S, NEW s \in Seq(S), NEW e
  PROVE  /\ RemoveFirst(s, e) \in Seq(S)
         /\ (\E i \in 1..Len(s) : s[i] = e) =>
              \E k \in 1..Len(s) :
                /\ s[k] = e /\ Len(RemoveFirst(s, e)) = Len(s) - 1
                /\ \A i \in 1..Len(s) - 1 : RemoveFirst(s, e)[i] = IF i < k THEN s[i] ELSE s[i + 1]
<1>1. CASE ~(\E i \in 1..Len(s) : s[i] = e)
  BY <1>1, Zenon DEF RemoveFirst
<1>2. CASE \E i \in 1..Len(s) : s[i] = e
  <2> DEFINE I == {i \in 1..Len(s) : s[i] = e}
             p == Min(I)
             r == SubSeq(s, 1, p - 1) \o SubSeq(s, p + 1, Len(s))
  <2>1. RemoveFirst(s, e) = r
    BY <1>2, Zenon DEF RemoveFirst, RemoveAt, SelectInSeq
  <2>2. I \in SUBSET Nat /\ I # {}
    BY <1>2
  <2>3. p \in I
    <3> HIDE DEF I
    <3>1. \E x \in I : \A y \in I : x <= y
      BY <2>2, LeastElement
    <3> QED
      BY <3>1 DEF Min
  <2> HIDE DEF p
  <2>4. p \in 1..Len(s) /\ s[p] = e
    BY <2>3
  <2> HIDE DEF I
  <2>5. /\ SubSeq(s, 1, p - 1) \in Seq(S) /\ Len(SubSeq(s, 1, p - 1)) = p - 1
        /\ \A i \in 1..p - 1 : SubSeq(s, 1, p - 1)[i] = s[i]
    BY <2>4, SubSeqProperties
  <2>6. /\ SubSeq(s, p + 1, Len(s)) \in Seq(S) /\ Len(SubSeq(s, p + 1, Len(s))) = Len(s) - p
        /\ \A i \in 1..Len(s) - p : SubSeq(s, p + 1, Len(s))[i] = s[p + i]
    BY <2>4, SubSeqProperties
  <2> DEFINE a == SubSeq(s, 1, p - 1)
             b == SubSeq(s, p + 1, Len(s))
  <2> HIDE DEF a, b
  <2>7. r = a \o b /\ a \in Seq(S) /\ b \in Seq(S) /\ Len(a) = p - 1 /\ Len(b) = Len(s) - p
    BY <2>5, <2>6 DEF a, b
  <2>8. /\ r \in Seq(S) /\ Len(r) = Len(s) - 1
        /\ \A i \in 1..Len(s) - 1 : r[i] = IF i <= p - 1 THEN a[i] ELSE b[i - (p - 1)]
    <3>1. /\ a \o b \in Seq(S) /\ Len(a \o b) = Len(a) + Len(b)
          /\ \A i \in 1..Len(a) + Len(b) : (a \o b)[i] = IF i <= Len(a) THEN a[i] ELSE b[i - Len(a)]
      BY <2>7, ConcatProperties
    <3>2. Len(a) + Len(b) = Len(s) - 1
      BY <2>4, <2>7
    <3> HIDE DEF r
    <3> QED
      BY <2>7, <3>1, <3>2
  <2>9. ASSUME NEW i \in 1..Len(s) - 1 PROVE r[i] = IF i < p THEN s[i] ELSE s[i + 1]
    <3> HIDE DEF r
    <3>1. CASE i < p
      BY <2>4, <2>5, <2>8, <3>1 DEF a
    <3>2. CASE ~(i < p)
      <4>1. i - (p - 1) \in 1..Len(s) - p /\ p + (i - (p - 1)) = i + 1
        BY <2>4, <3>2
      <4> QED
        BY <2>4, <2>6, <2>8, <3>2, <4>1 DEF b
    <3> QED
      BY <3>1, <3>2
  <2> HIDE DEF r
  <2> QED
    BY <2>1, <2>4, <2>8, <2>9
<1> QED
  BY <1>1, <1>2

\* An element that occurs once.
LEMMA RemovesOne ==
  ASSUME NEW S, NEW s \in Seq(S), NEW k \in 1..Len(s), \A j \in 1..Len(s) : s[j] = s[k] => j = k
  PROVE  /\ RemoveFirst(s, s[k]) \in Seq(S) /\ Len(RemoveFirst(s, s[k])) = Len(s) - 1
         /\ \A i \in 1..Len(s) - 1 : RemoveFirst(s, s[k])[i] = IF i < k THEN s[i] ELSE s[i + 1]
<1>1. PICK p \in 1..Len(s) :
        /\ s[p] = s[k] /\ Len(RemoveFirst(s, s[k])) = Len(s) - 1
        /\ \A i \in 1..Len(s) - 1 : RemoveFirst(s, s[k])[i] = IF i < p THEN s[i] ELSE s[i + 1]
  BY RemovesFirst
<1>2. p = k
  BY <1>1
<1>3. RemoveFirst(s, s[k]) \in Seq(S)
  BY RemovesFirst
<1> QED
  BY <1>1, <1>2, <1>3

LEMMA MovesOne ==
  ASSUME NEW S, NEW h \in Seq(S), NEW r \in Seq(S), r # <<>>
  PROVE  Append(h, Head(r)) \in Seq(S) /\ Tail(r) \in Seq(S) /\ Append(h, Head(r)) \o Tail(r) = h \o r
OBVIOUS

\* What a step keeps that leaves the manager alone.
LEMMA ManagerRests ==
  ASSUME PluginInv, UNCHANGED managerVars, callbacks' \in Seq(Nat), fault' \in BOOLEAN
  PROVE  PluginInv'
BY DEF PluginInv, PluginTypes, Call, CallKnown, LibrariesKnown, PluginsKnown, Closed, OneName, NoOp, managerVars

LEMMA ReversesAll ==
  ASSUME NEW S, NEW s \in Seq(S)
  PROVE  /\ Reverse(s) \in Seq(S) /\ Len(Reverse(s)) = Len(s)
         /\ \A j \in 1..Len(s) : Reverse(s)[j] = s[Len(s) + 1 - j]
<1>1. \A j \in 1..Len(s) : Len(s) - j + 1 \in 1..Len(s) /\ Len(s) - j + 1 = Len(s) + 1 - j
  OBVIOUS
<1>2. Reverse(s) = [j \in 1..Len(s) |-> s[Len(s) - j + 1]]
  BY DEF Reverse
<1>3. \A j \in 1..Len(s) : s[Len(s) - j + 1] \in S
  BY <1>1
<1> QED
  BY <1>1, <1>2, <1>3

\* A call begins.
LEMMA CallsBegin ==
  ASSUME PluginInv, op = NoOp, UNCHANGED <<plugins, loads, callbacks, fault>>, started' \in BOOLEAN,
         NEW doing \in {"scan", "load", "unload", "shutdown"}, NEW F \in SUBSET PluginFile, NEW q \in Seq(Nat),
         op' = [at |-> doing, files |-> F, queue |-> q, cur |-> 0],
         doing \in {"scan", "load"} => q = <<>>,
         doing = "unload" => \E k \in 1..Len(plugins) : q = <<plugins[k]>>,
         doing = "shutdown" => Len(q) = Len(plugins) /\ \A j \in 1..Len(q) : q[j] = plugins[Len(q) + 1 - j]
  PROVE  PluginInv'
<1>0. PluginTypes /\ CallKnown /\ LibrariesKnown /\ PluginsKnown /\ OneName
  BY DEF PluginInv
<1>1. op.at = "idle" /\ op.queue = <<>> /\ op.cur = 0
  BY DEF NoOp
<1>2. op'.cur = 0 /\ op'.files = F /\ op'.at = doing /\ op'.queue = q
  OBVIOUS
<1>3. PluginTypes'
  BY <1>0 DEF PluginTypes, Call
<1>4. CallKnown'
  <2>1. Len(plugins) \in Nat
    BY <1>0 DEF PluginTypes, Call
  <2> QED
    BY <1>2, <2>1 DEF CallKnown
<1>5. LibrariesKnown'
  BY <1>0, <1>1, <1>2 DEF LibrariesKnown
<1>6. PluginsKnown'
  <2> SUFFICES ASSUME NEW i \in 1..Len(plugins)
               PROVE  ~Closed(i)' /\ loads[plugins[i]].lib = "open" /\ loads[plugins[i]].inst = "running"
    BY DEF PluginsKnown
  <2>1. ~Closed(i)'
    BY <1>2 DEF Closed
  <2>2. ~Closed(i)
    BY <1>1 DEF Closed
  <2> QED
    BY <1>0, <1>1, <2>1, <2>2 DEF PluginsKnown
<1>7. OneName'
  BY <1>0 DEF OneName
<1> QED
  BY <1>3, <1>4, <1>5, <1>6, <1>7 DEF PluginInv

LEMMA BeginsKeep ==
  ASSUME PluginInv, Initialize \/ Shutdown \/ \E f \in PluginFile : LoadPlugin(f) \/ UnloadPlugin(NameOf(f))
  PROVE  PluginInv'
<1>0. PluginTypes /\ plugins \in Seq(Nat) /\ <<>> \in Seq(Nat)
  BY DEF PluginInv, PluginTypes, Call
<1>1. ASSUME Initialize PROVE PluginInv'
  <2>1. /\ op = NoOp /\ UNCHANGED <<plugins, loads, callbacks, fault>> /\ started' \in BOOLEAN
        /\ op' = [at |-> "scan", files |-> PluginFile, queue |-> <<>>, cur |-> 0]
    BY <1>1 DEF Initialize, NoOp
  <2> QED
    BY <1>0, <2>1, CallsBegin
<1>2. ASSUME Shutdown PROVE PluginInv'
  <2>1. /\ op = NoOp /\ UNCHANGED <<plugins, loads, callbacks, fault>> /\ started' \in BOOLEAN
        /\ op' = [at |-> "shutdown", files |-> {}, queue |-> Reverse(plugins), cur |-> 0]
    BY <1>0, <1>2 DEF Shutdown, NoOp, PluginTypes, Call
  <2>2. /\ Reverse(plugins) \in Seq(Nat) /\ Len(Reverse(plugins)) = Len(plugins)
        /\ \A j \in 1..Len(Reverse(plugins)) : Reverse(plugins)[j] = plugins[Len(Reverse(plugins)) + 1 - j]
    BY <1>0, ReversesAll
  <2> QED
    BY <2>1, <2>2, CallsBegin
<1>3. ASSUME NEW f \in PluginFile, LoadPlugin(f) PROVE PluginInv'
  <2>1. /\ op = NoOp /\ UNCHANGED <<plugins, loads, callbacks, fault>> /\ started' \in BOOLEAN
        /\ op' = [at |-> "load", files |-> {f}, queue |-> <<>>, cur |-> 0]
    BY <1>0, <1>3 DEF LoadPlugin, NoOp, PluginTypes, Call
  <2> QED
    BY <1>0, <2>1, CallsBegin
<1>4. ASSUME NEW f \in PluginFile, UnloadPlugin(NameOf(f)) PROVE PluginInv'
  <2>0. DOMAIN plugins = 1..Len(plugins)
    BY <1>0
  <2>1. PICK i \in 1..Len(plugins) : op' = [NoOp EXCEPT !.at = "unload", !.queue = <<plugins[i]>>]
    BY <1>4, <2>0, Zenon DEF UnloadPlugin
  <2>2. /\ op = NoOp /\ UNCHANGED <<plugins, loads, callbacks, fault>> /\ started' \in BOOLEAN
        /\ op' = [at |-> "unload", files |-> {}, queue |-> <<plugins[i]>>, cur |-> 0]
    BY <1>0, <1>4, <2>1 DEF UnloadPlugin, NoOp, PluginTypes, Call
  <2>3. <<plugins[i]>> \in Seq(Nat)
    BY <1>0
  <2> QED
    BY <2>2, <2>3, CallsBegin
<1> QED
  BY <1>1, <1>2, <1>3, <1>4

\* Loading.
LEMMA LoadsKeep ==
  ASSUME PluginInv, NEW f \in PluginFile, OpenLibrary(f)
  PROVE  PluginInv'
<1>0. PluginTypes /\ CallKnown /\ LibrariesKnown /\ PluginsKnown /\ OneName
  BY DEF PluginInv
<1>1. PICK made \in Outcome : Opened(f, made, made = "made" /\ NameOf(f) \notin NamesLoaded)
  BY DEF OpenLibrary
<1> DEFINE usable == made = "made" /\ NameOf(f) \notin NamesLoaded
           new == [file |-> f, lib |-> IF usable THEN "open" ELSE "closed",
                   inst |-> IF usable THEN "made" ELSE IF made = "uncreated" THEN "none" ELSE "gone"]
<1>2. /\ op.cur = 0 /\ op.at \in {"scan", "load"} /\ op.queue = <<>>
      /\ loads' = IF made = "unopened" THEN loads ELSE Append(loads, new)
      /\ op' = [op EXCEPT !.files = @ \ {f}, !.cur = IF usable THEN Len(loads) + 1 ELSE 0]
      /\ UNCHANGED <<started, plugins, callbacks, fault>>
  BY <1>0, <1>1 DEF OpenLibrary, Opened, CallKnown
<1>3. /\ new \in Load /\ new.file = f /\ usable \in BOOLEAN
      /\ usable => new.lib = "open" /\ new.inst = "made"
      /\ ~usable => new.lib = "closed" /\ new.inst \in {"none", "gone"}
  BY DEF Load
<1>4. usable => made # "unopened" /\ \A i \in 1..Len(plugins) : NameOf(loads[plugins[i]].file) # NameOf(f)
  <2>1. DOMAIN plugins = 1..Len(plugins)
    BY <1>0 DEF PluginTypes, Call
  <2>2. \A i \in 1..Len(plugins) : NameOf(loads[plugins[i]].file) \in NamesLoaded
    BY <2>1 DEF NamesLoaded, ToSet
  <2> QED
    BY <2>2
<1>0a. Len(loads) \in Nat /\ loads \in Seq(Load)
  BY <1>0 DEF PluginTypes, Call
<1> HIDE DEF usable, new
<1>5. /\ op'.at = op.at /\ op'.queue = <<>> /\ op'.cur = IF usable THEN Len(loads) + 1 ELSE 0
      /\ op' \in Call
  <2> DEFINE c == IF usable THEN Len(loads) + 1 ELSE 0
  <2>1. c \in Nat
    BY <1>0a
  <2>2. op \in Call
    BY <1>0 DEF PluginTypes, Call
  <2>3. op' = [op EXCEPT !.files = @ \ {f}, !.cur = c]
    BY <1>2
  <2> HIDE DEF c
  <2>4. /\ op'.at = op.at /\ op'.queue = op.queue /\ op'.cur = c
        /\ op' \in Call
    BY <2>1, <2>2, <2>3 DEF Call
  <2> QED
    BY <1>2, <2>4 DEF c
<1>6. /\ loads' \in Seq(Load) /\ Len(loads') >= Len(loads) /\ \A n \in 1..Len(loads) : loads'[n] = loads[n]
      /\ Len(loads) \in Nat /\ Len(loads') \in Nat
      /\ \A n \in 1..Len(loads') : n \in 1..Len(loads) \/ (n = Len(loads) + 1 /\ loads'[n] = new)
      /\ usable => Len(loads') = Len(loads) + 1 /\ loads'[Len(loads) + 1] = new
  <2>1. loads \in Seq(Load)
    BY <1>0 DEF PluginTypes, Call
  <2>2. CASE made = "unopened"
    <3>1. loads' = loads /\ ~usable
      BY <1>2, <1>4, <2>2
    <3>2. Len(loads) >= Len(loads)
      BY <1>0a
    <3> QED
      BY <1>0a, <3>1, <3>2, Zenon
  <2>3. CASE made # "unopened"
    <3>1. loads' = Append(loads, new)
      BY <1>2, <2>3
    <3>2. /\ Append(loads, new) \in Seq(Load) /\ Len(Append(loads, new)) = Len(loads) + 1
          /\ \A n \in 1..Len(loads) : Append(loads, new)[n] = loads[n]
          /\ Append(loads, new)[Len(loads) + 1] = new
      BY <1>3, <2>1, AppendProperties
    <3>3. \A n \in 1..Len(loads) + 1 : n \in 1..Len(loads) \/ n = Len(loads) + 1
      BY <1>0a
    <3>4. Len(loads) + 1 >= Len(loads) /\ Len(loads) + 1 \in Nat
      BY <1>0a
    <3> QED
      BY <1>0a, <3>1, <3>2, <3>3, <3>4, Zenon
  <2> QED
    BY <2>2, <2>3
<1>7. PluginTypes'
  <2>1. op'.cur \in 0..Len(loads')
    BY <1>5, <1>6
  <2>2. \A i \in 1..Len(plugins') : plugins'[i] \in 1..Len(loads')
    BY <1>0, <1>2, <1>6 DEF PluginTypes, Call
  <2> QED
    BY <1>0, <1>2, <1>5, <1>6, <2>1, <2>2 DEF PluginTypes, Call
<1>8. CallKnown'
  BY <1>2, <1>5 DEF CallKnown
<1>9. LibrariesKnown'
  <2>1. \A i \in 1..Len(plugins) : plugins[i] \in 1..Len(loads) /\ loads'[plugins[i]] = loads[plugins[i]]
    BY <1>0, <1>6 DEF PluginTypes, Call
  <2>2. ASSUME NEW n \in 1..Len(loads')
        PROVE  /\ loads'[n].lib = "closed" => loads'[n].inst \in {"none", "gone"}
               /\ loads'[n].lib = "open" => n = op'.cur \/ \E i \in 1..Len(plugins) : plugins[i] = n
    <3>1. CASE n \in 1..Len(loads)
      BY <1>0, <1>2, <1>6, <3>1 DEF LibrariesKnown
    <3>2. CASE n = Len(loads) + 1 /\ loads'[n] = new
      BY <1>3, <1>5, <3>2
    <3> QED
      BY <1>6, <3>1, <3>2
  <2>3. ASSUME op'.cur # 0
        PROVE  /\ loads'[op'.cur].lib = "open" /\ loads'[op'.cur].inst = "made"
               /\ \A i \in 1..Len(plugins) : NameOf(loads'[plugins[i]].file) # NameOf(loads'[op'.cur].file)
    <3>1. usable /\ loads'[op'.cur] = new
      BY <1>5, <1>6, <2>3
    <3> QED
      BY <1>3, <1>4, <2>1, <3>1
  <2>4. plugins' = plugins
    BY <1>2
  <2> QED
    BY <2>2, <2>3, <2>4 DEF LibrariesKnown
<1>10. PluginsKnown' /\ OneName'
  <2>1. \A i \in 1..Len(plugins) : loads'[plugins[i]] = loads[plugins[i]]
    BY <1>0, <1>6 DEF PluginTypes, Call
  <2>2. \A i : ~Closed(i) /\ ~Closed(i)'
    BY <1>2, <1>5 DEF Closed
  <2>3. plugins' = plugins /\ op.queue = <<>> /\ op'.queue = <<>>
    BY <1>2, <1>5
  <2>4. PluginsKnown'
    BY <1>0, <2>1, <2>2, <2>3 DEF PluginsKnown
  <2>5. OneName'
    BY <1>0, <2>1, <2>3 DEF OneName
  <2> QED
    BY <2>4, <2>5
<1> QED
  BY <1>7, <1>8, <1>9, <1>10 DEF PluginInv

LEMMA PluginRuns ==
  ASSUME PluginInv, NEW ok \in BOOLEAN, PluginInitialize(ok)
  PROVE  PluginInv'
<1>0. PluginTypes /\ CallKnown /\ LibrariesKnown /\ PluginsKnown /\ OneName
  BY DEF PluginInv
<1> DEFINE c == op.cur
<1>1. /\ c # 0 /\ op' = [op EXCEPT !.cur = 0]
      /\ loads' = [loads EXCEPT ![c].inst = IF ok THEN "running" ELSE "gone", ![c].lib = IF ok THEN @ ELSE "closed"]
      /\ plugins' = IF ok THEN Append(plugins, c) ELSE plugins
      /\ callbacks' = IF ok THEN Append(callbacks, c) ELSE callbacks
      /\ UNCHANGED <<started, fault>>
  BY DEF PluginInitialize
<1>2. c \in 1..Len(loads) /\ c \in Nat /\ loads \in Seq(Load) /\ plugins \in Seq(Nat) /\ callbacks \in Seq(Nat)
  BY <1>0, <1>1 DEF PluginTypes, Call
<1>3. op.at \in {"scan", "load"} /\ op.queue = <<>>
  BY <1>0, <1>1 DEF CallKnown, PluginTypes, Call, NoOp
<1>4. /\ op'.at = op.at /\ op'.queue = <<>> /\ op'.cur = 0
      /\ op' \in Call
  BY <1>0, <1>1, <1>3 DEF PluginTypes, Call
<1>5. /\ loads[c].lib = "open" /\ loads[c].inst = "made"
      /\ \A i \in 1..Len(plugins) : NameOf(loads[plugins[i]].file) # NameOf(loads[c].file)
  BY <1>0, <1>1 DEF LibrariesKnown
<1>6. /\ loads' \in Seq(Load) /\ Len(loads') = Len(loads)
      /\ \A n \in 1..Len(loads) : n # c => loads'[n] = loads[n]
      /\ \A n \in 1..Len(loads) : loads'[n].file = loads[n].file
      /\ ok => loads'[c].lib = "open" /\ loads'[c].inst = "running"
      /\ ~ok => loads'[c].lib = "closed" /\ loads'[c].inst = "gone"
  <2> DEFINE x == [loads[c] EXCEPT !.inst = IF ok THEN "running" ELSE "gone", !.lib = IF ok THEN @ ELSE "closed"]
  <2>1. loads' = [loads EXCEPT ![c] = x]
    BY <1>1
  <2>2. loads[c] \in Load
    BY <1>2
  <2>3. /\ x \in Load /\ x.file = loads[c].file
        /\ ok => x.lib = "open" /\ x.inst = "running"
        /\ ~ok => x.lib = "closed" /\ x.inst = "gone"
    BY <1>5, <2>2 DEF Load
  <2> HIDE DEF c, x
  <2> QED
    BY <1>2, <2>1, <2>3
<1>7. \A i \in 1..Len(plugins) : plugins[i] \in 1..Len(loads) /\ plugins[i] # c
  BY <1>0, <1>5 DEF PluginTypes, Call
<1>8. /\ plugins' \in Seq(Nat) /\ callbacks' \in Seq(Nat)
      /\ ok => /\ Len(plugins') = Len(plugins) + 1 /\ plugins'[Len(plugins) + 1] = c
               /\ \A i \in 1..Len(plugins) : plugins'[i] = plugins[i]
      /\ ~ok => plugins' = plugins
      /\ Len(plugins) \in Nat
  BY <1>1, <1>2
<1> HIDE DEF c
<1>9. PluginTypes'
  <2>1. \A i \in 1..Len(plugins') : plugins'[i] \in 1..Len(loads')
    <3>1. CASE ok
      <4> SUFFICES ASSUME NEW i \in 1..Len(plugins) + 1 PROVE plugins'[i] \in 1..Len(loads)
        BY <1>6, <1>8, <3>1
      <4>1. CASE i \in 1..Len(plugins)
        BY <1>7, <1>8, <3>1, <4>1
      <4>2. CASE i = Len(plugins) + 1
        BY <1>2, <1>8, <3>1, <4>2
      <4> QED
        BY <1>8, <4>1, <4>2
    <3>2. CASE ~ok
      BY <1>6, <1>7, <1>8, <3>2
    <3> QED
      BY <3>1, <3>2
  <2> QED
    <3>1. op'.cur \in 0..Len(loads')
      BY <1>2, <1>4, <1>6
    <3> QED
      BY <1>0, <1>1, <1>4, <1>6, <1>8, <2>1, <3>1 DEF PluginTypes, Call
<1>10. CallKnown'
  BY <1>3, <1>4 DEF CallKnown
<1>11. LibrariesKnown'
  <2>1. ASSUME NEW n \in 1..Len(loads)
        PROVE  /\ loads'[n].lib = "closed" => loads'[n].inst \in {"none", "gone"}
               /\ loads'[n].lib = "open" => \E i \in 1..Len(plugins') : plugins'[i] = n
    <3>1. CASE n = c
      <4>1. CASE ok
        <5>1. Len(plugins) + 1 \in 1..Len(plugins')
          BY <1>8, <4>1
        <5> QED
          BY <1>6, <1>8, <3>1, <4>1, <5>1
      <4>2. CASE ~ok
        BY <1>6, <3>1, <4>2
      <4> QED
        BY <4>1, <4>2
    <3>2. CASE n # c
      <4>1. loads'[n] = loads[n]
        BY <1>6, <3>2
      <4>2. loads[n].lib = "open" => \E i \in 1..Len(plugins) : plugins[i] = n
        BY <1>0, <3>2 DEF LibrariesKnown, c
      <4>3. \A i \in 1..Len(plugins) : i \in 1..Len(plugins') /\ plugins'[i] = plugins[i]
        BY <1>8
      <4> QED
        BY <1>0, <4>1, <4>2, <4>3 DEF LibrariesKnown
    <3> QED
      BY <3>1, <3>2
  <2> QED
    BY <1>4, <1>6, <2>1 DEF LibrariesKnown
<1>12. PluginsKnown'
  <2>1. \A i : ~Closed(i) /\ ~Closed(i)'
    BY <1>3, <1>4 DEF Closed
  <2>2. ASSUME NEW i \in 1..Len(plugins) PROVE loads'[plugins[i]].lib = "open" /\ loads'[plugins[i]].inst = "running"
    BY <1>0, <1>3, <1>6, <1>7, <2>1 DEF PluginsKnown
  <2>3. ASSUME NEW i \in 1..Len(plugins') PROVE loads'[plugins'[i]].lib = "open" /\ loads'[plugins'[i]].inst = "running"
    <3>1. CASE i \in 1..Len(plugins)
      BY <1>8, <2>2, <3>1
    <3>2. CASE i \notin 1..Len(plugins)
      BY <1>6, <1>8, <3>2
    <3> QED
      BY <3>1, <3>2
  <2> QED
    BY <2>1, <2>3 DEF PluginsKnown
<1>13. OneName'
  <2>1. ASSUME NEW i \in 1..Len(plugins) PROVE NameOf(loads'[plugins[i]].file) = NameOf(loads[plugins[i]].file)
    BY <1>6, <1>7
  <2>2. CASE ~ok
    BY <1>0, <1>8, <2>1, <2>2 DEF OneName
  <2>3. CASE ok
    <3>1. ASSUME NEW i \in 1..Len(plugins) + 1, NEW j \in 1..Len(plugins) + 1,
                 NameOf(loads'[plugins'[i]].file) = NameOf(loads'[plugins'[j]].file)
          PROVE  i = j
      <4>1. CASE i \in 1..Len(plugins) /\ j \in 1..Len(plugins)
        BY <1>0, <1>8, <2>1, <2>3, <3>1, <4>1 DEF OneName
      <4>2. ASSUME NEW k \in 1..Len(plugins)
            PROVE  NameOf(loads'[plugins'[k]].file) # NameOf(loads'[plugins'[Len(plugins) + 1]].file)
        <5>1. NameOf(loads'[plugins'[k]].file) = NameOf(loads[plugins[k]].file)
          BY <1>8, <2>1, <2>3
        <5>2. NameOf(loads'[plugins'[Len(plugins) + 1]].file) = NameOf(loads[c].file)
          BY <1>2, <1>6, <1>8, <2>3
        <5> QED
          BY <1>5, <5>1, <5>2
      <4>3. \A k \in 1..Len(plugins) + 1 : k \in 1..Len(plugins) \/ k = Len(plugins) + 1
        BY <1>8
      <4> QED
        BY <3>1, <4>1, <4>2, <4>3, Zenon
    <3> QED
      BY <1>8, <2>3, <3>1 DEF OneName
  <2> QED
    BY <2>2, <2>3
<1> QED
  BY <1>9, <1>10, <1>11, <1>12, <1>13 DEF PluginInv

LEMMA LoadingEnded ==
  ASSUME PluginInv, LoadEnd
  PROVE  PluginInv'
<1>0. PluginTypes /\ CallKnown /\ LibrariesKnown /\ PluginsKnown /\ OneName
  BY DEF PluginInv
<1>1. /\ op.at \in {"scan", "load"} /\ op.cur = 0 /\ op.queue = <<>> /\ op' = NoOp
      /\ UNCHANGED <<started, plugins, loads, callbacks, fault>>
  BY <1>0 DEF LoadEnd, CallKnown
<1>2. op'.at = "idle" /\ op'.cur = 0 /\ op'.queue = <<>> /\ op'.files = {}
  BY <1>1 DEF NoOp
<1>3. PluginTypes'
  <2>1. op' \in Call
    BY <1>1 DEF NoOp, Call
  <2> QED
    BY <1>0, <1>1, <1>2, <2>1 DEF PluginTypes, Call
<1>4. CallKnown'
  BY <1>1, <1>2 DEF CallKnown
<1>5. LibrariesKnown' /\ OneName'
  BY <1>0, <1>1, <1>2 DEF LibrariesKnown, OneName
<1>6. PluginsKnown'
  BY <1>0, <1>1, <1>2 DEF PluginsKnown, Closed
<1> QED
  BY <1>3, <1>4, <1>5, <1>6 DEF PluginInv

\* The plugin that is being unloaded is the first of the queue.
LEMMA OneGoes ==
  ASSUME PluginInv, op.queue # <<>>
  PROVE  \E k \in 1..Len(plugins) :
           /\ op.queue[1] = plugins[k] /\ Head(op.queue) = plugins[k] /\ plugins[k] \in 1..Len(loads)
           /\ \A i \in 1..Len(plugins) : plugins[i] = plugins[k] => i = k
           /\ ~Closed(k)
           /\ (op.at = "unload" /\ op.queue = <<plugins[k]>>) \/ (op.at = "shutdown" /\ k = Len(op.queue))
<1>0. PluginTypes /\ CallKnown /\ LibrariesKnown /\ PluginsKnown /\ OneName
  BY DEF PluginInv
<1>1. /\ op.queue \in Seq(Nat) /\ Len(op.queue) \in Nat \ {0} /\ Head(op.queue) = op.queue[1]
      /\ plugins \in Seq(Nat) /\ Len(plugins) \in Nat
  BY <1>0 DEF PluginTypes, Call
<1>2. op.at \in {"unload", "shutdown"}
  BY <1>0 DEF PluginTypes, Call, CallKnown, NoOp
<1>3. PICK k \in 1..Len(plugins) :
        /\ op.queue[1] = plugins[k]
        /\ (op.at = "unload" /\ op.queue = <<plugins[k]>>) \/ (op.at = "shutdown" /\ k = Len(op.queue))
  <2>1. CASE op.at = "unload"
    <3>1. PICK k \in 1..Len(plugins) : op.queue = <<plugins[k]>>
      BY <1>0, <2>1 DEF CallKnown
    <3> QED
      BY <2>1, <3>1
  <2>2. CASE op.at = "shutdown"
    <3>1. /\ Len(op.queue) \in 1..Len(plugins) /\ 1 \in 1..Len(op.queue)
          /\ op.queue[1] = plugins[Len(op.queue) + 1 - 1] /\ Len(op.queue) + 1 - 1 = Len(op.queue)
      BY <1>0, <1>1, <2>2 DEF CallKnown
    <3> QED
      BY <2>2, <3>1
  <2> QED
    BY <1>2, <2>1, <2>2
<1>4. \A i \in 1..Len(plugins) : plugins[i] = plugins[k] => i = k
  BY <1>0 DEF OneName
<1>5. ~Closed(k)
  BY <1>1, <1>3 DEF Closed
<1>6. plugins[k] \in 1..Len(loads)
  BY <1>0 DEF PluginTypes, Call
<1> QED
  BY <1>1, <1>3, <1>4, <1>5, <1>6

\* shutdown and destroy change the instance, with the library still open.
LEMMA GoingKeeps ==
  ASSUME PluginInv, op.queue # <<>>, NEW h, Head(op.queue) = h,
         NEW x \in Load, x.lib = loads[h].lib, x.file = loads[h].file, x.inst \in {"shut", "gone"},
         loads' = [loads EXCEPT ![h] = x],
         callbacks' \in Seq(Nat), UNCHANGED <<started, plugins, op, fault>>
  PROVE  PluginInv'
<1>0. PluginTypes /\ CallKnown /\ LibrariesKnown /\ PluginsKnown /\ OneName
  BY DEF PluginInv
<1>1. PICK k \in 1..Len(plugins) :
        /\ op.queue[1] = plugins[k] /\ Head(op.queue) = plugins[k] /\ plugins[k] \in 1..Len(loads)
        /\ \A i \in 1..Len(plugins) : plugins[i] = plugins[k] => i = k
        /\ ~Closed(k)
  BY OneGoes, Zenon
<1>1a. h = plugins[k]
  BY <1>1
<1>2. h \in 1..Len(loads) /\ loads \in Seq(Load) /\ loads[h] \in Load
  BY <1>0, <1>1, <1>1a DEF PluginTypes, Call
<1>3. loads[h].lib = "open"
  BY <1>0, <1>1, <1>1a DEF PluginsKnown
<1>4. /\ loads' \in Seq(Load) /\ Len(loads') = Len(loads)
      /\ \A n \in 1..Len(loads) : /\ loads'[n].lib = loads[n].lib /\ loads'[n].file = loads[n].file
                                  /\ n # h => loads'[n] = loads[n]
      /\ loads'[h].inst \in {"shut", "gone"}
  <2>1. /\ loads' \in Seq(Load) /\ Len(loads') = Len(loads) /\ loads'[h] = x
        /\ \A n \in 1..Len(loads) : n # h => loads'[n] = loads[n]
    BY <1>2
  <2> QED
    BY <1>2, <2>1
<1>5. op.cur = 0
  BY <1>0 DEF CallKnown, PluginTypes, Call, NoOp
<1>6. \A i \in 1..Len(plugins) : plugins[i] \in 1..Len(loads)
  BY <1>0 DEF PluginTypes, Call
<1>7. PluginTypes'
  BY <1>0, <1>4 DEF PluginTypes, Call
<1>8. CallKnown'
  BY <1>0 DEF CallKnown
<1>9. LibrariesKnown'
  <2>1. \A n \in 1..Len(loads) : n = h => loads'[n].lib = "open"
    BY <1>2, <1>3, <1>4
  <2>2. \A n \in 1..Len(loads) : loads'[n].lib = "closed" => loads'[n].inst \in {"none", "gone"}
    BY <1>0, <1>4, <2>1 DEF LibrariesKnown
  <2>3. \A n \in 1..Len(loads) : loads'[n].lib = "open" => n = op.cur \/ \E i \in 1..Len(plugins) : plugins[i] = n
    BY <1>0, <1>4 DEF LibrariesKnown
  <2> QED
    BY <1>4, <1>5, <2>2, <2>3 DEF LibrariesKnown
<1>10. PluginsKnown'
  <2> SUFFICES ASSUME NEW i \in 1..Len(plugins)
               PROVE  /\ Closed(i) => loads'[plugins[i]].lib = "closed"
                      /\ ~Closed(i) =>
                           /\ loads'[plugins[i]].lib = "open" /\ loads'[plugins[i]].inst \in {"running", "shut", "gone"}
                           /\ op.queue = <<>> \/ plugins[i] # op.queue[1] => loads'[plugins[i]].inst = "running"
    BY DEF PluginsKnown, Closed
  <2>1. CASE i = k
    BY <1>1, <1>1a, <1>3, <1>4, <2>1
  <2>2. CASE i # k
    <3>1. plugins[i] # h /\ loads'[plugins[i]] = loads[plugins[i]]
      BY <1>1, <1>1a, <1>4, <1>6, <2>2
    <3> QED
      BY <1>0, <3>1 DEF PluginsKnown
  <2> QED
    BY <2>1, <2>2
<1>11. OneName'
  BY <1>0, <1>4, <1>6 DEF OneName
<1> QED
  BY <1>7, <1>8, <1>9, <1>10, <1>11 DEF PluginInv

LEMMA CloseKeeps ==
  ASSUME PluginInv, CloseLibrary
  PROVE  PluginInv'
<1>0. PluginTypes /\ CallKnown /\ LibrariesKnown /\ PluginsKnown /\ OneName
  BY DEF PluginInv
<1>1. /\ op.queue # <<>> /\ loads[Head(op.queue)].inst = "gone"
      /\ loads' = [loads EXCEPT ![Head(op.queue)].lib = "closed"] /\ op' = [op EXCEPT !.queue = Tail(@)]
      /\ plugins' = IF op.at = "unload" THEN RemoveFirst(plugins, Head(op.queue)) ELSE plugins
      /\ UNCHANGED <<started, callbacks, fault>>
  BY DEF CloseLibrary
<1>2. PICK k \in 1..Len(plugins) :
        /\ op.queue[1] = plugins[k] /\ Head(op.queue) = plugins[k] /\ plugins[k] \in 1..Len(loads)
        /\ \A i \in 1..Len(plugins) : plugins[i] = plugins[k] => i = k
        /\ ~Closed(k)
        /\ (op.at = "unload" /\ op.queue = <<plugins[k]>>) \/ (op.at = "shutdown" /\ k = Len(op.queue))
  BY <1>1, OneGoes, Zenon
<1> DEFINE h == plugins[k]
<1>3. h \in 1..Len(loads) /\ loads \in Seq(Load) /\ loads[h] \in Load /\ plugins \in Seq(Nat) /\ Len(plugins) \in Nat
  BY <1>0, <1>2 DEF PluginTypes, Call
<1>4. /\ loads' \in Seq(Load) /\ Len(loads') = Len(loads)
      /\ \A n \in 1..Len(loads) : /\ loads'[n].inst = loads[n].inst /\ loads'[n].file = loads[n].file
                                  /\ n # h => loads'[n] = loads[n]
      /\ loads'[h].lib = "closed" /\ loads'[h].inst = "gone"
  <2> DEFINE x == [loads[h] EXCEPT !.lib = "closed"]
  <2>1. loads' = [loads EXCEPT ![h] = x]
    BY <1>1, <1>2
  <2>2. x \in Load /\ x.inst = loads[h].inst /\ x.file = loads[h].file /\ x.lib = "closed" /\ loads[h].inst = "gone"
    BY <1>1, <1>2, <1>3 DEF Load
  <2> HIDE DEF h, x
  <2> QED
    BY <1>3, <2>1, <2>2
<1>5. /\ op'.at = op.at /\ op'.files = op.files /\ op'.cur = 0 /\ op.cur = 0 /\ op'.queue = Tail(op.queue)
      /\ op' \in Call
      /\ op.at \in {"unload", "shutdown"}
  <2>1. op \in Call
    BY <1>0 DEF PluginTypes, Call
  <2>2. Tail(op.queue) \in Seq(Nat)
    BY <1>1, <2>1 DEF Call
  <2>3. op.at \in {"unload", "shutdown"} /\ op.cur = 0
    BY <1>0, <1>2 DEF CallKnown
  <2> QED
    BY <1>1, <2>1, <2>2, <2>3 DEF Call
<1>6. /\ op.queue \in Seq(Nat) /\ Len(op.queue) \in Nat \ {0} /\ Len(op'.queue) = Len(op.queue) - 1
      /\ \A j \in 1..Len(op.queue) - 1 : op'.queue[j] = op.queue[j + 1]
  BY <1>0, <1>1, <1>5 DEF PluginTypes, Call
<1>7. \A i \in 1..Len(plugins) : plugins[i] \in 1..Len(loads)
  BY <1>0 DEF PluginTypes, Call
<1> HIDE DEF h
<1>8. CASE op.at = "unload"
  <2>1. op.queue = <<h>> /\ op'.queue = <<>> /\ plugins' = RemoveFirst(plugins, h)
    <3>1. op.queue = <<h>>
      BY <1>2, <1>8 DEF h
    <3>2. Tail(<<h>>) = <<>>
      OBVIOUS
    <3> QED
      BY <1>1, <1>2, <1>5, <1>8, <3>1, <3>2, Zenon DEF h
  <2>2. /\ plugins' \in Seq(Nat) /\ Len(plugins') = Len(plugins) - 1
        /\ \A i \in 1..Len(plugins) - 1 : plugins'[i] = IF i < k THEN plugins[i] ELSE plugins[i + 1]
    <3>1. plugins \in Seq(Nat) /\ k \in 1..Len(plugins) /\ \A j \in 1..Len(plugins) : plugins[j] = plugins[k] => j = k
      BY <1>2, <1>3
    <3>2. /\ RemoveFirst(plugins, plugins[k]) \in Seq(Nat) /\ Len(RemoveFirst(plugins, plugins[k])) = Len(plugins) - 1
          /\ \A i \in 1..Len(plugins) - 1 : RemoveFirst(plugins, plugins[k])[i] = IF i < k THEN plugins[i] ELSE plugins[i + 1]
      BY <3>1, RemovesOne
    <3> QED
      BY <2>1, <3>2, Zenon DEF h
  <2>3. ASSUME NEW i \in 1..Len(plugins')
        PROVE  \E j \in 1..Len(plugins) : /\ j # k /\ plugins'[i] = plugins[j] /\ plugins[j] # h
                                          /\ loads'[plugins[j]] = loads[plugins[j]] /\ j = IF i < k THEN i ELSE i + 1
    <3> DEFINE j == IF i < k THEN i ELSE i + 1
    <3>0. i \in 1..Len(plugins) - 1 /\ k \in 1..Len(plugins)
      BY <2>2
    <3>1. j \in 1..Len(plugins) /\ j # k /\ plugins'[i] = plugins[j]
      <4>1. plugins'[i] = IF i < k THEN plugins[i] ELSE plugins[i + 1]
        BY <2>2, <3>0
      <4>2. CASE i < k
        BY <1>3, <3>0, <4>1, <4>2
      <4>3. CASE ~(i < k)
        BY <1>3, <3>0, <4>1, <4>3
      <4> QED
        BY <4>2, <4>3
    <3> HIDE DEF j
    <3>2. plugins[j] # h /\ loads'[plugins[j]] = loads[plugins[j]]
      BY <1>2, <1>4, <1>7, <3>1 DEF h
    <3> QED
      BY <3>1, <3>2 DEF j
  <2>4. PluginTypes'
    <3>1. \A i \in 1..Len(plugins') : plugins'[i] \in 1..Len(loads')
      BY <1>4, <1>7, <2>3
    <3>2. op'.cur \in 0..Len(loads')
      BY <1>3, <1>4, <1>5
    <3> QED
      BY <1>0, <1>1, <1>4, <1>5, <2>2, <3>1, <3>2 DEF PluginTypes, Call
  <2>5. CallKnown'
    BY <1>5, <1>8, <2>1 DEF CallKnown
  <2>6. LibrariesKnown'
    <3>1. ASSUME NEW n \in 1..Len(loads)
          PROVE  /\ loads'[n].lib = "closed" => loads'[n].inst \in {"none", "gone"}
                 /\ loads'[n].lib = "open" => \E i \in 1..Len(plugins') : plugins'[i] = n
      <4>1. CASE n = h
        BY <1>4, <4>1
      <4>2. CASE n # h
        <5>1. loads'[n] = loads[n]
          BY <1>4, <4>2
        <5>2. ASSUME loads[n].lib = "open" PROVE \E i \in 1..Len(plugins') : plugins'[i] = n
          <6>1. PICK j \in 1..Len(plugins) : plugins[j] = n
            BY <1>0, <1>3, <1>5, <5>2 DEF LibrariesKnown
          <6>2. j # k
            BY <4>2, <6>1 DEF h
          <6> DEFINE i == IF j < k THEN j ELSE j - 1
          <6>3. i \in 1..Len(plugins) - 1 /\ (IF i < k THEN i ELSE i + 1) = j
            BY <6>2
          <6>4. plugins'[i] = plugins[j]
            BY <2>2, <6>3
          <6> QED
            BY <2>2, <6>1, <6>3, <6>4
        <5> QED
          BY <1>0, <5>1, <5>2 DEF LibrariesKnown
      <4> QED
        BY <4>1, <4>2
    <3> QED
      BY <1>4, <1>5, <3>1 DEF LibrariesKnown
  <2>7. PluginsKnown'
    <3> SUFFICES ASSUME NEW i \in 1..Len(plugins')
                 PROVE  ~Closed(i)' /\ loads'[plugins'[i]].lib = "open" /\ loads'[plugins'[i]].inst = "running"
      BY DEF PluginsKnown
    <3>1. PICK j \in 1..Len(plugins) : j # k /\ plugins'[i] = plugins[j] /\ plugins[j] # h /\ loads'[plugins[j]] = loads[plugins[j]]
      BY <2>3
    <3>2. ~Closed(i)' /\ ~Closed(j)
      BY <1>5, <1>8 DEF Closed
    <3>3. plugins[j] # op.queue[1]
      BY <1>2, <3>1 DEF h
    <3>4. loads[plugins[j]].lib = "open" /\ loads[plugins[j]].inst = "running"
      BY <1>0, <3>2, <3>3 DEF PluginsKnown
    <3> QED
      BY <3>1, <3>2, <3>4
  <2>8. OneName'
    <3> SUFFICES ASSUME NEW i1 \in 1..Len(plugins'), NEW i2 \in 1..Len(plugins'),
                        NameOf(loads'[plugins'[i1]].file) = NameOf(loads'[plugins'[i2]].file)
                 PROVE  i1 = i2
      BY DEF OneName
    <3>1. PICK j1 \in 1..Len(plugins) : /\ plugins'[i1] = plugins[j1] /\ loads'[plugins[j1]] = loads[plugins[j1]]
                                       /\ j1 = IF i1 < k THEN i1 ELSE i1 + 1
      BY <2>3
    <3>2. PICK j2 \in 1..Len(plugins) : /\ plugins'[i2] = plugins[j2] /\ loads'[plugins[j2]] = loads[plugins[j2]]
                                       /\ j2 = IF i2 < k THEN i2 ELSE i2 + 1
      BY <2>3
    <3>3. j1 = j2
      BY <1>0, <3>1, <3>2 DEF OneName
    <3> QED
      <4>1. (IF i1 < k THEN i1 ELSE i1 + 1) = (IF i2 < k THEN i2 ELSE i2 + 1)
        BY <3>1, <3>2, <3>3, Zenon
      <4>2. i1 \in Nat /\ i2 \in Nat /\ k \in Nat
        BY <2>2
      <4> QED
        BY <4>1, <4>2
  <2> QED
    BY <2>4, <2>5, <2>6, <2>7, <2>8 DEF PluginInv
<1>9. CASE op.at = "shutdown"
  <2>1. k = Len(op.queue) /\ plugins' = plugins
    BY <1>1, <1>2, <1>9
  <2>2. PluginTypes'
    <3>1. op'.cur \in 0..Len(loads')
      BY <1>3, <1>4, <1>5
    <3> QED
      BY <1>0, <1>1, <1>4, <1>5, <2>1, <3>1 DEF PluginTypes, Call
  <2>3. CallKnown'
    <3>1. Len(op.queue) <= Len(plugins) /\ \A j \in 1..Len(op.queue) : op.queue[j] = plugins[Len(op.queue) + 1 - j]
      BY <1>0, <1>9 DEF CallKnown
    <3>2. ASSUME NEW j \in 1..Len(op'.queue) PROVE op'.queue[j] = plugins[Len(op'.queue) + 1 - j]
      <4>0. j \in 1..Len(op.queue) - 1 /\ Len(op.queue) \in Nat /\ Len(op'.queue) = Len(op.queue) - 1
        BY <1>6
      <4>1. j + 1 \in 1..Len(op.queue) /\ Len(op.queue) + 1 - (j + 1) = Len(op'.queue) + 1 - j /\ j \in 1..Len(op.queue) - 1
        <5> DEFINE n == Len(op.queue)
                   m == Len(op'.queue)
        <5>1. j \in 1..n - 1 /\ n \in Nat /\ m = n - 1
          BY <4>0
        <5> HIDE DEF n, m
        <5>2. j + 1 \in 1..n /\ n + 1 - (j + 1) = m + 1 - j
          BY <5>1
        <5> QED
          BY <5>1, <5>2 DEF n, m
      <4> QED
        BY <1>6, <3>1, <4>1
    <3>3. Len(op'.queue) <= Len(plugins)
      BY <1>3, <1>6, <3>1
    <3> QED
      BY <1>5, <1>9, <2>1, <3>2, <3>3 DEF CallKnown
  <2>4. LibrariesKnown'
    <3>1. ASSUME NEW n \in 1..Len(loads)
          PROVE  /\ loads'[n].lib = "closed" => loads'[n].inst \in {"none", "gone"}
                 /\ loads'[n].lib = "open" => \E i \in 1..Len(plugins) : plugins[i] = n
      <4>1. CASE n = h
        BY <1>4, <4>1
      <4>2. CASE n # h
        BY <1>0, <1>4, <1>5, <4>2 DEF LibrariesKnown
      <4> QED
        BY <4>1, <4>2
    <3> QED
      BY <1>4, <1>5, <2>1, <3>1 DEF LibrariesKnown
  <2>5. PluginsKnown'
    <3> SUFFICES ASSUME NEW i \in 1..Len(plugins)
                 PROVE  /\ Closed(i)' => loads'[plugins[i]].lib = "closed"
                        /\ ~Closed(i)' => loads'[plugins[i]].lib = "open" /\ loads'[plugins[i]].inst = "running"
      BY <2>1 DEF PluginsKnown
    <3>1. Closed(i) <=> i > k
      BY <1>9, <2>1 DEF Closed
    <3>2. Closed(i)' <=> i > k - 1
      BY <1>5, <1>6, <1>9, <2>1 DEF Closed
    <3>3. CASE i = k
      BY <1>4, <3>2, <3>3 DEF h
    <3>4. CASE i # k
      <4>1. plugins[i] # h /\ plugins[i] # op.queue[1] /\ loads'[plugins[i]] = loads[plugins[i]]
        BY <1>2, <1>4, <1>7, <3>4 DEF h
      <4>2. Closed(i)' <=> Closed(i)
        BY <3>1, <3>2, <3>4
      <4> QED
        BY <1>0, <4>1, <4>2 DEF PluginsKnown
    <3> QED
      BY <3>3, <3>4
  <2>6. OneName'
    BY <1>0, <1>4, <1>7, <2>1 DEF OneName
  <2> QED
    BY <2>2, <2>3, <2>4, <2>5, <2>6 DEF PluginInv
<1> QED
  BY <1>5, <1>8, <1>9

LEMMA UnloadEnds ==
  ASSUME PluginInv, UnloadEnd
  PROVE  PluginInv'
<1>0. PluginTypes /\ CallKnown /\ LibrariesKnown /\ PluginsKnown /\ OneName
  BY DEF PluginInv
<1>1. /\ op.at \in {"unload", "shutdown"} /\ op.cur = 0 /\ op.queue = <<>> /\ op' = NoOp
      /\ plugins' = IF op.at = "shutdown" THEN <<>> ELSE plugins
      /\ started' \in BOOLEAN /\ UNCHANGED <<loads, callbacks, fault>>
  BY <1>0 DEF UnloadEnd, CallKnown
<1>2. op'.at = "idle" /\ op'.cur = 0 /\ op'.queue = <<>> /\ op'.files = {}
  BY <1>1 DEF NoOp
<1>3. plugins' \in Seq(Nat) /\ \A i \in 1..Len(plugins') : i \in 1..Len(plugins) /\ plugins'[i] = plugins[i] /\ op.at = "unload"
  <2>1. plugins \in Seq(Nat)
    BY <1>0 DEF PluginTypes, Call
  <2>2. CASE op.at = "shutdown"
    BY <1>1, <2>2
  <2>3. CASE op.at = "unload"
    BY <1>1, <2>1, <2>3
  <2> QED
    BY <1>1, <2>2, <2>3
<1>4. PluginTypes'
  <2>1. op' \in Call
    BY <1>1 DEF NoOp, Call
  <2> QED
    BY <1>0, <1>1, <1>2, <1>3, <2>1 DEF PluginTypes, Call
<1>5. CallKnown'
  BY <1>1, <1>2 DEF CallKnown
<1>6. LibrariesKnown'
  <2>1. CASE op.at = "shutdown"
    <3>1. ASSUME NEW n \in 1..Len(loads) PROVE loads[n].lib # "open"
      <4> SUFFICES ASSUME loads[n].lib = "open" PROVE FALSE
        OBVIOUS
      <4>1. PICK i \in 1..Len(plugins) : plugins[i] = n
        <5>1. n # 0 /\ (n = op.cur \/ \E i \in 1..Len(plugins) : plugins[i] = n)
          BY <1>0 DEF LibrariesKnown
        <5> QED
          BY <1>1, <5>1
      <4>2. Closed(i)
        BY <1>1, <2>1 DEF Closed
      <4> QED
        BY <1>0, <4>1, <4>2 DEF PluginsKnown
    <3> QED
      BY <1>0, <1>1, <1>2, <3>1 DEF LibrariesKnown
  <2>2. CASE op.at = "unload"
    <3>1. plugins' = plugins
      BY <1>1, <2>2
    <3> QED
      BY <1>0, <1>1, <1>2, <3>1 DEF LibrariesKnown
  <2> QED
    BY <1>1, <2>1, <2>2
<1>7. PluginsKnown'
  <2> SUFFICES ASSUME NEW i \in 1..Len(plugins')
               PROVE  ~Closed(i)' /\ loads[plugins'[i]].lib = "open" /\ loads[plugins'[i]].inst = "running"
    BY <1>1 DEF PluginsKnown
  <2>1. ~Closed(i)' /\ ~Closed(i) /\ i \in 1..Len(plugins) /\ plugins'[i] = plugins[i]
    BY <1>2, <1>3 DEF Closed
  <2> QED
    BY <1>0, <1>1, <2>1 DEF PluginsKnown
<1>8. OneName'
  BY <1>0, <1>1, <1>3 DEF OneName
<1> QED
  BY <1>4, <1>5, <1>6, <1>7, <1>8 DEF PluginInv

LEMMA UnloadsKeep ==
  ASSUME PluginInv, PluginShutdown \/ PluginDestroy
  PROVE  PluginInv'
<1>0. PluginTypes /\ callbacks \in Seq(Nat)
  BY DEF PluginInv, PluginTypes, Call
<1> DEFINE h == Head(op.queue)
           x(inst) == [loads[h] EXCEPT !.inst = inst]
<1>1. PICK inst \in {"shut", "gone"} :
        /\ op.queue # <<>> /\ loads' = [loads EXCEPT ![h] = x(inst)]
        /\ callbacks' \in {callbacks, RemoveFirst(callbacks, h)} /\ UNCHANGED <<started, plugins, op, fault>>
  BY DEF PluginShutdown, PluginDestroy
<1>2. loads[h] \in Load
  <2>1. \E k \in 1..Len(plugins) : Head(op.queue) = plugins[k] /\ plugins[k] \in 1..Len(loads)
    BY <1>1, OneGoes, Zenon
  <2> QED
    BY <1>0, <2>1 DEF PluginTypes, Call
<1>3. callbacks' \in Seq(Nat)
  <2>1. RemoveFirst(callbacks, h) \in Seq(Nat)
    BY <1>0, RemovesFirst
  <2> QED
    BY <1>0, <1>1, <2>1
<1>4. x(inst) \in Load /\ x(inst).lib = loads[h].lib /\ x(inst).file = loads[h].file /\ x(inst).inst = inst
  BY <1>2 DEF Load
<1> HIDE DEF x
<1> QED
  BY <1>1, <1>3, <1>4, GoingKeeps

\* What a dispatch does, and its callbacks.
LEMMA SpeechKeeps ==
  ASSUME PluginInv, SpeechKnown, NEW t \in Speaker,
         Dispatch(t) \/ Dispatched(t) \/ \E how \in {"returns", "throws", "unregisters"} : Callback(t, how)
  PROVE  PluginInv' /\ SpeechKnown'
<1>0. callbacks \in Seq(Nat) /\ fault \in BOOLEAN /\ speech[t] \in Voice /\ speech \in [Speaker -> Voice]
  BY DEF PluginInv, PluginTypes, Call, SpeechKnown
<1>1. ASSUME NEW v \in Voice, speech' = [speech EXCEPT ![t] = v], v.due = IF v.on THEN v.heard \o v.rest ELSE v.heard
      PROVE  SpeechKnown'
  BY <1>1 DEF SpeechKnown
<1>2. CASE Dispatch(t)
  <2> DEFINE v == [on |-> TRUE, rest |-> callbacks, heard |-> <<>>, due |-> callbacks]
  <2>1. v \in Voice /\ v.due = v.heard \o v.rest /\ v.on
    BY <1>0 DEF Voice
  <2>2. speech' = [speech EXCEPT ![t] = v] /\ UNCHANGED <<managerVars, callbacks, fault>>
    BY <1>2 DEF Dispatch
  <2> HIDE DEF v
  <2>3. SpeechKnown'
    BY <1>1, <2>1, <2>2
  <2>4. callbacks' \in Seq(Nat) /\ fault' \in BOOLEAN
    BY <1>0, <2>2
  <2> QED
    BY <2>2, <2>3, <2>4, ManagerRests
<1>3. CASE Dispatched(t)
  <2> DEFINE v == [speech[t] EXCEPT !.on = FALSE]
  <2>1. /\ speech[t].on /\ speech[t].rest = <<>> /\ speech' = [speech EXCEPT ![t] = v]
        /\ UNCHANGED <<managerVars, callbacks, fault>>
    BY <1>3 DEF Dispatched
  <2>2. v \in Voice /\ ~v.on /\ v.due = speech[t].due /\ v.heard = speech[t].heard /\ speech[t].heard \in Seq(Nat)
    BY <1>0 DEF Voice
  <2>3. speech[t].due = speech[t].heard \o <<>> /\ speech[t].heard \o <<>> = speech[t].heard
    <3>1. speech[t].due = speech[t].heard \o speech[t].rest
      BY <2>1 DEF SpeechKnown
    <3>2. speech[t].heard \o <<>> = speech[t].heard
      BY <2>2
    <3> QED
      BY <2>1, <3>1, <3>2
  <2> HIDE DEF v
  <2>4. SpeechKnown'
    BY <1>1, <2>1, <2>2, <2>3
  <2>5. callbacks' \in Seq(Nat) /\ fault' \in BOOLEAN
    BY <1>0, <2>1
  <2> QED
    BY <2>1, <2>4, <2>5, ManagerRests
<1>4. ASSUME NEW how \in {"returns", "throws", "unregisters"}, Callback(t, how) PROVE PluginInv' /\ SpeechKnown'
  <2> DEFINE n == Head(speech[t].rest)
             v == [speech[t] EXCEPT !.rest = Tail(@), !.heard = Append(@, n)]
  <2>1. /\ speech[t].on /\ speech[t].rest # <<>> /\ speech' = [speech EXCEPT ![t] = v]
        /\ callbacks' \in {callbacks, RemoveFirst(callbacks, n)} /\ fault' \in BOOLEAN /\ UNCHANGED managerVars
    BY <1>4, Zenon DEF Callback
  <2>2. speech[t].rest \in Seq(Nat) /\ speech[t].heard \in Seq(Nat) /\ speech[t].due \in Seq(Nat)
    BY <1>0 DEF Voice
  <2>3. /\ Append(speech[t].heard, n) \in Seq(Nat) /\ Tail(speech[t].rest) \in Seq(Nat)
        /\ Append(speech[t].heard, n) \o Tail(speech[t].rest) = speech[t].heard \o speech[t].rest
    BY <2>1, <2>2, MovesOne
  <2>4. /\ v \in Voice /\ v.on /\ v.due = speech[t].due /\ v.heard = Append(speech[t].heard, n) /\ v.rest = Tail(speech[t].rest)
    BY <1>0, <2>1, <2>2, <2>3 DEF Voice
  <2>5. speech[t].due = speech[t].heard \o speech[t].rest
    BY <2>1 DEF SpeechKnown
  <2>6. RemoveFirst(callbacks, n) \in Seq(Nat)
    BY <1>0, RemovesFirst
  <2> HIDE DEF v, n
  <2>7. SpeechKnown'
    BY <1>1, <2>1, <2>3, <2>4, <2>5
  <2>8. callbacks' \in Seq(Nat)
    BY <1>0, <2>1, <2>6
  <2> QED
    BY <2>1, <2>7, <2>8, ManagerRests
<1> QED
  BY <1>2, <1>3, <1>4

LEMMA PluginsInductive ==
  /\ PluginsInit => PluginInv /\ SpeechKnown
  /\ PluginInv /\ SpeechKnown /\ [PluginsNext]_pluginVars => PluginInv' /\ SpeechKnown'
<1>1. PluginsInit => PluginInv /\ SpeechKnown
  <2> SUFFICES ASSUME PluginsInit PROVE PluginInv /\ SpeechKnown
    OBVIOUS
  <2>1. PluginTypes
    <3>1. op \in Call /\ op.cur = 0
      BY DEF PluginsInit, NoOp, Call
    <3> QED
      <4>1. started = FALSE /\ fault = FALSE /\ plugins = <<>> /\ loads = <<>> /\ callbacks = <<>>
        BY DEF PluginsInit
      <4>2. /\ started \in BOOLEAN /\ fault \in BOOLEAN /\ plugins \in Seq(Nat) /\ loads \in Seq(Load) /\ callbacks \in Seq(Nat)
            /\ Len(plugins) = 0 /\ Len(loads) = 0
        <5>1. started \in BOOLEAN /\ fault \in BOOLEAN
          BY <4>1, Zenon
        <5>2. <<>> \in Seq(Nat) /\ <<>> \in Seq(Load) /\ Len(<<>>) = 0
          OBVIOUS
        <5> QED
          BY <4>1, <5>1, <5>2, Zenon
      <4> QED
        BY <3>1, <4>2 DEF PluginTypes, Call
  <2>2. CallKnown
    BY DEF PluginsInit, CallKnown, NoOp
  <2>3. LibrariesKnown /\ PluginsKnown /\ OneName
    BY DEF PluginsInit, LibrariesKnown, PluginsKnown, OneName, NoOp
  <2>4. SpeechKnown
    BY DEF PluginsInit, SpeechKnown, Voice, SilentNow
  <2> QED
    BY <2>1, <2>2, <2>3, <2>4 DEF PluginInv
<1>2. ASSUME PluginInv, SpeechKnown, [PluginsNext]_pluginVars PROVE PluginInv' /\ SpeechKnown'
  <2>1. CASE UNCHANGED pluginVars
    <3>1. UNCHANGED managerVars /\ callbacks' \in Seq(Nat) /\ fault' \in BOOLEAN
      BY <1>2, <2>1 DEF pluginVars, PluginInv, PluginTypes, Call
    <3>2. SpeechKnown'
      BY <1>2, <2>1 DEF SpeechKnown, pluginVars
    <3> QED
      BY <1>2, <3>1, <3>2, ManagerRests
  <2>2. CASE PluginsNext
    <3>1. CASE \E t \in Speaker : Dispatch(t) \/ Dispatched(t) \/ \E how \in {"returns", "throws", "unregisters"} : Callback(t, how)
      BY <1>2, <3>1, SpeechKeeps
    <3>2. CASE PluginSteps \/ Initialize \/ Shutdown \/ \E f \in PluginFile : LoadPlugin(f) \/ UnloadPlugin(NameOf(f))
      <4>1. PluginInv'
        BY <1>2, <3>2, BeginsKeep, LoadsKeep, PluginRuns, LoadingEnded, UnloadsKeep, CloseKeeps, UnloadEnds DEF PluginSteps
      <4>2. UNCHANGED speech
        BY <3>2 DEF PluginSteps, Initialize, Shutdown, LoadPlugin, UnloadPlugin, OpenLibrary, Opened, PluginInitialize,
                    LoadEnd, PluginShutdown, PluginDestroy, CloseLibrary, UnloadEnd
      <4> QED
        BY <1>2, <4>1, <4>2 DEF SpeechKnown
    <3> QED
      BY <2>2, <3>1, <3>2 DEF PluginsNext
  <2> QED
    BY <1>2, <2>1, <2>2
<1> QED
  BY <1>1, <1>2

LEMMA PluginsKnowEnough == PluginInv /\ SpeechKnown => PluginsSafe
<1> SUFFICES ASSUME PluginInv, SpeechKnown PROVE PluginsSafe
  OBVIOUS
<1>0. PluginTypes /\ CallKnown /\ LibrariesKnown /\ PluginsKnown /\ OneName
  BY DEF PluginInv
<1>1. DOMAIN plugins = 1..Len(plugins) /\ DOMAIN loads = 1..Len(loads)
  BY <1>0 DEF PluginTypes, Call
<1>2. PluginsTypeOK
  BY <1>0, <1>1 DEF PluginTypes, Call, PluginsTypeOK, ToSet
<1>3. LibrariesBalanced
  <2>1. ASSUME op = NoOp, NEW n \in 1..Len(loads) PROVE loads[n].lib = "open" <=> n \in ToSet(plugins)
    <3>1. op.cur = 0 /\ op.at = "idle" /\ n # 0
      BY <2>1 DEF NoOp
    <3>2. loads[n].lib = "open" => \E i \in 1..Len(plugins) : plugins[i] = n
      BY <1>0, <3>1 DEF LibrariesKnown
    <3>3. \A i \in 1..Len(plugins) : loads[plugins[i]].lib = "open"
      BY <1>0, <3>1 DEF PluginsKnown, Closed
    <3> QED
      BY <1>1, <3>2, <3>3 DEF ToSet
  <2> QED
    BY <1>0, <1>1, <2>1 DEF LibrariesKnown, LibrariesBalanced
<1>4. NamesUnique
  BY <1>0, <1>1 DEF OneName, NamesUnique
<1>5. HeardOnce
  BY DEF SpeechKnown, HeardOnce
<1> QED
  BY <1>2, <1>3, <1>4, <1>5 DEF PluginsSafe

LEMMA LastGoesFirst ==
  ASSUME PluginInv, [PluginsNext]_pluginVars, op.at = "shutdown", NEW i \in DOMAIN plugins, NEW j \in DOMAIN plugins,
         i < j, loads[plugins[i]].inst = "running", loads'[plugins[i]].inst # "running"
  PROVE  loads[plugins[j]].lib = "closed"
<1>0. PluginTypes /\ CallKnown /\ LibrariesKnown /\ PluginsKnown /\ OneName
  BY DEF PluginInv
<1>1. /\ i \in 1..Len(plugins) /\ j \in 1..Len(plugins) /\ op.cur = 0 /\ op # NoOp
      /\ \A m \in 1..Len(plugins) : plugins[m] \in 1..Len(loads)
      /\ loads \in Seq(Load)
  <2>1. op # NoOp
    BY DEF NoOp
  <2>2. op.cur = 0
    BY <1>0 DEF CallKnown
  <2> QED
    BY <1>0, <2>1, <2>2 DEF PluginTypes, Call
<1>2. op.queue # <<>> /\ Head(op.queue) = plugins[i]
  <2>1. loads' # loads
    OBVIOUS
  <2>2. PluginShutdown \/ PluginDestroy \/ CloseLibrary
    BY <1>1, <2>1 DEF PluginsNext, PluginSteps, OpenLibrary, PluginInitialize, LoadEnd, UnloadEnd, Initialize, Shutdown,
                      LoadPlugin, UnloadPlugin, Dispatch, Dispatched, Callback, managerVars, pluginVars
  <2>3. CASE PluginShutdown \/ PluginDestroy
    <3>1. PICK inst : op.queue # <<>> /\ loads' = [loads EXCEPT ![Head(op.queue)].inst = inst]
      BY <2>3 DEF PluginShutdown, PluginDestroy
    <3> QED
      BY <1>1, <3>1
  <2>4. CASE CloseLibrary
    <3>1. loads' = [loads EXCEPT ![Head(op.queue)].lib = "closed"]
      BY <2>4 DEF CloseLibrary
    <3> QED
      BY <1>1, <3>1
  <2> QED
    BY <2>2, <2>3, <2>4
<1>3. i = Len(op.queue)
  <2>1. PICK k \in 1..Len(plugins) :
          /\ Head(op.queue) = plugins[k]
          /\ \A m \in 1..Len(plugins) : plugins[m] = plugins[k] => m = k
          /\ (op.at = "unload" /\ op.queue = <<plugins[k]>>) \/ (op.at = "shutdown" /\ k = Len(op.queue))
    BY <1>2, OneGoes, Zenon
  <2> QED
    BY <1>1, <1>2, <2>1
<1>4. Closed(j)
  BY <1>3 DEF Closed
<1> QED
  BY <1>0, <1>1, <1>4 DEF PluginsKnown

(* ------------------------------------ Commands ------------------------------------ *)

PostedMessage == {"shell", "load", "hide", "help"}
Texts == Program \cup {""}

RunnerState == [at : {"idle", "sync", "sleep", "back"}, setting : 0..MaxSettings_]

CommandTypes ==
  /\ runner \in RunnerState
  /\ syncing \in BOOLEAN /\ eSync \in BOOLEAN /\ paced \in BOOLEAN /\ ncommands \in 0..MaxCommands_
  /\ syncs \in [count : 0..ncommands, stray : BOOLEAN] /\ notices \subseteq 1..syncs.count
  /\ current \in 1..MaxSettings_ /\ kept = {current} /\ building \in 0..MaxSettings_
  /\ help \in Texts /\ balloon \in Texts /\ inbox \in Seq(PostedMessage) /\ Len(inbox) <= ncommands
  /\ libs \in [running : 0..ncommands, left : {0}]

\* A command that waits with m_cs released holds m_isSynchronizing, and its setting stays.
WaitKnown ==
  /\ runner.at = "idle" => runner = Resting /\ ~syncing
  /\ runner.at # "idle" => syncing /\ runner.setting = current

\* The last message about the help is for its present text, or the balloon shows it.
Balloon(text) == {IF text = "" THEN "hide" ELSE "help"}
HelpKnown ==
  \/ NoneIn(inbox, {"help", "hide"}) /\ balloon = help
  \/ EndsIn(inbox, {"help", "hide"}, Balloon(help))

\* When keys are paced one message waits at most, and it is for the present setting.
PostPaced ==
  /\ inbox = <<>> => ran = asked
  /\ inbox # <<>> =>
       /\ building = 0 /\ \E m \in PostedMessage : inbox = <<m>>
       /\ inbox # <<"shell">> => ran = asked
       /\ inbox = <<"shell">> => asked = Append(ran, slot.program) /\ slot.setting = current

\* When keys are paced the event is set only for the &Sync that waits, by its own notification.
SyncPaced ==
  /\ ~syncs.stray
  /\ eSync => runner.at = "sync" /\ notices = {}
  /\ runner.at = "sync" => notices \subseteq {syncs.count}
  /\ runner.at = "back" => notices = {} \/ building # 0
  /\ runner.at = "sleep" => notices = {}

CommandInv == CommandTypes /\ WaitKnown /\ HelpKnown /\ (paced => PostPaced /\ SyncPaced)

\* The commands that only post a message.
LEMMA PostedKeeps ==
  ASSUME CommandInv, Command, NEW m \in PostedMessage, inbox' = Append(inbox, m),
         UNCHANGED <<runVars, settingVars, balloon, ran, libs>>,
         m \in {"help", "hide"} => m \in Balloon(help') /\ help' \in Texts,
         m \notin {"help", "hide"} => UNCHANGED help,
         m = "shell" => asked' = Append(asked, slot'.program) /\ slot'.setting = current,
         m # "shell" => UNCHANGED <<asked, slot>>
  PROVE  CommandInv'
<1> USE CommandAssumption DEF CommandAssumption
<1>1. CommandTypes /\ WaitKnown /\ HelpKnown /\ (paced => PostPaced /\ SyncPaced)
  BY DEF CommandInv
<1>2. /\ ncommands' \in 0..MaxCommands_ /\ ncommands' = ncommands + 1 /\ paced' = paced
      /\ paced => inbox = <<>> /\ building = 0 /\ notices = {}
  BY <1>1 DEF Command, CommandTypes, RunnerState
<1>3. inbox' \in Seq(PostedMessage) /\ Len(inbox') = Len(inbox) + 1 /\ inbox' = inbox \o <<m>> /\ <<m>> \in Seq(PostedMessage)
  BY <1>1, AppendIsConcat, AppendProperties DEF CommandTypes, RunnerState
<1>8. inbox \in Seq(PostedMessage)
  BY <1>1 DEF CommandTypes, RunnerState
<1>4. CommandTypes'
  <2>1. help' \in Texts
    BY <1>1 DEF CommandTypes, RunnerState, PostedMessage
  <2>2. syncs' \in [count : 0..ncommands', stray : BOOLEAN] /\ libs' \in [running : 0..ncommands', left : {0}]
    BY <1>1, <1>2 DEF CommandTypes, RunnerState, runVars
  <2>3. Len(inbox') <= ncommands'
    BY <1>1, <1>2, <1>3 DEF CommandTypes, RunnerState
  <2> QED
    BY <1>1, <1>2, <1>3, <2>1, <2>2, <2>3 DEF CommandTypes, RunnerState, runVars, settingVars
<1>5. WaitKnown'
  BY <1>1 DEF WaitKnown, runVars, settingVars
<1>6. HelpKnown'
  <2> DEFINE K == {"help", "hide"}
  <2>1. CASE m \in K
    <3>1. EndsIn(<<m>>, K, Balloon(help'))
      BY <2>1, OneElement
    <3>2. EndsIn(inbox \o <<m>>, K, Balloon(help'))
      BY <1>8, <1>3, <3>1, EndsAfter
    <3> QED
      BY <1>3, <3>2 DEF HelpKnown
  <2>2. CASE m \notin K
    <3>1. NoneIn(<<m>>, K) /\ help' = help /\ balloon' = balloon
      BY <2>2, OneElement
    <3>2. CASE NoneIn(inbox, K) /\ balloon = help
      <4>1. NoneIn(inbox \o <<m>>, K)
        BY <1>8, <1>3, <3>1, <3>2, NoneAfter
      <4> QED
        BY <1>3, <4>1, <3>1, <3>2 DEF HelpKnown
    <3>3. CASE EndsIn(inbox, K, Balloon(help))
      <4>1. EndsIn(inbox \o <<m>>, K, Balloon(help))
        BY <1>8, <1>3, <3>1, <3>3, EndsBefore
      <4> QED
        BY <1>3, <4>1, <3>1 DEF HelpKnown
    <3> QED
      BY <1>1, <3>2, <3>3 DEF HelpKnown
  <2> QED
    BY <2>1, <2>2
<1>7. ASSUME paced PROVE PostPaced' /\ SyncPaced'
  <2>1. inbox = <<>> /\ building = 0 /\ PostPaced /\ SyncPaced
    BY <1>1, <1>2, <1>7
  <2>2. inbox' = <<m>> /\ inbox' # <<>> /\ (inbox' = <<"shell">> <=> m = "shell")
    BY <1>3, <2>1
  <2>3. SyncPaced'
    BY <2>1 DEF SyncPaced, runVars, settingVars
  <2>4. ran = asked /\ ran' = ran /\ building' = 0 /\ current' = current
    BY <2>1 DEF PostPaced, settingVars
  <2>5. PostPaced'
    BY <2>2, <2>4 DEF PostPaced
  <2> QED
    BY <2>3, <2>5
<1> QED
  BY <1>2, <1>4, <1>5, <1>6, <1>7 DEF CommandInv

LEMMA LoadKeeps ==
  ASSUME CommandInv, LoadSetting
  PROVE  CommandInv'
<1>1. /\ Command /\ UNCHANGED <<runVars, settingVars, slot, help, balloon, asked, ran, libs>>
      /\ inbox' = Append(inbox, "load") \/ inbox' = inbox
  BY DEF LoadSetting
<1>4. Command
  BY <1>1
<1>2. CASE inbox' = Append(inbox, "load")
  <2>1. "load" \in PostedMessage /\ "load" \notin {"help", "hide"} /\ "load" # "shell"
    BY DEF PostedMessage
  <2> QED
    BY <1>1, <1>2, <2>1, PostedKeeps
<1>3. CASE inbox' = inbox
  <2>0. CommandTypes /\ WaitKnown /\ HelpKnown /\ (paced => PostPaced /\ SyncPaced)
    BY DEF CommandInv
  <2>1. ncommands' = ncommands + 1 /\ ncommands' \in 0..MaxCommands_ /\ paced' = paced
    <3>1. ncommands \in 0..MaxCommands_
      BY <2>0 DEF CommandTypes, RunnerState
    <3> QED
      BY <1>4, <3>1, CommandAssumption DEF CommandAssumption, Command
  <2>2. /\ libs' \in [running : 0..ncommands', left : {0}] /\ syncs' \in [count : 0..ncommands', stray : BOOLEAN]
        /\ Len(inbox') <= ncommands'
    <3>1. /\ libs \in [running : 0..ncommands, left : {0}] /\ syncs \in [count : 0..ncommands, stray : BOOLEAN]
          /\ Len(inbox) <= ncommands /\ ncommands \in Nat /\ inbox \in Seq(PostedMessage)
      BY <2>0, CommandAssumption DEF CommandAssumption, CommandTypes, RunnerState
    <3>2. libs' = libs /\ syncs' = syncs
      BY <1>1 DEF runVars
    <3> QED
      BY <1>3, <2>1, <3>1, <3>2
  <2>3. CommandTypes'
    BY <1>1, <1>3, <2>0, <2>1, <2>2 DEF CommandTypes, RunnerState, runVars, settingVars
  <2>4. WaitKnown' /\ HelpKnown' /\ (PostPaced => PostPaced') /\ (SyncPaced => SyncPaced')
    BY <1>1, <1>3, <2>0 DEF WaitKnown, HelpKnown, PostPaced, SyncPaced, runVars, settingVars
  <2> QED
    BY <2>0, <2>1, <2>3, <2>4 DEF CommandInv
<1> QED
  BY <1>1, <1>2, <1>3

LEMMA PostsKeep ==
  ASSUME CommandInv,
         \/ \E p \in Program : ShellExecute(p) \/ \E text \in {"", p} : HelpMessage(text)
         \/ LoadSetting
  PROVE  CommandInv'
<1>1. ASSUME NEW p \in Program, ShellExecute(p) PROVE CommandInv'
  <2>1. /\ Command /\ inbox' = Append(inbox, "shell") /\ UNCHANGED <<runVars, settingVars, help, balloon, ran, libs>>
        /\ asked' = Append(asked, slot'.program) /\ slot'.setting = current
    BY <1>1 DEF ShellExecute
  <2>2. "shell" \in PostedMessage /\ "shell" \notin {"help", "hide"}
    BY DEF PostedMessage
  <2> QED
    BY <2>1, <2>2, PostedKeeps
<1>2. ASSUME NEW text \in Texts, HelpMessage(text) PROVE CommandInv'
  <2> DEFINE m == IF text = "" THEN "hide" ELSE "help"
  <2>1. /\ Command /\ inbox' = Append(inbox, m)
        /\ UNCHANGED <<runVars, settingVars, slot, balloon, asked, ran, libs>> /\ help' = text
    BY <1>2 DEF HelpMessage
  <2>2. m \in PostedMessage /\ m \in {"help", "hide"} /\ m \in Balloon(help') /\ m # "shell"
    BY <2>1 DEF PostedMessage, Balloon
  <2> QED
    BY <2>1, <2>2, PostedKeeps
<1> QED
  BY <1>1, <1>2, LoadKeeps DEF Texts

\* The commands that wait, and how they go on.
LEMMA WaitsKeep ==
  ASSUME CommandInv, LateNotice = FALSE, SyncCommand \/ Wait \/ HandlerSteps
  PROVE  CommandInv'
<1> USE CommandAssumption DEF CommandAssumption
<1>0. CommandTypes /\ WaitKnown /\ HelpKnown /\ (paced => PostPaced /\ SyncPaced)
  BY DEF CommandInv
<1>1. CASE SyncCommand
  <2>1. /\ runner = Resting /\ ncommands' \in 0..MaxCommands_ /\ ncommands' = ncommands + 1 /\ paced' = paced
        /\ paced => notices = {}
    BY <1>0, <1>1 DEF SyncCommand, Command, CommandTypes, RunnerState
  <2>2. CommandTypes'
    <3>1. syncs' \in [count : 0..ncommands', stray : BOOLEAN] /\ syncs'.count = syncs.count + 1
      BY <1>0, <1>1, <2>1 DEF SyncCommand, CommandTypes, RunnerState
    <3>2. notices' \subseteq 1..syncs'.count
      BY <1>0, <1>1, <3>1 DEF SyncCommand, CommandTypes, RunnerState
    <3>3. runner' \in RunnerState
      BY <1>0, <1>1 DEF SyncCommand, CommandTypes, RunnerState
    <3>4. libs' \in [running : 0..ncommands', left : {0}] /\ inbox' \in Seq(PostedMessage) /\ Len(inbox') <= ncommands'
      BY <1>0, <1>1, <2>1 DEF SyncCommand, CommandTypes, RunnerState, postVars
    <3> QED
      BY <1>0, <1>1, <2>1, <3>1, <3>2, <3>3, <3>4 DEF SyncCommand, CommandTypes, RunnerState, postVars, settingVars
  <2>3. WaitKnown'
    BY <1>0, <1>1 DEF SyncCommand, WaitKnown, settingVars
  <2>4. HelpKnown' /\ (PostPaced => PostPaced')
    BY <1>0, <1>1 DEF SyncCommand, HelpKnown, PostPaced, postVars, settingVars
  <2>5. ASSUME paced PROVE SyncPaced'
    <3>1. eSync' = FALSE /\ syncs'.stray = FALSE /\ notices' = {syncs'.count}
      BY <1>0, <1>1, <2>1, <2>5 DEF SyncCommand, SyncPaced, Resting, CommandTypes, RunnerState
    <3>2. runner'.at = "sync"
      BY <1>1 DEF SyncCommand
    <3> QED
      BY <3>1, <3>2 DEF SyncPaced
  <2> QED
    BY <1>0, <2>1, <2>2, <2>3, <2>4, <2>5 DEF CommandInv
<1>2. CASE Wait
  <2>1. /\ runner = Resting /\ ncommands' \in 0..MaxCommands_ /\ ncommands' = ncommands + 1 /\ paced' = paced
        /\ paced => notices = {}
        /\ UNCHANGED <<eSync, notices, syncs, settingVars, postVars, libs>>
    BY <1>0, <1>2 DEF Wait, Command, CommandTypes, RunnerState
  <2>2. \/ syncing' = TRUE /\ runner' = [at |-> "sleep", setting |-> current]
        \/ UNCHANGED <<syncing, runner>>
    BY <1>2 DEF Wait
  <2>3. CommandTypes'
    <3>1. runner' \in RunnerState /\ syncing' \in BOOLEAN
      <4>1. current \in 1..MaxSettings_ /\ syncing \in BOOLEAN
            /\ runner \in RunnerState
        BY <1>0 DEF CommandTypes, RunnerState
      <4>2. [at |-> "sleep", setting |-> current] \in RunnerState
        BY <4>1 DEF RunnerState
      <4> QED
        BY <2>2, <4>1, <4>2
    <3>2. /\ libs' \in [running : 0..ncommands', left : {0}] /\ syncs' \in [count : 0..ncommands', stray : BOOLEAN]
          /\ Len(inbox') <= ncommands' /\ inbox' \in Seq(PostedMessage)
      BY <1>0, <2>1 DEF CommandTypes, RunnerState, postVars
    <3> QED
      BY <1>0, <2>1, <3>1, <3>2 DEF CommandTypes, RunnerState, postVars, settingVars
  <2>4. WaitKnown'
    BY <1>0, <2>1, <2>2 DEF WaitKnown, settingVars
  <2>5. HelpKnown' /\ (PostPaced => PostPaced')
    BY <1>0, <2>1 DEF HelpKnown, PostPaced, postVars, settingVars
  <2>6. ASSUME paced PROVE SyncPaced'
    <3>1. eSync' = FALSE /\ syncs'.stray = FALSE /\ notices' = {}
      BY <1>0, <2>1, <2>6 DEF SyncPaced, Resting, CommandTypes, RunnerState
    <3>2. runner'.at # "sync"
      BY <2>1, <2>2 DEF Resting
    <3> QED
      BY <3>1, <3>2 DEF SyncPaced
  <2> QED
    BY <1>0, <2>1, <2>3, <2>4, <2>5, <2>6 DEF CommandInv
<1>3. CASE SyncWoken
  <2>1. /\ runner.at = "sync" /\ eSync /\ eSync' = FALSE /\ runner' = [runner EXCEPT !.at = "back"]
        /\ syncs' = [syncs EXCEPT !.stray = @ \/ syncs.count \in notices]
        /\ UNCHANGED <<syncing, notices, settingVars, postVars, libs, paced, ncommands>>
    BY <1>3 DEF SyncWoken
  <2>2. /\ runner' \in RunnerState
        /\ runner'.at = "back" /\ runner'.setting = runner.setting
        /\ syncs' \in [count : 0..ncommands, stray : BOOLEAN] /\ syncs'.count = syncs.count
        /\ syncs'.stray = (syncs.stray \/ syncs.count \in notices)
    BY <1>0, <2>1 DEF CommandTypes, RunnerState
  <2>3. CommandTypes'
    BY <1>0, <2>1, <2>2 DEF CommandTypes, RunnerState, settingVars, postVars
  <2>4. WaitKnown'
    BY <1>0, <2>1, <2>2 DEF WaitKnown, settingVars
  <2>5. HelpKnown' /\ (PostPaced => PostPaced')
    BY <1>0, <2>1 DEF HelpKnown, PostPaced, postVars, settingVars
  <2>6. SyncPaced => SyncPaced'
    BY <2>1, <2>2 DEF SyncPaced
  <2> QED
    BY <1>0, <2>1, <2>3, <2>4, <2>5, <2>6 DEF CommandInv
<1>4. CASE TimesOut
  <2>1. /\ runner.at = "sync" /\ ~eSync /\ (notices = {} \/ building # 0) /\ runner' = [runner EXCEPT !.at = "back"]
        /\ UNCHANGED <<syncing, eSync, notices, syncs, settingVars, postVars, libs, paced, ncommands>>
    BY <1>4 DEF TimesOut
  <2>2. /\ runner' \in RunnerState
        /\ runner'.at = "back" /\ runner'.setting = runner.setting
    BY <1>0, <2>1 DEF CommandTypes, RunnerState
  <2>3. CommandTypes'
    BY <1>0, <2>1, <2>2 DEF CommandTypes, RunnerState, settingVars, postVars
  <2>4. WaitKnown'
    BY <1>0, <2>1, <2>2 DEF WaitKnown, settingVars
  <2>5. HelpKnown' /\ (PostPaced => PostPaced')
    BY <1>0, <2>1 DEF HelpKnown, PostPaced, postVars, settingVars
  <2>6. SyncPaced => SyncPaced'
    BY <2>1, <2>2 DEF SyncPaced, settingVars
  <2> QED
    BY <1>0, <2>1, <2>3, <2>4, <2>5, <2>6 DEF CommandInv
<1>5. CASE Back
  <2>1. /\ runner.at \in {"sleep", "back"} /\ runner' = Resting /\ syncing' = FALSE
        /\ UNCHANGED <<eSync, notices, syncs, settingVars, postVars, libs, paced, ncommands>>
    BY <1>5 DEF Back
  <2>2. CommandTypes'
    <3>1. runner' \in RunnerState
      BY <2>1 DEF Resting, RunnerState
    <3> QED
      BY <1>0, <2>1, <3>1 DEF CommandTypes, RunnerState, settingVars, postVars
  <2>3. WaitKnown'
    BY <2>1 DEF WaitKnown, Resting
  <2>4. HelpKnown' /\ (PostPaced => PostPaced')
    BY <1>0, <2>1 DEF HelpKnown, PostPaced, postVars, settingVars
  <2>5. SyncPaced => SyncPaced'
    BY <2>1 DEF SyncPaced, Resting
  <2> QED
    BY <1>0, <2>1, <2>2, <2>3, <2>4, <2>5 DEF CommandInv
<1> QED
  BY <1>1, <1>2, <1>3, <1>4, <1>5 DEF HandlerSteps

LEMMA LibrariesKeep ==
  ASSUME CommandInv, FALSE \notin Threaded, (\E thread \in Threaded : PlugIn(thread)) \/ PlugInThread \/ EngineDeleted
  PROVE  CommandInv'
<1> USE CommandAssumption DEF CommandAssumption
<1>0. CommandTypes /\ WaitKnown /\ HelpKnown /\ (paced => PostPaced /\ SyncPaced)
  BY DEF CommandInv
<1>1. /\ UNCHANGED <<runVars, settingVars, slot, help, balloon, inbox, asked, ran, paced>>
      /\ ncommands' \in 0..MaxCommands_ /\ ncommands <= ncommands'
      /\ libs' \in [running : 0..ncommands', left : {0}]
  <2>1. ASSUME NEW thread \in Threaded, PlugIn(thread)
        PROVE  /\ UNCHANGED <<runVars, settingVars, slot, help, balloon, inbox, asked, ran, paced>>
               /\ ncommands' \in 0..MaxCommands_ /\ ncommands <= ncommands'
               /\ libs' \in [running : 0..ncommands', left : {0}]
    <3>1. thread = TRUE
      OBVIOUS
    <3>2. ncommands' = ncommands + 1 /\ ncommands' \in 0..MaxCommands_ /\ (libs' = libs \/ libs' = [libs EXCEPT !.running = @ + 1])
      BY <1>0, <2>1, <3>1 DEF PlugIn, Command, CommandTypes, RunnerState
    <3>3. libs' \in [running : 0..ncommands', left : {0}]
      BY <1>0, <3>2 DEF CommandTypes, RunnerState
    <3> QED
      BY <1>0, <2>1, <3>2, <3>3 DEF PlugIn, Command, postVars, CommandTypes, RunnerState
  <2>2. CASE PlugInThread
    <3>1. libs.running \in 0..ncommands /\ libs.running > 0 /\ libs.left = 0 /\ libs' = [libs EXCEPT !.running = @ - 1]
      BY <1>0, <2>2 DEF PlugInThread, CommandTypes, RunnerState
    <3>2. libs' \in [running : 0..ncommands, left : {0}]
      BY <1>0, <3>1 DEF CommandTypes, RunnerState
    <3> QED
      BY <1>0, <2>2, <3>2 DEF PlugInThread, CommandTypes, RunnerState
  <2>3. CASE EngineDeleted
    BY <1>0, <2>3 DEF EngineDeleted, CommandTypes, RunnerState, postVars
  <2> QED
    BY <2>1, <2>2, <2>3
<1>2. CommandTypes'
  <2>1. syncs' \in [count : 0..ncommands', stray : BOOLEAN] /\ Len(inbox') <= ncommands'
    BY <1>0, <1>1 DEF CommandTypes, RunnerState, runVars
  <2> QED
    BY <1>0, <1>1, <2>1 DEF CommandTypes, RunnerState, runVars, settingVars
<1>3. WaitKnown' /\ HelpKnown' /\ (PostPaced => PostPaced') /\ (SyncPaced => SyncPaced')
  BY <1>0, <1>1 DEF WaitKnown, HelpKnown, PostPaced, SyncPaced, runVars, settingVars
<1> QED
  BY <1>0, <1>1, <1>2, <1>3 DEF CommandInv

\* The window thread.
LEMMA ServedKeeps ==
  ASSUME CommandInv, EngineNotify
  PROVE  CommandInv'
<1> USE CommandAssumption DEF CommandAssumption
<1>0. CommandTypes /\ WaitKnown /\ HelpKnown /\ (paced => PostPaced /\ SyncPaced)
  BY DEF CommandInv
<1> DEFINE K == {"help", "hide"}
<1>1. /\ building = 0 /\ inbox # <<>> /\ inbox' = Tail(inbox)
      /\ UNCHANGED <<runVars, current, kept, slot, help, asked, libs, paced, ncommands>>
  BY DEF EngineNotify
<1>2. /\ Head(inbox) \in PostedMessage /\ inbox' \in Seq(PostedMessage) /\ Len(inbox') = Len(inbox) - 1
  BY <1>0, <1>1 DEF CommandTypes, RunnerState
<1>3. building' \in 0..MaxSettings_ /\ balloon' \in Texts
  <2>1. CASE Head(inbox) = "shell"
    BY <1>0, <1>1, <2>1 DEF EngineNotify, Execute, CommandTypes, RunnerState
  <2>2. CASE Head(inbox) = "load"
    BY <1>0, <2>2 DEF EngineNotify, LoadFile, CommandTypes, RunnerState
  <2>3. CASE Head(inbox) \in K
    BY <1>0, <1>1, <2>3 DEF EngineNotify, ShowHelp, CommandTypes, RunnerState, Texts
  <2> QED
    BY <1>2, <2>1, <2>2, <2>3 DEF PostedMessage
<1>4. CommandTypes'
  BY <1>0, <1>1, <1>2, <1>3 DEF CommandTypes, RunnerState, runVars
<1>5. WaitKnown' /\ (SyncPaced => SyncPaced')
  BY <1>0, <1>1 DEF WaitKnown, SyncPaced, runVars
<1>6. HelpKnown'
  <2>1. inbox \in Seq(PostedMessage)
    BY <1>0 DEF CommandTypes, RunnerState
  <2>2. CASE NoneIn(inbox, K) /\ balloon = help
    <3>1. Head(inbox) \notin K /\ NoneIn(Tail(inbox), K)
      BY <1>1, <2>1, <2>2, NoneNext
    <3>2. balloon' = balloon
      BY <1>2, <3>1 DEF EngineNotify, Execute, LoadFile, PostedMessage
    <3> QED
      BY <1>1, <2>2, <3>1, <3>2 DEF HelpKnown
  <2>3. CASE EndsIn(inbox, K, Balloon(help))
    <3>1. \/ EndsIn(Tail(inbox), K, Balloon(help))
          \/ Head(inbox) \in K /\ Head(inbox) \in Balloon(help) /\ NoneIn(Tail(inbox), K)
      BY <1>1, <2>1, <2>3, EndsNext
    <3>2. CASE EndsIn(Tail(inbox), K, Balloon(help))
      BY <1>1, <3>2 DEF HelpKnown
    <3>3. CASE Head(inbox) \in K /\ Head(inbox) \in Balloon(help) /\ NoneIn(Tail(inbox), K)
      <4>1. balloon' = IF Head(inbox) = "help" THEN help ELSE ""
        BY <3>3 DEF EngineNotify, ShowHelp
      <4>2. balloon' = help /\ help' = help
        BY <1>1, <3>3, <4>1 DEF Balloon
      <4> QED
        BY <1>1, <3>3, <4>2 DEF HelpKnown
    <3> QED
      BY <3>1, <3>2, <3>3
  <2> QED
    BY <1>0, <2>2, <2>3 DEF HelpKnown
<1>7. ASSUME paced PROVE PostPaced'
  <2>1. PICK m \in PostedMessage : inbox = <<m>>
    BY <1>0, <1>1, <1>7 DEF PostPaced
  <2>2. Head(inbox) = m /\ inbox' = <<>> /\ asked' = asked
    BY <1>1, <2>1
  <2>3. CASE m = "shell"
    <3>1. asked = Append(ran, slot.program) /\ slot.setting \in kept
      BY <1>0, <1>1, <1>7, <2>1, <2>3 DEF PostPaced, CommandTypes, RunnerState
    <3>2. ran' = Append(ran, slot.program)
      BY <2>2, <2>3, <3>1 DEF EngineNotify, Execute
    <3> QED
      BY <2>2, <3>1, <3>2 DEF PostPaced
  <2>4. CASE m # "shell"
    <3>1. ran = asked
      BY <1>0, <1>1, <1>7, <2>1, <2>4 DEF PostPaced
    <3>2. ran' = ran
      BY <2>1, <2>2, <2>4 DEF EngineNotify, LoadFile, ShowHelp, PostedMessage
    <3> QED
      BY <2>2, <3>1, <3>2 DEF PostPaced
  <2> QED
    BY <2>3, <2>4
<1> QED
  BY <1>0, <1>1, <1>4, <1>5, <1>6, <1>7 DEF CommandInv

LEMMA WindowThreadKeeps ==
  ASSUME CommandInv, SetSetting \/ (\E n \in notices : Notify(n)) \/ ReloadMenu
  PROVE  CommandInv'
<1> USE CommandAssumption DEF CommandAssumption
<1>0. CommandTypes /\ WaitKnown /\ HelpKnown /\ (paced => PostPaced /\ SyncPaced)
  BY DEF CommandInv
<1>1. CASE SetSetting
  <2>1. /\ building # 0 /\ ~syncing /\ current' = building /\ kept' = {building} /\ building' = 0
        /\ UNCHANGED <<runVars, postVars, libs, paced, ncommands>>
    BY <1>1 DEF SetSetting
  <2>2. CommandTypes'
    BY <1>0, <2>1 DEF CommandTypes, RunnerState, runVars, postVars
  <2>3. runner = Resting /\ runner.at = "idle"
    BY <1>0, <2>1 DEF WaitKnown, Resting
  <2>4. WaitKnown' /\ HelpKnown'
    BY <1>0, <2>1, <2>3 DEF WaitKnown, HelpKnown, runVars, postVars
  <2>5. (PostPaced => PostPaced') /\ (SyncPaced => SyncPaced')
    BY <2>1, <2>3 DEF PostPaced, SyncPaced, runVars, postVars
  <2> QED
    BY <1>0, <2>1, <2>2, <2>4, <2>5 DEF CommandInv
<1>2. ASSUME NEW n \in notices, Notify(n) PROVE CommandInv'
  <2>1. /\ building = 0 /\ notices' = notices \ {n} /\ (eSync' = (eSync \/ syncing) \/ eSync' = eSync)
        /\ UNCHANGED <<runner, syncing, syncs, settingVars, postVars, libs, paced, ncommands>>
    BY <1>2 DEF Notify
  <2>2. eSync' \in BOOLEAN
    BY <1>0, <2>1 DEF CommandTypes, RunnerState
  <2>3. CommandTypes'
    BY <1>0, <2>1, <2>2 DEF CommandTypes, RunnerState, settingVars, postVars
  <2>4. WaitKnown' /\ HelpKnown' /\ (PostPaced => PostPaced')
    BY <1>0, <2>1 DEF WaitKnown, HelpKnown, PostPaced, settingVars, postVars
  <2>5. ASSUME SyncPaced PROVE SyncPaced'
    <3>1. ~syncs'.stray /\ runner' = runner /\ notices' \subseteq notices
      BY <2>1, <2>5 DEF SyncPaced
    <3>2. runner.at \notin {"back", "sleep"}
      BY <1>2, <2>1, <2>5 DEF SyncPaced
    <3>3. CASE runner.at = "sync"
      <4>1. notices' = {}
        BY <1>2, <2>1, <2>5, <3>3 DEF SyncPaced
      <4> QED
        BY <3>1, <3>3, <4>1 DEF SyncPaced
    <3>4. CASE runner.at = "idle"
      <4>1. ~eSync /\ ~syncing
        BY <1>0, <2>5, <3>4 DEF SyncPaced, WaitKnown
      <4> QED
        <5>1. ~eSync'
          BY <2>1, <4>1, Zenon
        <5>2. runner'.at = "idle"
          BY <3>1, <3>4
        <5> QED
          BY <3>1, <5>1, <5>2 DEF SyncPaced
    <3> QED
      BY <1>0, <3>2, <3>3, <3>4 DEF CommandTypes, RunnerState
  <2> QED
    BY <1>0, <2>1, <2>3, <2>4, <2>5 DEF CommandInv
<1>3. CASE ReloadMenu
  <2>1. /\ current < MaxSettings_ /\ (paced => inbox = <<>>) /\ building' = current + 1
        /\ UNCHANGED <<runVars, current, kept, postVars, libs, paced, ncommands>>
    BY <1>3 DEF ReloadMenu
  <2>2. CommandTypes'
    BY <1>0, <2>1 DEF CommandTypes, RunnerState, runVars, postVars
  <2>3. WaitKnown' /\ HelpKnown' /\ (paced => PostPaced')
    BY <1>0, <2>1 DEF WaitKnown, HelpKnown, PostPaced, runVars, postVars
  <2>4. building' # 0
    BY <1>0, <2>1 DEF CommandTypes, RunnerState
  <2>5. SyncPaced => SyncPaced'
    BY <2>1, <2>4 DEF SyncPaced, runVars
  <2> QED
    BY <1>0, <2>1, <2>2, <2>3, <2>5 DEF CommandInv
<1> QED
  BY <1>1, <1>2, <1>3

LEMMA CommandsInductive ==
  ASSUME LateNotice = FALSE, FALSE \notin Threaded
  PROVE  /\ CommandsInit => CommandInv
         /\ CommandInv /\ [CommandsNext]_commandVars => CommandInv'
         /\ CommandInv => CommandsSafe
<1> USE CommandAssumption DEF CommandAssumption
<1>1. CommandsInit => CommandInv
  <2> SUFFICES ASSUME CommandsInit PROVE CommandInv
    OBVIOUS
  <2>1. CommandTypes
    <3>1. /\ runner = Resting /\ syncing = FALSE /\ eSync = FALSE /\ paced \in BOOLEAN /\ ncommands = 0
          /\ syncs = [count |-> 0, stray |-> FALSE] /\ notices = {} /\ current = 1 /\ kept = {1} /\ building = 0
          /\ inbox = <<>> /\ libs = [running |-> 0, left |-> 0]
      BY DEF CommandsInit
    <3>2. help \in Texts /\ balloon \in Texts
      BY DEF CommandsInit, Texts
    <3>3. /\ runner \in RunnerState
          /\ libs \in [running : 0..ncommands, left : {0}] /\ syncs \in [count : 0..ncommands, stray : BOOLEAN]
      BY <3>1 DEF Resting, RunnerState
    <3>4. inbox \in Seq(PostedMessage) /\ Len(inbox) <= ncommands
      BY <3>1
    <3>5. /\ ncommands \in 0..MaxCommands_ /\ notices \subseteq 1..syncs.count /\ current \in 1..MaxSettings_
          /\ kept = {current} /\ building \in 0..MaxSettings_ /\ syncing \in BOOLEAN /\ eSync \in BOOLEAN
      <4>1. 0 \in 0..MaxCommands_ /\ 1 \in 1..MaxSettings_ /\ 0 \in 0..MaxSettings_
        OBVIOUS
      <4> QED
        BY <3>1, <4>1, Zenon
    <3> QED
      BY <3>1, <3>2, <3>3, <3>4, <3>5, Zenon DEF CommandTypes, RunnerState
  <2>2. NoneIn(inbox, {"help", "hide"})
    BY OneElement DEF CommandsInit
  <2>3. HelpKnown /\ WaitKnown /\ PostPaced /\ SyncPaced
    BY <2>2 DEF CommandsInit, HelpKnown, WaitKnown, PostPaced, SyncPaced, Resting
  <2> QED
    BY <2>1, <2>3 DEF CommandInv
<1>2. CommandInv /\ [CommandsNext]_commandVars => CommandInv'
  <2> SUFFICES ASSUME CommandInv, [CommandsNext]_commandVars PROVE CommandInv'
    OBVIOUS
  <2>1. CASE UNCHANGED commandVars
    BY <2>1 DEF CommandInv, CommandTypes, RunnerState, WaitKnown, HelpKnown, PostPaced, SyncPaced, commandVars, runVars, settingVars, postVars
  <2>2. CASE CommandsNext
    BY <2>2, PostsKeep, WaitsKeep, LibrariesKeep, ServedKeeps, WindowThreadKeeps DEF CommandsNext, WindowSteps
  <2> QED
    BY <2>1, <2>2
<1>3. CommandInv => CommandsSafe
  <2> SUFFICES ASSUME CommandInv PROVE CommandsSafe
    OBVIOUS
  <2>0. CommandTypes /\ WaitKnown /\ HelpKnown /\ (paced => PostPaced /\ SyncPaced)
    BY DEF CommandInv
  <2>1. CommandsTypeOK
    <3>1. /\ runner.at \in {"idle", "sync", "sleep", "back"} /\ runner.setting \in 0..MaxSettings_
          /\ notices \subseteq 1..MaxCommands_ /\ syncs.count \in 0..MaxCommands_
          /\ Len(inbox) <= MaxCommands_ /\ libs.running + libs.left <= MaxCommands_
      BY <2>0 DEF CommandTypes, RunnerState
    <3> QED
      BY <2>0, <3>1, Zenon DEF CommandTypes, RunnerState, CommandsTypeOK, Texts
  <2>2. RunningKept /\ ShellRuns /\ SyncOwn /\ LibrariesFreed
    BY <2>0 DEF CommandTypes, RunnerState, WaitKnown, PostPaced, SyncPaced, RunningKept, ShellRuns, SyncOwn, LibrariesFreed
  <2>3. HelpShown
    <3> SUFFICES ASSUME inbox = <<>> PROVE balloon = help
      BY DEF HelpShown
    <3>1. Len(inbox) = 0
      OBVIOUS
    <3> QED
      BY <2>0, <3>1 DEF HelpKnown, EndsIn
  <2> QED
    BY <2>1, <2>2, <2>3 DEF CommandsSafe
<1> QED
  BY <1>1, <1>2, <1>3

\* For every set of plugins, threads, programs and settings, when the hook's notification of the sync
\* key does not come after the 5 seconds &Sync waits and no setting asks &PlugIn to run in the handler's
\* thread: plugins and their libraries come and go together, the last first, and every notification is
\* heard once; a command that waits keeps its setting, paced keys have their programs started and their
\* own &Sync ended, and the balloon ends with the last help.
THEOREM ExtensionsAreSafe == LateNotice = FALSE /\ FALSE \notin Threaded => (DesktopSpec => ExtensionsSafe)
<1> SUFFICES ASSUME LateNotice = FALSE, FALSE \notin Threaded PROVE DesktopSpec => ExtensionsSafe
  OBVIOUS
<1> DEFINE Inv == PluginInv /\ SpeechKnown /\ CommandInv
<1>1. DesktopInit => Inv
  BY PluginsInductive, CommandsInductive DEF DesktopInit
<1>2. [DesktopNext]_desktopVars => [PluginsNext]_pluginVars /\ [CommandsNext]_commandVars
  BY DEF DesktopNext, desktopVars
<1>3. Inv /\ [DesktopNext]_desktopVars => Inv'
  BY <1>2, PluginsInductive, CommandsInductive
<1>4. Inv => PluginsSafe /\ CommandsSafe
  BY PluginsKnowEnough, CommandsInductive
<1>5. Inv /\ [DesktopNext]_desktopVars =>
        [op.at = "shutdown" => \A i, j \in DOMAIN plugins :
           (i < j /\ loads[plugins[i]].inst = "running" /\ loads'[plugins[i]].inst # "running")
             => loads[plugins[j]].lib = "closed"]_pluginVars
  BY <1>2, LastGoesFirst
<1> QED
  BY <1>1, <1>3, <1>4, <1>5, PTL DEF DesktopSpec, ExtensionsSafe, LastFirst
=============================================================================
