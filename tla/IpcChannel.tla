----------------------------- MODULE IpcChannel -----------------------------
(***************************************************************************)
(* The socket below GuiLink (ipc/server.cpp, ipc/client.cpp): frames cut   *)
(* into reads of any length, a socket buffer that is full half-way through *)
(* a frame, windows that come and go, and a daemon that stops and starts.  *)
(*                                                                         *)
(* A frame is a header of two units and a body of two: a unit is a part of *)
(* a frame that a read or a write may end with, and the frames are equally *)
(* long. A frame above the limit is dropped by its sender and leaves no    *)
(* trace here. The application is single-instance: one window at a time,   *)
(* each with a new IpcClient, which connects once.                         *)
(***************************************************************************)
EXTENDS Naturals, Sequences

CONSTANTS
  MaxWindows,     \* bound: windows opened
  MaxTold,        \* bound: broadcasts
  MaxSent,       \* bound: requests
  Room,           \* units a socket buffer holds at least
  Chunk,          \* units a recv returns at most
  OddSizes        \* what a header that is none may say

ASSUME IpcChannelAssumption ==
  /\ {MaxWindows, MaxTold, MaxSent, Room, Chunk} \subseteq Nat
  /\ OddSizes \subseteq Nat \ {0}

VARIABLES
  listening,        \* the daemon listens
  backlog,        \* connections that are not accepted yet
  clients,        \* m_clients
  window,         \* the connection of the open window, or 0
  opened, told, sent,
  conn            \* connection that an end still holds |-> its two directions

channelVars == <<listening, backlog, clients, window, opened, told, sent, conn>>

HeaderLen == 2
FrameLen  == 4
MaxSize   == 3
Frame(n)  == [i \in 1 .. FrameLen |-> [n |-> n, at |-> i]]

(***************************************************************************)
(* A connection: units on their way and read so far in each direction, the *)
(* messages taken out of them, the numbers before its first ones and, once *)
(* a frame toward the window was cut, what a header out of step says.      *)
(* It is gone when both ends have closed it.                               *)
(***************************************************************************)
NewConn(first) ==
  [down |-> <<>>, m_buffer |-> <<>>, heard |-> <<>>, since |-> 0, odd |-> 0,
   up |-> <<>>, cbuf |-> <<>>, served |-> <<>>, first |-> first]
HeldBy(ks) == [k \in DOMAIN conn \cap ks |-> conn[k]]

ChannelInit ==
  /\ listening = TRUE /\ backlog = {} /\ clients = {} /\ window = 0
  /\ opened = 0 /\ told = 0 /\ sent = 0 /\ conn = [k \in {} |-> 0]

(***************************************************************************)
(* The loop of read_from_client() and read_message(). The size is taken    *)
(* from wherever the loop stands. Text there makes it too large, so does   *)
(* any window that ends in text; one that ends in the low part of a header *)
(* may say anything. What is no whole body does not parse and is skipped.  *)
(***************************************************************************)
Size(u, v, odd) ==
  CASE u.at = 1 /\ v.at = 2 -> FrameLen - HeaderLen
    [] v.at = 1             -> odd
    [] OTHER                -> MaxSize + 1

Parsed(body) ==
  IF Len(body) = FrameLen - HeaderLen /\ body = SubSeq(Frame(body[1].n), HeaderLen + 1, FrameLen)
  THEN <<body[1].n>> ELSE <<>>

Loop(buf, odd) ==
  LET from[pos \in 0 .. Len(buf)] ==
        LET left == Len(buf) - pos
            size == IF left < HeaderLen THEN 0 ELSE Size(buf[pos + 1], buf[pos + 2], odd)
            body == SubSeq(buf, pos + HeaderLen + 1, pos + HeaderLen + size)
            Stop(ok) == [messages |-> <<>>, pos |-> pos, ok |-> ok] IN
        CASE size > MaxSize                            -> Stop(FALSE)
          [] size <= MaxSize /\ left < HeaderLen + size -> Stop(TRUE)
          [] OTHER -> LET rest == from[pos + HeaderLen + size] IN
                      [rest EXCEPT !.messages = Parsed(body) \o @] IN
  from[0]

Compacted(buf, pos) == SubSeq(buf, pos + 1, Len(buf))

Reads(pipe) == {n \in 1 .. Chunk : n <= Len(pipe)}

(***************************************************************************)
(* write_all(): the whole frame, or what went out before the buffer was    *)
(* full. The other side may drain it meanwhile, so Room is what it holds   *)
(* at least when a write ends early.                                       *)
(***************************************************************************)
Cuts(pipe) == {k \in 0 .. FrameLen - 1 : Len(pipe) + k >= Room}
Part(n, k) == SubSeq(Frame(n), 1, k)

(***************************************************************************)
(* IpcClient::disconnect(), with what is unread on either side: both sides *)
(* look for a hang-up before they read.                                    *)
(***************************************************************************)
Disconnected(c) == [c EXCEPT !.down = <<>>, !.m_buffer = <<>>, !.up = <<>>]
Disconnect(c)   == window' = 0 /\ conn' = [conn EXCEPT ![window] = Disconnected(c)]

OpenWindow ==
  /\ window = 0 /\ listening /\ opened < MaxWindows
  /\ opened' = opened + 1 /\ window' = opened + 1
  /\ backlog' = backlog \cup {opened + 1}
  /\ conn' = [k \in DOMAIN conn \cup {opened + 1} |->
                IF k = opened + 1 THEN NewConn(sent) ELSE conn[k]]
  /\ UNCHANGED <<listening, clients, told, sent>>

HungUp == window \notin clients \cup backlog

CloseWindow ==      \* by the user
  /\ window # 0 /\ ~HungUp /\ Disconnect(conn[window])
  /\ UNCHANGED <<listening, backlog, clients, opened, told, sent>>

ServerHangsUp ==    \* on_io_watch(), or the user before it
  /\ window # 0 /\ HungUp /\ window' = 0 /\ conn' = HeldBy(clients \cup backlog)
  /\ UNCHANGED <<listening, backlog, clients, opened, told, sent>>

(***************************************************************************)
(* send_message(): a write that ends early ends the connection.            *)
(***************************************************************************)
\* a slip: the client keeps the connection, as the server does
SlipSending(c, k) ==
  UNCHANGED window /\ conn' = [conn EXCEPT ![window] = [c EXCEPT !.up = @ \o Part(sent + 1, k)]]
Sending(c, k) ==
  IF k < FrameLen THEN Disconnect(c)
  ELSE UNCHANGED window /\ conn' = [conn EXCEPT ![window] = [c EXCEPT !.up = @ \o Frame(sent + 1)]]

SendMessage ==
  /\ window # 0 /\ ~HungUp /\ sent < MaxSent /\ sent' = sent + 1
  /\ \E k \in Cuts(conn[window].up) \cup {FrameLen} : Sending(conn[window], k)
  /\ UNCHANGED <<listening, backlog, clients, opened, told>>

(***************************************************************************)
(* read_message(). The handler of a message may send a request, and so end *)
(* the connection inside the loop; the messages behind it are then lost.   *)
(***************************************************************************)
ClientReads(n) ==
  LET c    == conn[window]
      buf  == c.m_buffer \o SubSeq(c.down, 1, n)
      loop == Loop(buf, c.odd)
      Got(k) == [c EXCEPT !.down = SubSeq(@, n + 1, Len(@)),
                          !.m_buffer = Compacted(buf, loop.pos),
                          !.heard = @ \o SubSeq(loop.messages, 1, k)]
      all  == Len(loop.messages) IN
  \/ /\ IF loop.ok THEN UNCHANGED window /\ conn' = [conn EXCEPT ![window] = Got(all)]
                   ELSE Disconnect(Got(all))
     /\ UNCHANGED sent
  \/ /\ sent < MaxSent /\ sent' = sent + 1
     /\ \E i \in 1 .. all, k \in Cuts(c.up) : Sending(Got(i), k)
  \/ /\ loop.ok /\ all > 0 /\ sent < MaxSent /\ sent' = sent + 1
     /\ Sending(Got(all), FrameLen)

ClientReadable(n) ==
  /\ window # 0 /\ ~HungUp /\ n \in Reads(conn[window].down) /\ ClientReads(n)
  /\ UNCHANGED <<listening, backlog, clients, opened, told>>

(***************************************************************************)
(* The server. send_to_all() writes to every client; one whose window is   *)
(* gone takes nothing, one whose buffer is full keeps its entry. A handler *)
(* that broadcasts inside the loop of read_from_client() touches nothing   *)
(* the loop reads, so it is this action, after the read.                   *)
(***************************************************************************)
SendToAll ==
  /\ listening /\ told < MaxTold /\ told' = told + 1
  /\ IF window \notin clients THEN UNCHANGED conn
     ELSE \/ conn' = [conn EXCEPT ![window].down = @ \o Frame(told + 1)]
          \/ \E k \in Cuts(conn[window].down), odd \in OddSizes :
               conn' = [conn EXCEPT ![window].down = @ \o Part(told + 1, k),
                                    ![window].odd  = IF @ = 0 THEN odd ELSE @]
  /\ UNCHANGED <<listening, backlog, clients, window, opened, sent>>

AcceptClient(k) ==
  /\ k \in backlog /\ \A j \in backlog : k <= j
  /\ backlog' = backlog \ {k} /\ clients' = clients \cup {k}
  /\ conn' = [conn EXCEPT ![k].since = told]
  /\ UNCHANGED <<listening, window, opened, told, sent>>

Removed(k) == clients' = clients \ {k}

ReadFromClient(k, n) ==
  LET c    == conn[k]
      buf  == c.cbuf \o SubSeq(c.up, 1, n)
      loop == Loop(buf, c.odd) IN
  /\ k \in clients /\ k = window /\ n \in Reads(c.up)
  /\ conn' = [conn EXCEPT ![k].up = SubSeq(@, n + 1, Len(@)),
                          ![k].cbuf = Compacted(buf, loop.pos),
                          ![k].served = @ \o loop.messages]
  /\ IF loop.ok THEN UNCHANGED clients ELSE Removed(k)
  /\ UNCHANGED <<listening, backlog, window, opened, told, sent>>

ClientHangsUp(k) ==
  /\ k \in clients /\ k # window /\ Removed(k) /\ conn' = HeldBy(DOMAIN conn \ {k})
  /\ UNCHANGED <<listening, backlog, window, opened, told, sent>>

ServerStop ==
  /\ listening /\ listening' = FALSE /\ clients' = {} /\ backlog' = {}
  /\ conn' = HeldBy({window})
  /\ UNCHANGED <<window, opened, told, sent>>

ServerStart ==
  /\ ~listening /\ listening' = TRUE
  /\ UNCHANGED <<backlog, clients, window, opened, told, sent, conn>>

ChannelNext ==
  \/ \E n \in 1 .. Chunk : ClientReadable(n)
  \/ \E k \in DOMAIN conn, n \in 1 .. Chunk : ReadFromClient(k, n)
  \/ \E k \in DOMAIN conn : AcceptClient(k) \/ ClientHangsUp(k)
  \/ OpenWindow \/ CloseWindow \/ ServerHangsUp \/ SendMessage \/ SendToAll \/ ServerStop \/ ServerStart

ChannelSpec == ChannelInit /\ [][ChannelNext]_channelVars

(***************************************************************************)
(* Properties.                                                             *)
(***************************************************************************)
ChannelTypeOK ==
  /\ listening \in BOOLEAN /\ window \in 0 .. opened
  /\ DOMAIN conn = (backlog \cup clients \cup {window}) \ {0} /\ backlog \cap clients = {}
  /\ told \in 0 .. MaxTold /\ sent \in 0 .. MaxSent

Increasing(s)         == \A i, j \in DOMAIN s : i < j => s[i] < s[j]
InStep(s, before, n, pipe) ==
  /\ \A i \in DOMAIN s : s[i] = before + i
  /\ pipe = <<>> => before + Len(s) = n

ToldInOrder ==
  \A k \in DOMAIN conn :
    /\ Increasing(conn[k].heard)
    /\ (k = window /\ k \in clients /\ conn[k].odd = 0)
         => InStep(conn[k].heard, conn[k].since, told, conn[k].down)

SentInOrder ==
  \A k \in DOMAIN conn :
    /\ Increasing(conn[k].served)
    /\ (k = window /\ k \in clients) => InStep(conn[k].served, conn[k].first, sent, conn[k].up)

\* However reads and writes divide the frames, a message is taken out of the
\* stream at most once, in order and as it was sent. While the window is
\* connected the daemon misses no request, for a client that cannot write a
\* whole frame hangs up; the window misses no broadcast unless one was cut,
\* after which the server keeps the client, and it never takes a wrong one.
FramesArrive == ToldInOrder /\ SentInOrder
=============================================================================
