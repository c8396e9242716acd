--------------------------- MODULE ServerBrowser ----------------------------
(***************************************************************************)
(* The server browser, serverbrowser/main.go and server.go: the packets of *)
(* a TCP connection are put together from fragments, one packet is handled *)
(* per fragment, and a list request is answered with one entry per server. *)
(*                                                                         *)
(* A packet is a run of bytes whose first two give its size; a byte is     *)
(* modelled as <<k, i>>, the i-th byte of the k-th packet of its connection.*)
(***************************************************************************)
EXTENDS Integers, Sequences, FiniteSets

CONSTANTS
    BConn,          \* connections
    Pipelining,     \* those whose client does not wait for its answers
    PacketSizes,    \* sizes of the packets clients send
    BufferLimit,    \* 0x1000
    MaxPackets      \* bound: packets per connection

ASSUME BrowserAssumption ==
    /\ Pipelining \subseteq BConn
    /\ PacketSizes \subseteq Nat \ {0, 1}
    /\ BufferLimit \in Nat /\ MaxPackets \in Nat

VARIABLES
    sizes,          \* per connection, the sizes of the packets its client sent
    wire,           \* per connection, sent bytes the frontend has not read
    connBuffers,    \* per connection, its buffer (nil and empty are the same)
    handled,        \* per connection, the packets handled, in order
    sbOpen,         \* the connections that are open
    cut             \* history: those whose buffer was lost with bytes in it

sbvars == <<sizes, wire, connBuffers, handled, sbOpen, cut>>

HeaderSize == 2
MinPacket == 3

Bytes(k, n) == [i \in 1..n |-> <<k, i>>]

BrowserInit ==
    /\ sizes = [c \in BConn |-> <<>>]
    /\ wire = [c \in BConn |-> <<>>]
    /\ connBuffers = [c \in BConn |-> <<>>]
    /\ handled = [c \in BConn |-> <<>>]
    /\ sbOpen = BConn
    /\ cut = {}

\* A client sends a packet; unless it pipelines, only when all its earlier ones
\* are answered.
Request(c, n) ==
    /\ c \in sbOpen /\ Len(sizes[c]) < MaxPackets
    /\ c \in Pipelining \/ Len(handled[c]) = Len(sizes[c])
    /\ sizes' = [sizes EXCEPT ![c] = Append(@, n)]
    /\ wire' = [wire EXCEPT ![c] = @ \o Bytes(Len(sizes[c]) + 1, n)]
    /\ UNCHANGED <<connBuffers, handled, sbOpen, cut>>

\* common.CloseConnection, and the frontend's call of CloseConnection that
\* follows it.
Closed(c) ==
    /\ sbOpen' = sbOpen \ {c}
    /\ connBuffers' = [connBuffers EXCEPT ![c] = <<>>]
    /\ UNCHANGED handled

\* Mutant: what follows the first packet in the buffer is thrown away.
DropsRest(c, buf, size) ==
    /\ handled' = [handled EXCEPT ![c] = Append(@, buf[1][1])]
    /\ connBuffers' = [connBuffers EXCEPT ![c] = <<>>]
    /\ UNCHANGED sbOpen

\* The command of the first packet is carried out and the packet is removed.
HandleFirst(c, buf, size) ==
    /\ handled' = [handled EXCEPT ![c] = Append(@, buf[1][1])]
    /\ connBuffers' = [connBuffers EXCEPT ![c] = SubSeq(buf, size + 1, Len(buf))]
    /\ UNCHANGED sbOpen

\* What the first two bytes of a buffer may be read as.  Behind a lost buffer they
\* are bytes from the middle of a packet: any number.
PacketSize(c, buf) ==
    IF buf[1][2] = 1 THEN {sizes[c][buf[1][1]]} ELSE 0..(BufferLimit + 1)

\* Mutant: a packet is handled when the first byte after it has arrived.
HandleLate(c, data) ==
    LET buf  == connBuffers[c] \o data
    IN  \E size \in PacketSize(c, buf) :
        IF Len(buf) > BufferLimit THEN Closed(c)
        ELSE IF Len(buf) <= size
        THEN /\ connBuffers' = [connBuffers EXCEPT ![c] = buf]
             /\ UNCHANGED <<handled, sbOpen>>
        ELSE HandleFirst(c, buf, size)

\* HandlePacket: data is appended to the buffer; at most one packet is handled.
HandlePacket(c, data) ==
    LET buf  == connBuffers[c] \o data
    IN  \E size \in PacketSize(c, buf) :
        IF Len(buf) > BufferLimit THEN Closed(c)
        ELSE IF Len(buf) >= HeaderSize /\ (size < MinPacket \/ size > BufferLimit)
        THEN Closed(c)
        ELSE IF Len(buf) < HeaderSize \/ Len(buf) < size
        THEN /\ connBuffers' = [connBuffers EXCEPT ![c] = buf]
             /\ UNCHANGED <<handled, sbOpen>>
        ELSE HandleFirst(c, buf, size)

\* The frontend reads a fragment of any length and forwards it.
Fragment(c) ==
    /\ c \in sbOpen
    /\ \E n \in 1..Len(wire[c]) :
         /\ wire' = [wire EXCEPT ![c] = SubSeq(@, n + 1, Len(@))]
         /\ HandlePacket(c, SubSeq(wire[c], 1, n))
    /\ UNCHANGED <<sizes, cut>>

\* The client leaves: CloseConnection.
HangUp(c) ==
    /\ c \in sbOpen
    /\ Closed(c)
    /\ wire' = [wire EXCEPT ![c] = <<>>]
    /\ UNCHANGED <<sizes, cut>>

\* The backend restarts, in one of three ways (VerifyState).  "load": the UUIDs
\* agree, Shutdown has written the buffers and StartServer reads them.  "reset":
\* they differ and the frontend closes all connections.  "empty": both are empty,
\* as with an integrated frontend: nothing is written or read, and the
\* connections stay open.
StartServer(state) ==
    \/ state = "load" /\ UNCHANGED sbvars
    \/ /\ state \in {"reset", "empty"}
       /\ connBuffers' = [c \in BConn |-> <<>>]
       /\ sbOpen' = IF state = "reset" THEN {} ELSE sbOpen
       /\ cut' = cut \cup {c \in sbOpen' : connBuffers[c] # <<>>}
       /\ UNCHANGED <<sizes, wire, handled>>

BrowserNext ==
    \/ \E c \in BConn : (\E n \in PacketSizes : Request(c, n)) \/ Fragment(c) \/ HangUp(c)
    \/ \E state \in {"load", "reset", "empty"} : sbOpen # {} /\ StartServer(state)

BrowserFairness == \A c \in BConn : WF_sbvars(Fragment(c))

-----------------------------------------------------------------------------
(* The entry of a server in the answer to a list request, server.go:186-317.*)
(* A server is what the handler tests of its fields: which of them exist and *)
(* whether they can be parsed.                                              *)

\* publicip: the caller's, another one, or missing.  Ports: a number, one of
\* the reserved ones, not a number, or missing.  localip0: four numbers,
\* another count of parts, four parts of which one is no number, or missing.
ServerFields ==
    [publicip : {"own", "other", "none"}, natneg : BOOLEAN,
     publicport : {"ok", "low", "bad", "none"}, localport : {"ok", "low", "bad", "none"},
     localip0 : {"ok", "parts", "bad", "none"}, searchid : BOOLEAN]

Skipped == [flags |-> {}, fields |-> <<>>]
IsPort(p) == p \in {"ok", "low"}

\* The caller is behind the server's address: its real address.  A local address
\* of four parts is never refused: the error is assigned to another variable.
OwnEntry(s) ==
    LET port   == IF s.publicport # "none" THEN s.publicport ELSE s.localport
        local  == s.localip0 # "none"
        lport  == s.localport # "none"
    IN  IF port # "ok" \/ s.localip0 = "parts" \/ s.localport = "bad" THEN Skipped
        ELSE [flags  |-> {"keys", "port", "icmp"}
                          \cup (IF s.natneg THEN {"negotiate"} ELSE {})
                          \cup (IF local THEN {"privateip"} ELSE {})
                          \cup (IF lport THEN {"privateport"} ELSE {}),
              fields |-> <<"ip", "port">>
                          \o (IF s.localip0 = "ok" THEN <<"privateip">> ELSE <<>>)
                          \o (IF lport THEN <<"privateport">> ELSE <<>>)
                          \o <<"icmp">>]

\* Everyone else gets the search ID in the place of address and port.
OtherEntry(s) ==
    IF ~s.searchid THEN Skipped
    ELSE [flags  |-> {"keys", "port", "privateip", "privateport", "icmp"}
                      \cup (IF s.natneg THEN {"negotiate"} ELSE {}),
          fields |-> <<"searchlow", "searchhigh", "privateip", "privateport", "icmp">>]

Entry(s, gpOwn) ==
    CASE s.publicip = "none" -> Skipped
      [] s.publicip # "none" /\ (s.publicip = "own" \/ gpOwn) -> OwnEntry(s)
      [] OTHER -> OtherEntry(s)

\* The length of an entry by its fields, and by its flags as a client reads it.
FieldLength(f) ==
    IF f \in {"port", "searchhigh", "privateport"} THEN 2 ELSE 4
EntryLength(e) ==
    LET n[i \in 0..Len(e.fields)] == IF i = 0 THEN 0 ELSE n[i - 1] + FieldLength(e.fields[i])
    IN  n[Len(e.fields)]
ReadLength(e) ==
    4 + (IF "port" \in e.flags THEN 2 ELSE 0) + (IF "privateip" \in e.flags THEN 4 ELSE 0)
      + (IF "privateport" \in e.flags THEN 2 ELSE 0) + (IF "icmp" \in e.flags THEN 4 ELSE 0)

-----------------------------------------------------------------------------
(* Properties.                                                              *)

\* The byte that a client with packets of these sizes sends after b.
After(s, b) == IF b[2] < s[b[1]] THEN <<b[1], b[2] + 1>> ELSE <<b[1] + 1, 1>>

\* No byte of an open connection is lost, repeated or moved while it is put
\* together from fragments (serverbrowser/main.go:96-166), also across a restart:
\* the packets were handled each once and in order, and what is in the buffer and
\* on the wire is the rest of what the client sent, byte after byte.  The one
\* exception is a connection that had part of a packet in its buffer when an
\* integrated backend was restarted (main.go:634-651).
StreamKept ==
    \A c \in sbOpen \ cut :
        LET rest == connBuffers[c] \o wire[c]
            sent == sizes[c]
        IN  /\ \A i \in DOMAIN handled[c] : handled[c][i] = i
            /\ rest = <<>> => Len(handled[c]) = Len(sent)
            /\ rest # <<>> =>
                 /\ rest[1] = <<Len(handled[c]) + 1, 1>>
                 /\ \A i \in 1..(Len(rest) - 1) : rest[i + 1] = After(sent, rest[i])
                 /\ rest[Len(rest)] = <<Len(sent), sent[Len(sent)]>>

\* A buffer never holds more than 0x1000 bytes, and a whole packet stays in it
\* only if its client sent another packet before the answer: a call handles one
\* packet and what is left waits for the next fragment (main.go:161).
LeftoverOnlyPipelined ==
    \A c \in BConn :
        /\ Len(connBuffers[c]) <= BufferLimit
        /\ connBuffers[c] # <<>> /\ c \notin Pipelining \cup cut =>
              Len(connBuffers[c]) < sizes[c][connBuffers[c][1][1]]

\* A request of a client that waits for its answers is handled, or the
\* connection is closed, however it is fragmented and whatever restarts come
\* between the fragments, unless one lost a part of it.
RequestsAnswered ==
    \A c \in BConn \ Pipelining : \A k \in 1..MaxPackets :
        Len(sizes[c]) >= k ~> Len(handled[c]) >= k \/ c \notin sbOpen \/ c \in cut

\* The flags of an entry and the fields that follow them agree, so that the
\* client finds the next entry (server.go:186-317); the exception is a local
\* address of four parts of which one is no number.  The entry depends on
\* nothing but the server, so that looking at all of them in the states where
\* every request was handled is enough.
EntriesReadable ==
    (\A c \in BConn : Len(handled[c]) = MaxPackets) =>
    \A s \in ServerFields, gpOwn \in BOOLEAN :
        LET e == Entry(s, gpOwn) IN
        e # Skipped /\ s.localip0 # "bad" => EntryLength(e) = ReadLength(e)

\* The browser's reading of a stream and its answers: no byte is lost, what
\* stays behind in a buffer was sent ahead of an answer, and every entry of a
\* list can be read back (main.go:89-167, server.go:185-323).
BrowserInv == StreamKept /\ LeftoverOnlyPipelined /\ EntriesReadable

=============================================================================
