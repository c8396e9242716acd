------------------------------ MODULE Delivery ------------------------------
(***************************************************************************)
(* How a client message is delivered: the last part of SendClientMessage   *)
(* (qr2/message.go), from the receiver's messageMutex to the ack or the    *)
(* tenth repetition, and the acks in handleConnection (qr2/main.go).       *)
(*                                                                         *)
(* The packets go by UDP: they are lost, delayed and repeated in both      *)
(* directions.  An ack has no number the server looks at, so that it wakes  *)
(* whichever call holds the mutex then.                                    *)
(***************************************************************************)
EXTENDS Integers, FiniteSets

CONSTANTS
    Messages,       \* calls of SendClientMessage for one receiver
    MaxTimeouts     \* seconds a call waits after the first

ASSUME DeliveryAssumption == MaxTimeouts \in Nat

VARIABLES
    send,           \* where each call is
    seconds,        \* timeOutCount of the call that holds the mutex
    ticked,         \* its timeWaker
    acked,          \* messageAckWaker of the session
    packets, ackWire,  \* packets on their way; the server does not see whose ack it is
    received,       \* messages that reached the client
    login,          \* Session.login is not nil
    alive,          \* the session is in the table
    misled          \* history: calls during which the waker was asserted for another reason

dvars == <<send, seconds, ticked, acked, packets, ackWire, received, login, alive, misled>>
netVars == <<packets, ackWire, received>>

Returned == {"acked", "timedout", "dropped"}
Sending == {m \in Messages : send[m] = "sending"}

DeliveryInit ==
    /\ send = [m \in Messages |-> "new"]
    /\ seconds = 0 /\ ticked = FALSE /\ acked = FALSE
    /\ packets = {} /\ ackWire = {} /\ received = {}
    /\ login = TRUE /\ alive = TRUE
    /\ misled = {}

\* processClientMessage has the destination; the call waits for messageMutex.
Queue(m) ==
    /\ send[m] = "new"
    /\ send' = [send EXCEPT ![m] = "queued"]
    /\ UNCHANGED <<seconds, ticked, acked, netVars, login, alive, misled>>

\* Mutant: the waker is not cleared.
BeginUncleared(m) ==
    /\ send[m] = "queued" /\ Sending = {} /\ login
    /\ send' = [send EXCEPT ![m] = "sending"]
    /\ seconds' = 0 /\ ticked' = FALSE
    /\ packets' = packets \cup {m}
    /\ UNCHANGED <<acked, ackWire, received, login, alive, misled>>

\* The mutex is taken, the waker cleared, and the packet sent for the first time.
Begin(m) ==
    /\ send[m] = "queued" /\ Sending = {}
    /\ IF login
       THEN /\ send' = [send EXCEPT ![m] = "sending"]
            /\ seconds' = 0 /\ ticked' = FALSE /\ acked' = FALSE
            /\ packets' = packets \cup {m}
       ELSE /\ send' = [send EXCEPT ![m] = "dropped"]
            /\ UNCHANGED <<seconds, ticked, acked, packets>>
    /\ UNCHANGED <<ackWire, received, login, alive, misled>>

\* A second has passed since the packet was sent.
Tick ==
    /\ Sending # {} /\ ~ticked
    /\ ticked' = TRUE
    /\ UNCHANGED <<send, seconds, acked, netVars, login, alive, misled>>

\* Mutant: the seconds are not counted.
FetchTimeForever(m) ==
    /\ send[m] = "sending" /\ ticked
    /\ ticked' = FALSE
    /\ packets' = packets \cup {m}
    /\ UNCHANGED <<send, seconds, acked, ackWire, received, login, alive, misled>>

\* Fetch returns timeWaker: send again, or give up and have the player kicked.
FetchTime(m) ==
    /\ send[m] = "sending" /\ ticked
    /\ seconds' = seconds + 1
    /\ ticked' = FALSE
    /\ IF seconds < MaxTimeouts
       THEN packets' = packets \cup {m} /\ UNCHANGED <<send, login>>
       ELSE send' = [send EXCEPT ![m] = "timedout"] /\ login' = FALSE /\ UNCHANGED packets
    /\ UNCHANGED <<acked, ackWire, received, alive, misled>>

\* Fetch returns messageAckWaker.
FetchAck(m) ==
    /\ send[m] = "sending" /\ acked
    /\ send' = [send EXCEPT ![m] = "acked"]
    /\ acked' = FALSE
    /\ UNCHANGED <<seconds, ticked, netVars, login, alive, misled>>

\* The client gets a packet, or gets it again, and acks it.
Arrive(m, again) ==
    /\ m \in packets
    /\ packets' = IF again THEN packets ELSE packets \ {m}
    /\ received' = received \cup {m}
    /\ ackWire' = ackWire \cup {m}
    /\ UNCHANGED <<send, seconds, ticked, acked, login, alive, misled>>

Lose(m) ==
    /\ \/ m \in packets /\ packets' = packets \ {m} /\ UNCHANGED ackWire
       \/ m \in ackWire /\ ackWire' = ackWire \ {m} /\ UNCHANGED packets
    /\ UNCHANGED <<send, seconds, ticked, acked, received, login, alive, misled>>

\* handleConnection gets CLIENT_MESSAGE_ACK.
Ack(m, again) ==
    /\ m \in ackWire /\ alive
    /\ ackWire' = IF again THEN ackWire ELSE ackWire \ {m}
    /\ acked' = TRUE
    /\ misled' = misled \cup (Sending \ {m})
    /\ UNCHANGED <<send, seconds, ticked, packets, received, login, alive>>

\* removeSession
Remove ==
    /\ alive
    /\ alive' = FALSE /\ login' = FALSE /\ acked' = TRUE
    /\ misled' = misled \cup Sending
    /\ UNCHANGED <<send, seconds, ticked, netVars>>

\* setProfileID, Login
LogIn ==
    /\ alive /\ ~login
    /\ login' = TRUE
    /\ UNCHANGED <<send, seconds, ticked, acked, netVars, alive, misled>>

DeliveryNext ==
    \/ \E m \in Messages :
         \/ Queue(m) \/ Begin(m) \/ FetchTime(m) \/ FetchAck(m) \/ Lose(m)
         \/ \E again \in BOOLEAN : Arrive(m, again) \/ Ack(m, again)
    \/ Tick \/ Remove \/ LogIn

\* Time passes and goroutines run; of the network nothing is assumed.
Wake(m) == Begin(m) \/ FetchTime(m) \/ FetchAck(m)

DeliveryFairness == WF_dvars(Tick) /\ \A m \in Messages : WF_dvars(Wake(m))

-----------------------------------------------------------------------------
(* Properties.                                                              *)

\* A call returns as acknowledged only when its message did reach the client,
\* or when what woke it during its wait was the late or repeated ack of another
\* message, or the removal of the session: what came before the call does not
\* count (message.go:252, main.go:199, session.go:59).
AckedReceived ==
    \A m \in Messages : send[m] = "acked" => m \in received \cup misled

\* Every call returns, and releases the receiver's messageMutex to the next,
\* whatever the network loses (message.go:257-291).
SendsEnd ==
    \A m \in Messages : (send[m] = "queued") ~> (send[m] \in Returned)
=============================================================================
