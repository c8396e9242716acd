----------------------------- MODULE MCServices -----------------------------
(***************************************************************************)
(* The services around the rooms, one at a time: friends and status        *)
(* messages, match messages between friends, Discord links, hashes of      *)
(* packs, match commands, and the filter of the server browser's searches. *)
(* They share no state, so each behaviour is of one of them.               *)
(***************************************************************************)
EXTENDS GPFriends, GPReservation, DiscordLink, HashCache, MatchCommand, Filter, TLC

CONSTANTS pr1, pr2

VARIABLE part       \* the service that this behaviour is of

MCProfile == {pr1, pr2}
MCKnows   == pr1 :> {pr2} @@ pr2 :> {pr1}
MCMayOpen == {pr1, pr2}

\* Buffers of 0..15 words, all different, of which one or two are replaced.
MCSamples == {<<1, 0, 0, 0>>, <<4, 0, 0, 0>>, <<0, 0, 1, 0>>}
MCWord(i) == IF i = 1 THEN <<1, 0, 0, 0>> ELSE <<i, 4, 0, 0>>
MCBuffers(c) ==
    LET most == IF c \in {"RESERVATION", "RESV_OK"} THEN 2 ELSE 1
    IN  UNION {{[i \in 1..n |-> IF i \in DOMAIN w THEN w[i] ELSE MCWord(i)] :
                   w \in UNION {[S -> MCSamples] : S \in {T \in SUBSET (1..n) : Cardinality(T) <= most}}}
               : n \in 0..15}

(* Expressions and servers for the filter.                                  *)

Operands == {<<"0", "1", "a", "2">>, <<"a", "2", "1", "0">>, <<"1", "a", "0", "1">>}
Ops == {"+", "&", "=", "<", "and", "or"}

\* x op y op z op w with at most one pair of brackets.
Bracketed(v, o, i, j) ==
    LET left(k)  == IF k = i THEN <<"(">> ELSE <<>>
        right(k) == IF k = j THEN <<")">> ELSE <<>>
    IN  left(1) \o <<v[1]>> \o right(1) \o <<o[1]>> \o left(2) \o <<v[2]>> \o right(2)
          \o <<o[2]>> \o left(3) \o <<v[3]>> \o right(3) \o <<o[3]>> \o <<v[4]>> \o right(4)

MCFormed == {Bracketed(v, o, ij[1], ij[2]) :
                v \in Operands, o \in [1..3 -> Ops],
                ij \in {<<0, 0>>, <<1, 2>>, <<2, 3>>, <<3, 4>>, <<1, 3>>, <<2, 4>>}}

\* What is not an expression, or only the code says what it is.
Pieces == {"1", "b", "rk", "'vs'", "(", ")", ",", "=", "-", "*", "&", "like"}
Malformed == UNION {[1..n -> Pieces] : n \in 0..3}

Calls == {<<"f", "(", "1", ")">>, <<"f", "(", "1", ",", "a", "=", "1", ")", "and", "1">>,
          <<"1", "and", "f", "(", "(", "1", ")", ")">>, <<"g", "(", "f", "(", "a", ")", "b", ")">>,
          <<"f", "(", "a">>, <<"rk", "=", "rk", "=", "rk">>, <<"a", "!", "=", "1", "!", "=", "2">>}

\* The search of version 03 names the state, the one of version 90 does not.
SearchOf(ver, own) ==
    <<"dwc_mver", "=", ver, "and", "dwc_pid", "!", "=", "1", "and", "numplayers", "<", "3", "and">>
      \o own \o <<"and", "(", "rk", "=", "'vs'", "and", "ev", ">", "=", "2", "and", "p", "=", "0", ")">>

MCSearches == "3" :> SearchOf("3", <<"dwc_hoststate", "=", "2">>)
                @@ "90" :> SearchOf("90", <<"dwc_mresv", "!", "=", "dwc_pid">>)

MCExpressions == MCFormed \cup Malformed \cup Calls \cup {MCSearches["3"], MCSearches["90"]}

Server(ver, dev, state0, pid, num, rk, ev, mresv) ==
    [gamename |-> "mariokartwii", dwc_mver |-> ver, dwc_hoststate |-> state0, dwc_pid |-> pid,
     dwc_mresv |-> mresv, numplayers |-> num, rk |-> rk, ev |-> ev, p |-> "0", a |-> "1"]
      @@ "+deviceauth" :> dev

\* Found by one of the searches; not offered; of another version, in a state
\* or with a value that one of the conditions rejects; of another game.
ServersOf(ver) == <<Server(ver, "1", "2", "2", "2", "vs", "1", "0"),
                    Server(ver, "0", "2", "3", "2", "vs", "3", "0"),
                    Server(ver, "1", "0", "4", "0", "vs_1", "3", "0"),
                    Server(ver, "1", "1", "5", "1", "vs", "3", "0"),
                    Server(ver, "1", "2", "5", "1", "vs", "3", "5"),
                    Server(ver, "1", "2", "6", "3", "vs", "3", "0"),
                    Server(ver, "1", "2", "7", "2", "vs_6", "", "0"),
                    Server(ver, "1", "2", "1", "2", "vs", "3", "0")>>

MCServers == ServersOf("3") \o ServersOf("90")
               \o <<[ServersOf("90")[1] EXCEPT !.gamename = "pokemon"]>>

-----------------------------------------------------------------------------
servicesVars == <<part, vars, rvars, lvars, hvars, mvars, fvars>>

MCInit ==
    /\ part \in {"friends", "reservation", "link", "hash", "match", "filter"}
    /\ Init /\ ReservationInit /\ LinkInit /\ HashStart /\ MatchInit
    /\ FilterInit /\ (part # "filter" => input = <<>>)

MCNext ==
    /\ UNCHANGED part
    /\ \/ part = "friends" /\ Next /\ UNCHANGED <<rvars, lvars, hvars, mvars, fvars>>
       \/ part = "reservation" /\ ReservationNext /\ UNCHANGED <<vars, lvars, hvars, mvars, fvars>>
       \/ part = "link" /\ LinkNext /\ UNCHANGED <<vars, rvars, hvars, mvars, fvars>>
       \/ part = "hash" /\ HashNext /\ UNCHANGED <<vars, rvars, lvars, mvars, fvars>>
       \/ part = "match" /\ MatchNext /\ UNCHANGED <<vars, rvars, lvars, hvars, fvars>>
       \/ part = "filter" /\ FilterNext /\ UNCHANGED <<vars, rvars, lvars, hvars, mvars>>

MCSpec == MCInit /\ [][MCNext]_servicesVars
=============================================================================
