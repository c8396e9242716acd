----------------------------- MODULE MCStreams ------------------------------
(***************************************************************************)
(* What serves a client packet by packet, one at a time: gpcm's logins of  *)
(* two connections from one console, the server browser, GameStats, and    *)
(* the delivery of client messages.  They share no state, so each          *)
(* behaviour is of one of them.                                            *)
(***************************************************************************)
EXTENDS GPCM, ServerBrowser, GameStats, Delivery

CONSTANTS waiting, batching

VARIABLE part       \* what this behaviour is of

MCHost == [c \in Conn |-> 1]

MCMay == [c \in {waiting, batching} |->
            IF c = waiting THEN <<{"ka", "auth"}, {"auth", "authp"}, {"authp", "setpd"}, {"getpd"}>>
                           ELSE <<{"auth", "authp"}, {"auth", "setpd"}, {"setpd"}, {}>>]

streamVars == <<part, vars, sbvars, gvars, dvars>>

MCInit ==
    /\ part \in {"login", "browser", "stats", "delivery"}
    /\ Init /\ BrowserInit /\ StatsInit /\ DeliveryInit

MCNext ==
    /\ UNCHANGED part
    /\ \/ part = "login" /\ Next /\ UNCHANGED <<sbvars, gvars, dvars>>
       \/ part = "browser" /\ BrowserNext /\ UNCHANGED <<vars, gvars, dvars>>
       \/ part = "stats" /\ StatsNext /\ UNCHANGED <<vars, sbvars, dvars>>
       \/ part = "delivery" /\ DeliveryNext /\ UNCHANGED <<vars, sbvars, gvars>>

\* The fairness of each part, for the behaviours that are of it.
MCSpec ==
    /\ MCInit /\ [][MCNext]_streamVars
    /\ \A c \in Conn : WF_vars(part = "login" /\ Advance(c))
    /\ \A c \in BConn : WF_sbvars(part = "browser" /\ Fragment(c))
    /\ \A c \in GConn : WF_gvars(part = "stats" /\ Handle(c))
    /\ WF_dvars(part = "delivery" /\ Tick)
    /\ \A m \in Messages : WF_dvars(part = "delivery" /\ Wake(m))

=============================================================================
