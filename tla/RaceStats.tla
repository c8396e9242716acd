----------------------------- MODULE RaceStats -----------------------------
(***************************************************************************)
(* What QR2 keeps of the races in a room: the ProcessMKW handlers of       *)
(* qr2/group.go, which handleWWFCReport (gpcm/report.go) calls for each     *)
(* record of a report, raceResults and racePlayers, and the timer that     *)
(* removeFromGroup starts to drop them three hours after the room closed.  *)
(*                                                                         *)
(* A handler finds the room without holding the mutex for what follows, so  *)
(* the player may have left and the room may be closed when the record is  *)
(* filed, by the room's name.  The timer deletes from both maps without the *)
(* mutex: a write at the same time ends the program.  Names are random and *)
(* compared with those of open rooms only.  A restart of the backend saves  *)
(* the rooms, with their races' numbers, and neither of the two maps.       *)
(***************************************************************************)
EXTENDS Integers, Sequences, FiniteSets, SequencesExt

CONSTANTS
    RPlayers,       \* players, each with a QR2 session and login
    RRooms,         \* groups, each created once
    RNames,         \* names of rooms
    RCourses,       \* courses
    RNone,          \* no room, no name, no course
    MaxRaces,       \* bound: races of a room
    MaxResults      \* bound: results of a race

ASSUME RaceAssumption ==
    RNone \notin RRooms \cup RNames \cup RCourses /\ MaxRaces \in Nat /\ MaxResults \in Nat

VARIABLES
    inRoom,         \* Session.groupPointer
    name,           \* Group.GroupName, RNone before the group is created
    race,           \* MKWRaceNumber and MKWCourseID of the group
    results,        \* raceResults: by name and race the courses of the results, <<>> when absent
    staged,         \* the names in racePlayers
    report,         \* the record that the player's gpcm connection is handling
    timers,         \* rooms whose timer runs, and those it is deleting the entries of
    fatal,          \* the program was ended by two accesses to a map
    outlived,       \* history: rooms that were closed while a report was on its way to them
    reused          \* history: names that were given while results were kept for them

raceVars == <<inRoom, name, race, results, staged, report, timers, fatal, outlived, reused>>

NoReport == [kind |-> "none", room |-> RNone, course |-> RNone]
NoResults == [n \in 1..MaxRaces |-> <<>>]
In(g) == {p \in RPlayers : inRoom[p] = g}
Open(g) == In(g) # {}
OpenNames == {name[g] : g \in {h \in RRooms : Open(h)}}
HasResults(n) == results[n] # NoResults
Reports(g) == {p \in RPlayers : report[p].room = g}
Deleting == {x \in timers : x[2] # "waits"}

RaceInit ==
    /\ inRoom  = [p \in RPlayers |-> RNone]
    /\ name    = [g \in RRooms |-> RNone]
    /\ race    = [g \in RRooms |-> [num |-> 0, course |-> RNone]]
    /\ results = [n \in RNames |-> NoResults]
    /\ staged  = {}
    /\ report  = [p \in RPlayers |-> NoReport]
    /\ timers  = {}
    /\ fatal   = FALSE
    /\ outlived = {}
    /\ reused  = {}

statVars == <<name, race, results, staged, report, timers, fatal, outlived, reused>>

\* processResvOK with a sender without a room, and with one.
CreateRoom(p, g, n) ==
    /\ inRoom[p] = RNone /\ name[g] = RNone /\ n \notin OpenNames
    /\ name'   = [name EXCEPT ![g] = n]
    /\ inRoom' = [inRoom EXCEPT ![p] = g]
    /\ reused' = IF HasResults(n) \/ \E h \in RRooms : name[h] = n THEN reused \cup {n} ELSE reused
    /\ UNCHANGED <<race, results, staged, report, timers, fatal, outlived>>

JoinRoom(p, g) ==
    /\ inRoom[p] = RNone /\ Open(g)
    /\ inRoom' = [inRoom EXCEPT ![p] = g]
    /\ UNCHANGED statVars

\* Mutant: the timer is started when the room has players left.
LeaveRoomEarly(p) ==
    LET g == inRoom[p] IN
    /\ g # RNone
    /\ inRoom' = [inRoom EXCEPT ![p] = RNone]
    /\ timers' = IF HasResults(name[g]) THEN timers \cup {<<g, "waits">>} ELSE timers
    /\ outlived'   = IF In(g) = {p} /\ Reports(g) # {} THEN outlived \cup {g} ELSE outlived
    /\ UNCHANGED <<name, race, results, staged, report, fatal, reused>>

\* Mutant: racePlayers is asked whether there is something to drop.
LeaveRoomStaged(p) ==
    LET g == inRoom[p] IN
    /\ g # RNone
    /\ inRoom' = [inRoom EXCEPT ![p] = RNone]
    /\ timers' = IF In(g) = {p} /\ name[g] \in staged THEN timers \cup {<<g, "waits">>} ELSE timers
    /\ outlived'   = IF In(g) = {p} /\ Reports(g) # {} THEN outlived \cup {g} ELSE outlived
    /\ UNCHANGED <<name, race, results, staged, report, fatal, reused>>

\* removeFromGroup
LeaveRoom(p) ==
    LET g      == inRoom[p]
        closes == In(g) = {p}
    IN  /\ g # RNone
        /\ inRoom' = [inRoom EXCEPT ![p] = RNone]
        /\ timers' = IF closes /\ HasResults(name[g]) THEN timers \cup {<<g, "waits">>} ELSE timers
        /\ outlived'   = IF closes /\ Reports(g) # {} THEN outlived \cup {g} ELSE outlived
        /\ UNCHANGED <<name, race, results, staged, report, fatal, reused>>

\* handleWWFCReport passes a record on, and the handler finds the room.  What
\* cannot be parsed is dropped.
Report(p, kind, course) ==
    /\ report[p] = NoReport /\ inRoom[p] # RNone
    /\ report' = [report EXCEPT ![p] = [kind |-> kind, room |-> inRoom[p], course |-> course]]
    /\ UNCHANGED <<inRoom, name, race, results, staged, timers, fatal, outlived, reused>>

Handled(p) == report' = [report EXCEPT ![p] = NoReport]

\* A map is written; while the timer deletes, the runtime may notice.
MapWrite == IF Deleting # {} THEN fatal' \in BOOLEAN ELSE UNCHANGED fatal

\* ProcessMKWSelectRecord; the engine class, set with it and apart, is left out.
SelectCourse(p) ==
    LET r == report[p] IN
    /\ r.kind = "course" /\ race[r.room].num < MaxRaces
    /\ race' = [race EXCEPT ![r.room] = [num |-> @.num + 1, course |-> r.course]]
    /\ Handled(p)
    /\ UNCHANGED <<inRoom, name, results, staged, timers, fatal, outlived, reused>>

\* ProcessMKWExtendedTeams and ProcessMKWRaceStage make the player's entry.
PlayerEntry(p) ==
    /\ report[p].kind = "stage"
    /\ staged' = staged \cup {name[report[p].room]}
    /\ MapWrite /\ Handled(p)
    /\ UNCHANGED <<inRoom, name, race, results, timers, outlived, reused>>

\* ProcessMKWRaceResult
RaceResult(p) ==
    LET g == report[p].room
        n == name[g]
    IN  /\ report[p].kind = "result"
        /\ IF race[g].num = 0 THEN UNCHANGED <<results, fatal>>
           ELSE /\ Len(results[n][race[g].num]) < MaxResults
                /\ results' = [results EXCEPT ![n][race[g].num] = Append(@, race[g].course)]
                /\ MapWrite
        /\ Handled(p)
        /\ UNCHANGED <<inRoom, name, race, staged, timers, outlived, reused>>

\* The timer's two deletions.  No report takes three hours, so that none which
\* was under way when the room closed is left.
TimerResults(g) ==
    /\ <<g, "waits">> \in timers /\ Reports(g) = {}
    /\ results' = [results EXCEPT ![name[g]] = NoResults]
    /\ timers'  = (timers \ {<<g, "waits">>}) \cup {<<g, "deletes">>}
    /\ UNCHANGED <<inRoom, name, race, staged, report, fatal, outlived, reused>>

TimerPlayers(g) ==
    /\ <<g, "deletes">> \in timers
    /\ staged' = staged \ {name[g]}
    /\ timers' = timers \ {<<g, "deletes">>}
    /\ UNCHANGED <<inRoom, name, race, results, report, fatal, outlived, reused>>

\* The backend restarts: the rooms are loaded again (saveGroups, loadGroups), the
\* maps and the timers are those of a new process.  A record that was being
\* handled was filed before, or goes with the process.
RaceReload ==
    /\ results' = [n \in RNames |-> NoResults]
    /\ staged' = {} /\ timers' = {}
    /\ report' = [p \in RPlayers |-> NoReport]
    /\ UNCHANGED <<inRoom, name, race, fatal, outlived, reused>>

RaceNext ==
    /\ ~fatal
    /\ \/ \E p \in RPlayers :
            \/ \E g \in RRooms : JoinRoom(p, g) \/ \E n \in RNames : CreateRoom(p, g, n)
            \/ LeaveRoom(p)
            \/ \E c \in RCourses : Report(p, "course", c)
            \/ \E k \in {"stage", "result"} : Report(p, k, RNone)
            \/ SelectCourse(p) \/ PlayerEntry(p) \/ RaceResult(p)
       \/ \E g \in RRooms : TimerResults(g) \/ TimerPlayers(g)
       \/ RaceReload

-----------------------------------------------------------------------------
(* Properties.                                                              *)

\* All results filed under one race of a room are of the same course, although
\* they and the selection of the course come from different players in any
\* order, may come after their senders have left, and go on under the same
\* number after a restart (group.go:521-527, 798-822).
\* Only a name that is given again while its results are kept mixes two rooms.
CourseOfRace ==
    \A n \in RNames \ reused, k \in 1..MaxRaces : \A i, j \in DOMAIN results[n][k] :
        results[n][k][i] = results[n][k][j]

\* The results of a room are dropped only after it closed, and then they are: a
\* name has results only while the room is open or its timer runs, unless a
\* report reached the room after it closed (session.go:82-99).  The entries of
\* racePlayers alone start no timer.
ResultsForgotten ==
    \A g \in RRooms :
        (name[g] # RNone /\ name[g] \notin reused /\ g \notin outlived /\ HasResults(name[g]))
            => Open(g) \/ <<g, "waits">> \in timers

\* Results of an open room are only added to, whoever leaves it and whichever
\* room's timer runs out.  Only a restart of the backend, over which the room and
\* the number of its race are kept, loses them: raceResults is not saved
\* (group.go:37-38, 798-822, 858-913, session.go:82-99).
ResultsKept ==
    [][RaceReload \/ \A g \in RRooms : (Open(g) /\ name[g] \notin reused) =>
          \A k \in 1..MaxRaces : IsPrefix(results[name[g]][k], results'[name[g]][k])]_raceVars

\* What is kept of a room's races: one course per race, and nothing once the
\* room's timer has run out (group.go:490-824, session.go:86-97).
RacesInv == CourseOfRace /\ ResultsForgotten

=============================================================================
