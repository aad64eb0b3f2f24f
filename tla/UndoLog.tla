------------------------------- MODULE UndoLog -------------------------------
(***************************************************************************)
(* What the undo history promises, whatever locks, blobs, saves and        *)
(* crashes are behind it: a log of changes, written ahead of each of them. *)
(*                                                                         *)
(* A change is recorded with what its file held before, and only then      *)
(* made.  The log drops its oldest changes, or all of them while nobody is *)
(* changing anything.  What is undone was in the log as a change that took *)
(* place, and its file gets back what the log said it held.                *)
(***************************************************************************)
EXTENDS Naturals

CONSTANTS
  Clients,   \* who changes files and undoes changes
  Targets,   \* the files
  Holdings,  \* what a file may hold
  Absent     \* the file does not exist

VARIABLES
  file,      \* what each file holds
  log,       \* the changes that can be undone, by id
  turn,      \* what each client is doing
  unseen     \* files another program changed behind a client that has compared them

vars == <<file, log, turn, unseen>>

Doing(does, id, target, content, found, made) ==
  [does |-> does, id |-> id, target |-> target, content |-> content, found |-> found, made |-> made]
Nothing == Doing("nothing", 0, Absent, Absent, Absent, FALSE)
Changing(id, made) == Doing("change", id, Absent, Absent, Absent, made)
Undoing(id, target, content, found) == Doing("undo", id, target, content, found, FALSE)

Init ==
  /\ file \in [Targets -> Holdings]
  /\ log = [i \in {} |-> {}]
  /\ turn = [c \in Clients |-> Nothing]
  /\ unseen = {}

Turns(c, t) == turn' = [turn EXCEPT ![c] = t]
Marks(i, s) == log' = [log EXCEPT ![i].state = s]

\* Files may be seen again by a client that is done with them.
Seen == unseen' \subseteq unseen

\* A change is announced: the newest of the log, which may drop its oldest.
Record(c) ==
  /\ turn[c] = Nothing
  /\ \E i \in DOMAIN log' :
       /\ \A j \in DOMAIN log : j < i
       /\ log'[i].state = "prepared"
       /\ \E n \in 0 .. i :
            log' = [j \in {k \in DOMAIN log \cup {i} : k > n} |-> IF j = i THEN log'[i] ELSE log[j]]
       /\ Turns(c, Changing(i, FALSE))
  /\ Seen /\ UNCHANGED file

\* A file is replaced as announced, once, and held what the log says it did.
Replaces(t, new, old) ==
  /\ file[t] = old \/ t \in unseen
  /\ file' = [file EXCEPT ![t] = new]

Change(c) ==
  LET i == turn[c].id IN
  /\ turn[c] = Changing(i, FALSE)
  /\ i \in DOMAIN log
  /\ Replaces(log[i].target, log[i].after, log[i].before)
  /\ Turns(c, Changing(i, TRUE))
  /\ Seen /\ UNCHANGED log

\* What became of it: the truth, or that it is not known.
Settle(c) ==
  LET i == turn[c].id IN
  /\ i \in DOMAIN log
  /\ \/ turn[c] = Changing(i, TRUE) /\ Marks(i, "committed")
     \/ turn[c] = Changing(i, FALSE) /\ Marks(i, "aborted")
     \/ turn[c].does = "change" /\ Marks(i, "uncertain")
  /\ Turns(c, Nothing)
  /\ Seen /\ UNCHANGED file

\* A client is done, fails or dies.
Leave(c) ==
  /\ Turns(c, Nothing)
  /\ Seen /\ UNCHANGED <<file, log>>

\* Changes left prepared are judged by what their files hold, if they can be read.
Verdicts(e) ==
  IF e.state # "prepared" THEN {e.state}
  ELSE {"uncertain",
        IF file[e.target] = e.after THEN "committed"
        ELSE IF file[e.target] = e.before THEN "aborted"
        ELSE "uncertain"}
Judged ==
  /\ DOMAIN log' = DOMAIN log
  /\ log' = [i \in DOMAIN log |-> [log[i] EXCEPT !.state = log'[i].state]]
  /\ \A i \in DOMAIN log : log'[i].state \in Verdicts(log[i])
Judge == Judged /\ Seen /\ UNCHANGED <<file, turn>>

\* A client asks for a change that took place to be undone.
Ask(c) ==
  /\ turn[c] = Nothing
  /\ Judged
  /\ \E i \in DOMAIN log' :
       /\ log'[i].state = "committed"
       /\ Turns(c, Undoing(i, log[i].target, log[i].before, file[log[i].target]))
  /\ Seen /\ UNCHANGED file

\* The file gets back what it held, unless jinn has changed it since.
Undo(c) ==
  /\ turn[c].does = "undo"
  /\ Replaces(turn[c].target, turn[c].content, turn[c].found)
  /\ UNCHANGED turn \/ Turns(c, Nothing)
  /\ Seen /\ UNCHANGED log

\* An undo that may not have lasted makes its change doubtful.
Doubt(c) ==
  LET i == turn[c].id IN
  /\ turn[c].does = "undo"
  /\ i \in DOMAIN log /\ Marks(i, "uncertain")
  /\ Turns(c, Nothing)
  /\ Seen /\ UNCHANGED file

\* The whole log is dropped, but not under a change.
Clear ==
  /\ \A c \in Clients : turn[c].does # "change"
  /\ log' = [i \in {} |-> {}]
  /\ Seen /\ UNCHANGED <<file, turn>>

\* Another program changes a file.
Foreign(t) ==
  /\ \E h \in Holdings : file' = [file EXCEPT ![t] = h]
  /\ unseen' \in {unseen, unseen \cup {t}}
  /\ UNCHANGED <<log, turn>>

Next ==
  \/ \E c \in Clients : Record(c) \/ Change(c) \/ Settle(c) \/ Leave(c) \/ Ask(c) \/ Undo(c) \/ Doubt(c)
  \/ Judge \/ Clear
  \/ \E t \in Targets : Foreign(t)

Spec == Init /\ [][Next]_vars
=============================================================================
