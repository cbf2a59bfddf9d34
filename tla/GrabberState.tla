----------------------------- MODULE GrabberState -----------------------------
(***************************************************************************)
(* AbstractGrabber.State: the monitor every FrameGrabber call goes         *)
(* through.  "state" is the committed state, "temp" the state a call in    *)
(* progress is moving to, "users" the number of threads that are inside    *)
(* getNextVideoFrame().                                                    *)
(*                                                                         *)
(* A synchronized method is one atomic step, except that a thread which    *)
(* calls wait() joins "waiting" and can do nothing until a notify() takes  *)
(* it out again.  notify() wakes one arbitrary thread, or none when nobody *)
(* waits.  The methods are given here as action fragments; the module      *)
(* FrameGrabber conjoins them with the steps of the calling threads.       *)
(***************************************************************************)
EXTENDS Integers

VARIABLES
  state,    (* State.state: UNINIT, INIT, STARTED, STOPPED or RELEASED      *)
  temp,     (* State.temp: the state commit() will install                  *)
  users,    (* State.users                                                  *)
  waiting   (* threads in the monitor's wait set, not yet notified          *)

stateVars == <<state, temp, users, waiting>>

GrabberStates == {"UNINIT", "INIT", "STARTED", "STOPPED", "RELEASED"}

StateInit ==
  /\ state = "UNINIT"
  /\ temp = "UNINIT"
  /\ users = 0
  /\ waiting = {}

(* When each guarded transition is accepted; otherwise the method throws a *)
(* StateException and changes nothing.  Java's precedence is kept: from    *)
(* INIT, start() and release() do not look at temp.                        *)
MayInit    == state = "UNINIT" /\ temp # "INIT"
MayStart   == state = "INIT" \/ (state = "STOPPED" /\ temp # "STARTED")
MayStop    == state = "STARTED" /\ temp # "STOPPED"
MayRelease == state = "INIT" \/ (state = "STOPPED" /\ temp # "RELEASED")

Request(target) == temp' = target /\ UNCHANGED <<state, users, waiting>>
Commit          == state' = temp  /\ UNCHANGED <<temp, users, waiting>>
Rollback        == temp' = state  /\ UNCHANGED <<state, users, waiting>>

(* checkReleased() does not throw. *)
NotReleased == state # "RELEASED" /\ temp # "RELEASED"

(* isStarted() returns TRUE, its two fields read at one instant. *)
IsStarted == NotReleased /\ state = "STARTED" /\ temp # "STOPPED"

Notify ==
  IF waiting = {} THEN UNCHANGED waiting
                  ELSE \E w \in waiting : waiting' = waiting \ {w}

(* Mutant: a first user that tells nobody. *)
GetUserSilent == users' = users + 1 /\ UNCHANGED <<state, temp, waiting>>

(* get() notifies on the first user, put() on the last one leaving.        *)
GetUser ==
  /\ users' = users + 1
  /\ IF users = 0 THEN Notify ELSE UNCHANGED waiting
  /\ UNCHANGED <<state, temp>>

(* Mutant: the last user leaving tells nobody. *)
PutUserSilent == users' = users - 1 /\ UNCHANGED <<state, temp, waiting>>

PutUser ==
  /\ users' = users - 1
  /\ IF users = 1 THEN Notify ELSE UNCHANGED waiting
  /\ UNCHANGED <<state, temp>>

(* Mutant: the frame is returned although a stop was requested. *)
PutNeverThrows == FALSE

(* put() throws, after the user was counted out, once a stop is requested. *)
PutThrows == temp = "STOPPED"

(* The loop "while (!condition) wait()" of thread t: one test of the       *)
(* condition.  It goes on, or joins the wait set.                          *)
Passes(t, condition) == t \notin waiting /\ condition /\ UNCHANGED stateVars
Waits(t, condition) ==
  /\ t \notin waiting
  /\ ~condition
  /\ waiting' = waiting \cup {t}
  /\ UNCHANGED <<state, temp, users>>
===============================================================================
