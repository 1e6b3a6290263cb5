----------------------------- MODULE SerialServer -----------------------------
(***************************************************************************)
(* What the request queue promises its callers, said without futures,       *)
(* timers, tasks and threads (the docstring of app/queue.py): one server, a *)
(* waiting line of bounded length, service in the order of arrival, and an  *)
(* answer that may come before the line has been worked off because callers *)
(* give up.  InferenceQueue implements it.                                  *)
(***************************************************************************)
EXTENDS Naturals, Sequences

CONSTANTS Customers,  \* each asks once at most
          Capacity,   \* the places of the waiting line
          Closing     \* the entry after which nobody is served

VARIABLES
  line,     \* everyone who ever took a place, in order of arrival
  taken,    \* how many of them the server has called up or passed over
  serving,  \* whom the server has called up last, unless it is idle or closed
  outcome,  \* per customer, how its service ended
  answer    \* per customer, what it was told, or that it waits

vars == <<line, taken, serving, outcome, answer>>

Init ==
  /\ line = <<>>
  /\ taken = 0
  /\ serving = {}
  /\ outcome = [c \in Customers |-> "none"]
  /\ answer = [c \in Customers |-> "none"]

Places == Len(line) - taken

Enter(c) ==
  /\ answer[c] = "none"
  /\ Places < Capacity
  /\ line' = Append(line, c)
  /\ answer' = [answer EXCEPT ![c] = "awaited"]
  /\ UNCHANGED <<taken, serving, outcome>>

TurnAway(c) ==
  /\ answer[c] = "none"
  /\ Places >= Capacity
  /\ answer' = [answer EXCEPT ![c] = "full"]
  /\ UNCHANGED <<line, taken, serving, outcome>>

(* At any time, whatever the server is doing for it.                         *)
GiveUp(c) ==
  /\ answer[c] = "awaited"
  /\ answer' = [answer EXCEPT ![c] = "timeout"]
  /\ UNCHANGED <<line, taken, serving, outcome>>

(* Nobody is told anything but the outcome of its own service.               *)
Tell(c) ==
  /\ answer[c] = "awaited"
  /\ outcome[c] # "none"
  /\ answer' = [answer EXCEPT ![c] = outcome[c]]
  /\ UNCHANGED <<line, taken, serving, outcome>>

ServiceEnds(c) ==
  /\ c \in serving
  /\ outcome[c] = "none"
  /\ \E o \in {"ok", "error"} : outcome' = [outcome EXCEPT ![c] = o]
  /\ UNCHANGED <<line, taken, serving, answer>>

Close ==
  /\ \A i \in 1 .. Len(line) : line[i] # Closing
  /\ Places < Capacity
  /\ line' = Append(line, Closing)
  /\ UNCHANGED <<taken, serving, outcome, answer>>

(* The server has finished with one customer, or was idle: it passes over    *)
(* those who have given up, and only those, and calls up the next one.       *)
NextPlease ==
  /\ \A c \in serving : outcome[c] # "none"
  /\ \A i \in 1 .. taken : line[i] # Closing
  /\ \E n \in taken .. Len(line) :
       /\ \A i \in taken + 1 .. n : line[i] # Closing /\ answer[line[i]] = "timeout"
       /\ \/ n = Len(line) /\ taken' = n /\ serving' = {}
          \/ /\ n < Len(line)
             /\ taken' = n + 1
             /\ \/ line[n + 1] = Closing /\ serving' = {}
                \/ /\ line[n + 1] # Closing
                   /\ answer[line[n + 1]] = "awaited"
                   /\ serving' = {line[n + 1]}
  /\ UNCHANGED <<line, outcome, answer>>

Next ==
  \/ \E c \in Customers :
       Enter(c) \/ TurnAway(c) \/ GiveUp(c) \/ Tell(c) \/ ServiceEnds(c)
  \/ Close
  \/ NextPlease

Spec == Init /\ [][Next]_vars

=============================================================================
