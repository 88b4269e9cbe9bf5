------------------------------- MODULE Resolver -------------------------------
(***************************************************************************)
(* What the ARP cache promises to those who use it, whatever vector it is  *)
(* kept in: for every address an answer that is asked for, claimed by the  *)
(* message of a station, given up in time and forgotten by the user, and   *)
(* that changes in no other way.  ARPLayer implements it.                  *)
(***************************************************************************)

CONSTANTS
  Address,  \* the addresses that can be resolved
  Message,  \* the messages that can arrive
  Station,  \* Station[c]: the hardware address that message c announces
  For,      \* For[c]: the addresses that message c may be taken for
  Blank,    \* the hardware addresses of questions
  Nobody    \* that of an address nobody has asked for

VARIABLES
  answer,
  heard     \* the message, if any, that the last step has read

Unknown  == [state |-> "unknown", mac |-> Nobody]
Open(m)  == [state |-> "open", mac |-> m]
Known(m) == [state |-> "known", mac |-> m]
Stale(m) == [state |-> "stale", mac |-> m]

\* Those that have a message for a.
Claimant(a) == {Station[c] : c \in {d \in Message : a \in For[d]}}

Questions == {Open(m) : m \in Blank}

\* What can have been the answer for a.
Older(a) ==
  {Unknown} \cup Questions
            \cup {Known(m) : m \in Claimant(a)} \cup {Stale(m) : m \in Blank \cup Claimant(a)}

Init == answer = [a \in Address |-> Unknown] /\ heard = {}

\* No answer changes but those for as.
Only(as) == answer' = [a \in Address |-> IF a \in as THEN answer'[a] ELSE answer[a]]

\* Questions and answers grow too old, several at a time; who answered remains.
Expire ==
  /\ \A a \in Address : \/ answer'[a] = answer[a]
                        \/ /\ answer[a].state \in {"open", "known"}
                           /\ answer'[a] = Stale(answer[a].mac)
  /\ Only(Address)

\* The user or a packet asks for a; an answer there was is gone.
Ask(a) == answer'[a] \in Questions /\ Only({a})

\* This very step reads a message that may be taken for a.
Learn(a, c) ==
  /\ heard' = {c}
  /\ a \in For[c]
  /\ answer'[a] = Known(Station[c])
  /\ Only({a})

\* The user deletes a, and an older answer or question may come to light.
Forget(a) == heard' = {} /\ answer'[a] \in Older(a) /\ Only({a})

\* The question for a is written over the answer for b, unless a has one already.
Displace(a, b) ==
  /\ heard' = {}
  /\ answer'[a] \in {answer[a]} \cup Questions
  /\ answer'[b] \in Older(b)
  /\ Only({a, b})

ForgetAll == answer' = [a \in Address |-> Unknown]

Next ==
  \/ Expire
  \/ \E a \in Address : \/ Ask(a)
                        \/ \E c \in Message : Learn(a, c)
                        \/ Forget(a)
                        \/ \E b \in Address \ {a} : Displace(a, b)
  \/ ForgetAll

Spec == Init /\ [][Next]_answer
===============================================================================
