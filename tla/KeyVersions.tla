---------------------------- MODULE KeyVersions ----------------------------
(***************************************************************************)
(* What the tokenserver promises about the keys of an account: the version *)
(* it accepts only ever moves forward, and a key once given up never comes *)
(* back.  TokenServer implements this for each account until two of its    *)
(* own requests get in each other's way; then nothing more is promised.    *)
(***************************************************************************)
EXTENDS Integers

CONSTANTS Accounts, ClientStates, Timestamps, Unreported

VARIABLES
  version, \* the accepted version of each account's keys, NoVersion at first
  retired  \* the client states each account has given up

NoVersion == [state |-> Unreported, generation |-> 0, keysChangedAt |-> Unreported]

Version == [state : ClientStates, generation : Timestamps \cup {0},
            keysChangedAt : Timestamps \cup {Unreported}]

(* A timestamp never reported is below every one that was.                 *)
NotBelow(new, old) == old = Unreported \/ (new # Unreported /\ new >= old)

First(a, v) == version[a] = NoVersion /\ retired[a] = {} /\ retired' = retired

(* A password change, or news of a timestamp: the key stays.               *)
Advance(a, v) ==
  /\ version[a] # NoVersion
  /\ v.state = version[a].state
  /\ v.generation >= version[a].generation
  /\ NotBelow(v.keysChangedAt, version[a].keysChangedAt)
  /\ retired' = retired

(* A new key, never seen before, with timestamps that did not fall; and if *)
(* both keys came with a time, the new one's is later.                     *)
Rotate(a, v) ==
  /\ version[a] # NoVersion
  /\ v.state \notin retired[a] \cup {version[a].state}
  /\ v.generation >= version[a].generation
  /\ NotBelow(v.keysChangedAt, version[a].keysChangedAt)
  /\ version[a].keysChangedAt # Unreported => v.keysChangedAt > version[a].keysChangedAt
  /\ retired' = [retired EXCEPT ![a] = @ \cup {version[a].state}]

(* The account is removed, and its keys with it, or nothing is promised of  *)
(* it any more.                                                            *)
Remove(a) ==
  /\ version' = [version EXCEPT ![a] = NoVersion]
  /\ retired' = [retired EXCEPT ![a] = {}]

Init ==
  /\ version = [a \in Accounts |-> NoVersion]
  /\ retired = [a \in Accounts |-> {}]

Next ==
  \E a \in Accounts :
    \/ LET v == version'[a] IN
       /\ v \in Version
       /\ First(a, v) \/ Advance(a, v) \/ Rotate(a, v)
       /\ version' = [version EXCEPT ![a] = v]
    \/ Remove(a)

Spec == Init /\ [][Next]_<<version, retired>>

=============================================================================
