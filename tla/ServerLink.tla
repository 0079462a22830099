----------------------------- MODULE ServerLink -----------------------------
(***************************************************************************)
(* What the connection handling promises to the rest of the bot: each      *)
(* server of the configuration is loaded in its turn, after which its link *)
(* is up (a thread reads it) or down; it goes down and comes up one server *)
(* at a time, and one that was loaded is never forgotten.  ServerPool      *)
(* implements this specification.                                          *)
(***************************************************************************)
EXTENDS Integers, Sequences

CONSTANTS Servers, Config

VARIABLES
    link,     \* "unloaded", "up" or "down", for each server
    loaded    \* how many servers of Config were loaded

vars == <<link, loaded>>

Init ==
    /\ link = [s \in Servers |-> "unloaded"]
    /\ loaded = 0

\* The next server of the file is in the pool, up if its reader could start.
Load ==
    /\ loaded < Len(Config)
    /\ link[Config[loaded + 1]] = "unloaded"
    /\ loaded' = loaded + 1
    /\ \E state \in {"up", "down"} :
          link' = [link EXCEPT ![Config[loaded + 1]] = state]

Lose(s) ==
    /\ link[s] = "up"
    /\ link' = [link EXCEPT ![s] = "down"]
    /\ UNCHANGED loaded

Reopen(s) ==
    /\ link[s] = "down"
    /\ link' = [link EXCEPT ![s] = "up"]
    /\ UNCHANGED loaded

Next == Load \/ \E s \in Servers : Lose(s) \/ Reopen(s)

Spec == Init /\ [][Next]_vars
=============================================================================
