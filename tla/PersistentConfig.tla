-------------------------- MODULE PersistentConfig --------------------------
(***************************************************************************)
(* What the configuration promises its users, without threads, field       *)
(* copies, record formats or calls.                                        *)
(*                                                                         *)
(* Each key has the value in use now and the value the next start will     *)
(* use.  A key is dirty while the two may differ.  The value in use        *)
(* changes only while its key is dirty; the value for the next start only  *)
(* ever becomes the one in use at that moment, or the default if that one  *)
(* is not usable; a restart takes the values for the next start, unless    *)
(* the store cannot be opened at all.                                      *)
(***************************************************************************)
EXTENDS FiniteSets

CONSTANTS
  Key,           \* the configuration keys
  Rec,           \* the values of a key
  Default,       \* key -> the value used when nothing usable is stored
  Usable(_, _)   \* Usable(k, r): a start accepts r as the value of k

VARIABLES
  cur,    \* key -> the value in use
  next,   \* key -> the value the next start will use
  dirty   \* the keys on which the two may differ

vars == <<cur, next, dirty>>

Init ==
  /\ cur \in [Key -> Rec]
  /\ next = cur
  /\ dirty \in SUBSET Key

(* A call is made: the keys it is about to change become dirty. *)
Mark ==
  /\ dirty \subseteq dirty'
  /\ UNCHANGED <<cur, next>>

Change(k) ==
  /\ k \in dirty
  /\ \A j \in Key \ {k} : cur'[j] = cur[j]
  /\ UNCHANGED <<next, dirty>>

Flush(k) ==
  /\ next' = [next EXCEPT ![k] = IF Usable(k, cur[k]) THEN cur[k] ELSE Default[k]]
  /\ dirty' \in {dirty, dirty \ {k}}
  /\ UNCHANGED cur

Restart ==
  /\ \/ cur' = next
     \/ cur' = Default /\ dirty' = Key
  /\ UNCHANGED next

Next ==
  \/ Mark
  \/ \E k \in Key : Change(k) \/ Flush(k)
  \/ Restart

Spec == Init /\ [][Next]_vars
=============================================================================
