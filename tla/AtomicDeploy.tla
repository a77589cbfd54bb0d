---------------------------- MODULE AtomicDeploy ----------------------------
(***************************************************************************)
(* What a deployment promises, free of its files and commands: a node's    *)
(* configuration is replaced by a validated one in a single step, or put   *)
(* back to the one the request found, and HAProxy loads only what is then  *)
(* in place.  The one hole: putting it back may break off half way, and    *)
(* what is then in place is never loaded.                                  *)
(***************************************************************************)
CONSTANTS
  Valid,   \* texts that haproxy -c accepts
  Absent,  \* no configuration yet
  Broken   \* half a configuration

VARIABLES
  live,      \* the configuration in place
  running,   \* the one HAProxy runs
  found      \* the one the request at work found in place

Init ==
  /\ live \in Valid \cup {Absent}
  /\ running = live
  /\ found = live

\* A request starts.
Begin == found' = live /\ UNCHANGED <<live, running>>

\* It puts its validated text in the place of the one it found.
Activate ==
  /\ live = found
  /\ live' \in Valid
  /\ UNCHANGED <<running, found>>

\* It puts back the text it found, or breaks off.
Undo ==
  /\ found # Absent
  /\ live' \in {found, Broken}
  /\ UNCHANGED <<running, found>>

\* HAProxy loads the text in place.
Load == live # Broken /\ running' = live /\ UNCHANGED <<live, found>>

Next == Begin \/ Activate \/ Undo \/ Load

Spec == Init /\ [][Next]_<<live, running, found>>
=============================================================================
