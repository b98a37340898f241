------------------------------ MODULE History ------------------------------
(***************************************************************************)
(* What durability comes to when handlers persist outside the world lock:  *)
(* a world that edits replace one after the other, and one world of its    *)
(* past that is kept for the next start.  Which one is kept is open (see   *)
(* AnsweredIsDurable in Saves for the promise the documents make), but it  *)
(* is always a whole one, and a start resumes exactly that.                *)
(***************************************************************************)
VARIABLES
  world,
  kept,     \* what the next start resumes
  past      \* every world there was since the last start, and what may be kept besides

Init == kept = world /\ past = {world}

Edit == past' = past \cup {world'} /\ UNCHANGED kept

Keep == kept' \in past /\ UNCHANGED <<world, past>>

\* The new process knows of no other past than what it resumes and the seed.
Resume ==
  /\ world' = kept /\ UNCHANGED kept
  /\ kept \in past' /\ past' \subseteq past

Next == Edit \/ Keep \/ Resume

Spec == Init /\ [][Next]_<<world, kept, past>>
=============================================================================
