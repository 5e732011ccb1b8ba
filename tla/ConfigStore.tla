----------------------------- MODULE ConfigStore -----------------------------
(***************************************************************************)
(* What the commands promise about the configuration: one value, of which  *)
(* a command changes the part it is about.  A lossy store may fall back to *)
(* the defaults, as a whole and never in part.                             *)
(***************************************************************************)
CONSTANTS
    Sections,   \* the lists in the configuration
    Items,      \* what is listed
    Hooks,      \* the hook scripts it may name
    Settings,   \* everything else, taken together
    Defaults,   \* what an absent configuration stands for
    Lossy       \* whether the configuration may be lost

VARIABLE contents

Init == contents = Defaults

Add(s, i) ==
    /\ i \notin contents.lists[s]
    /\ contents' = [contents EXCEPT !.lists[s] = @ \union {i}]

Remove(s, i) ==
    /\ i \in contents.lists[s]
    /\ contents' = [contents EXCEPT !.lists[s] = @ \ {i}]

Change(v, hs) == contents' = [contents EXCEPT !.settings = v, !.hooks = hs]

Lose == Lossy /\ contents' = Defaults

Next ==
    \/ \E s \in Sections, i \in Items : Add(s, i) \/ Remove(s, i)
    \/ \E v \in Settings, hs \in SUBSET Hooks : Change(v, hs)
    \/ Lose

Spec == Init /\ [][Next]_contents
=============================================================================
