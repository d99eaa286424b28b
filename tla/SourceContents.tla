--------------------------- MODULE SourceContents ---------------------------
(***************************************************************************)
(* What replacing the entries of one source promises, seen from outside.   *)
(*                                                                         *)
(* A call wants certain entries to be the contents of the source, and at   *)
(* some instant they become its contents.  Calls may overlap: the contents *)
(* are then made of what these calls wanted.                               *)
(***************************************************************************)
CONSTANTS
    Calls,  \* those that replace the contents
    Items   \* the entries a source may have

VARIABLES
    contents,  \* the entries of the source
    active,    \* the calls under way
    wants,     \* what each of them makes of the source
    met        \* what those wanted that took effect meanwhile

vars == <<contents, active, wants, met>>

Init ==
    /\ contents \subseteq Items
    /\ active = {}
    /\ wants = [c \in Calls |-> {}]
    /\ met = [c \in Calls |-> {}]

Start(c) ==
    /\ c \notin active
    /\ active' = active \cup {c}
    /\ wants'[c] \subseteq Items
    /\ wants' = [wants EXCEPT ![c] = wants'[c]]
    /\ UNCHANGED <<contents, met>>

\* What c and everyone it overlapped with wanted.
AllOf(c) == met[c] \cup {wants[c]}

\* Nothing comes that c did not bring, and nothing goes that it wanted; what
\* nobody wanted is not there, what everybody wanted is.  Alone, c makes the
\* contents exactly what it wants.
TakeEffect(c) ==
    /\ contents' \subseteq contents \cup wants[c]
    /\ contents \cap wants[c] \subseteq contents'
    /\ contents' \subseteq UNION AllOf(c)
    /\ \A e \in wants[c] : (\A f \in met[c] : e \in f) => e \in contents'

Leave(c) ==
    /\ active' = active \ {c}
    /\ wants' = [wants EXCEPT ![c] = {}]

Commit(c) ==
    /\ c \in active
    /\ TakeEffect(c)
    /\ Leave(c)
    /\ met' = [d \in Calls |->
                  IF d \in active \ {c} THEN met[d] \cup {wants[c]} ELSE {}]

GiveUp(c) ==
    /\ c \in active
    /\ Leave(c)
    /\ met' = [met EXCEPT ![c] = {}]
    /\ UNCHANGED contents

Next == \E c \in Calls : Start(c) \/ Commit(c) \/ GiveUp(c)

Spec == Init /\ [][Next]_vars
=============================================================================
